---------------------------- MODULE ReadyProofs ----------------------------
(***************************************************************************)
(* A flash never meets a workload, and a CR that reports ready is ready:   *)
(* FlashIsolated and ReadyIsTrue, where versions only go forward.          *)
(***************************************************************************)
EXTENDS RolloutProofs

\* No CR returns to a version it has left.
EditsGoForward == \E le \in SUBSET (Versions \X Versions) : Forward(le)

\* The newest Job of a CR on a node is the one that runs there, if one does.
RunningNewest(le) ==
  \A c \in Crs, n \in Nodes, v, w \in Versions :
    job[<<c, n, v>>] = "running" /\ job[<<c, n, w>>] # "none" => <<w, v>> \in le

\* What keeps the flashes of one node apart.
ApartInv == OwnInv /\ (OneSlot => SlotInv) /\ (FixedVersions => VersionInv(Same))

\* What both proofs start from.
BaseInv(le) ==
  /\ OwnedInv /\ ApartInv
  /\ VersionInv(le)
  /\ RunningNewest(le)

\* No two flashes of one node run at a time, now and after a step.
LEMMA BaseApart ==
  ASSUME NoOverlap
  PROVE  (ApartInv => FlashesApart) /\ (ApartInv' => FlashesApart')
<1>1. ApartInv => FlashesApart
  BY ApartIfOneSlot, ApartIfFixed DEF ApartInv, NoOverlap
<1>2. ApartInv' => FlashesApart'
  BY <1>1, PTL
<1> QED BY <1>1, <1>2

\* The newest Job stays the one that runs: one is created for the newest version, and
\* when no other runs on the node.
LEMMA RunningNewestStep ==
  ASSUME NEW le, Forward(le), BaseInv(le), FlashesApart', [Next]_vars
  PROVE  RunningNewest(le)'
<1>1. TypeOK /\ VersionInv(le) /\ RunningNewest(le)
  BY DEF BaseInv, VersionInv
<1> SUFFICES ASSUME NEW c \in Crs, NEW n \in Nodes, NEW v \in Versions, NEW w \in Versions,
                    job'[<<c, n, v>>] = "running", job'[<<c, n, w>>] # "none"
             PROVE  <<w, v>> \in le
  BY DEF RunningNewest
<1>2. <<c, n, v>> \in JobKeys /\ <<c, n, w>> \in JobKeys
  BY DEF JobKeys
<1>3. CASE job[<<c, n, v>>] = "running" /\ job[<<c, n, w>>] # "none"
  BY <1>1, <1>3 DEF RunningNewest
<1>4. CASE ~Spawn
  BY <1>1, <1>2, <1>3, <1>4, JobsOnlyEnd
<1>5. CASE Spawn
  <2>1. /\ \A k \in JobKeys : k # FlashJob => job'[k] = job[k]
        /\ job'[FlashJob] # job[FlashJob] => job[FlashJob] = "none" /\ job'[FlashJob] = "running"
        /\ FlashJob = <<cur, target, rspec.version>> /\ pc # "idle"
    BY <1>1, <1>5, SpawnsOneJob DEF FlashJob, Spawn
  <2>2. CASE <<c, n, v>> = FlashJob
    <3>1. v = rspec.version /\ c = cur
      BY <2>1, <2>2
    <3>2. CASE w = v
      BY <3>2 DEF Forward
    <3>3. CASE w # v
      <4>1. job[<<c, n, w>>] # "none"
        BY <1>2, <2>1, <3>1, <3>3
      <4> QED BY <1>1, <1>2, <2>1, <3>1, <4>1 DEF VersionInv
    <3> QED BY <3>2, <3>3
  <2>3. CASE <<c, n, v>> # FlashJob
    <3>1. job[<<c, n, v>>] = "running"
      BY <1>2, <2>1, <2>3
    <3>2. CASE job[<<c, n, w>>] = "none"
      <4>1. <<c, n, w>> = FlashJob /\ job'[<<c, n, w>>] = "running"
        BY <1>2, <2>1, <3>2
      <4>2. v = w
        BY <4>1 DEF FlashesApart
      <4> QED BY <2>3, <4>1, <4>2
    <3> QED BY <1>3, <3>1, <3>2
  <2> QED BY <2>2, <2>3
<1> QED BY <1>4, <1>5

\* Every step keeps the base.
LEMMA BaseStep ==
  ASSUME NEW le, Forward(le), NoOverlap, CurrentNodeReads, BaseInv(le), [Next]_vars
  PROVE  BaseInv(le)'
<1>1. OwnedInv'
  BY OwnedInvStep DEF BaseInv
<1>2. VersionInv(le)'
  BY VersionInvStep DEF BaseInv
<1>3. OneSlot => SlotInv'
  BY SlotInvStep DEF BaseInv, ApartInv, OneSlot
<1>4. FixedVersions => VersionInv(Same)'
  BY SameIsForward, VersionInvStep DEF BaseInv, ApartInv
<1>5. ApartInv'
  BY <1>1, <1>3, <1>4 DEF ApartInv, OwnedInv, OneSlot, TrueJobReads
<1>6. RunningNewest(le)'
  BY <1>5, BaseApart, RunningNewestStep
<1> QED BY <1>1, <1>2, <1>5, <1>6 DEF BaseInv

\* It holds at the start.
LEMMA BaseInit == ASSUME NEW le, Init PROVE BaseInv(le)
<1>1. OwnedInv
  BY OwnInvInit DEF OwnedInv, Init, JobsOwned, ListIsMatched
<1>2. RunningNewest(le)
  BY DEF Init, RunningNewest, JobKeys
<1> QED BY <1>1, <1>2, VersionInvInit, SlotInvInit DEF BaseInv, ApartInv, OwnedInv

-----------------------------------------------------------------------------
(* Isolation. *)

\* The reads of Jobs and pods are current and never fail, and nobody but the
\* controller uncordons a node.
CordonsTrusted ==
  /\ "job" \notin Lagging /\ "pod" \notin Lagging
  /\ "readerr" \notin Env /\ "uncordon" \notin Env

\* The pods FlashIsolated is about do not tolerate the cordon's taint.
Workloads(n) ==
  {p \in Pods : /\ PodSpec[p].node = n /\ PodSpec[p].device
                /\ PodSpec[p].owner = "ReplicaSet" /\ ~PodSpec[p].operatorNs}
WorkloadsRespectCordons == \A n \in Nodes : \A p \in Workloads(n) : ~PodSpec[p].tolerates

\* A node that is out of service and empty.
Isolated(n) == node[n].unsched /\ \A p \in Workloads(n) : pod[p] \in {"absent", "finished"}

\* A claim and a cordon leave an unschedulable node so.
LEMMA PatchesKeepUnsched ==
  ASSUME NEW s \in NodeRec, NEW o \in NodeRec, NEW c \in Crs, s.unsched
  PROVE  /\ MergePatch(s, o, [o EXCEPT !.owner = c]).unsched
         /\ MergePatch(s, o, CordonNode(o, c)).unsched
BY DEF MergePatch, CordonNode, NodeRec

\* Only Uncordon ends a cordon.
LEMMA OnlyUncordonUncordons ==
  ASSUME TypeOK, "uncordon" \notin Env, [Next]_vars, NEW n \in Nodes, node[n].unsched,
         ~(Uncordon /\ target = n)
  PROVE  node'[n].unsched
<1>1. node \in [Nodes -> NodeRec] /\ snap \in [Nodes -> NodeRec]
  BY DEF TypeOK, ObjectTypes, LoopTypes
<1>2. ASSUME NEW m \in Nodes, Claim(m) PROVE node'[n].unsched
  <2>1. cur \in Crs
    BY <1>2 DEF Claim, TypeOK, ReadTypes
  <2>2. \/ UNCHANGED node
        \/ node' = [node EXCEPT ![m] =
                      MergePatch(node[m], snap[m], [snap[m] EXCEPT !.owner = cur])]
    BY <1>2 DEF Claim
  <2>3. n = m => MergePatch(node[m], snap[m], [snap[m] EXCEPT !.owner = cur]).unsched
    BY <1>1, <2>1, PatchesKeepUnsched
  <2> QED BY <1>1, <2>2, <2>3
<1>3. CASE Cordon
  <2>1. target \in Nodes /\ cur \in Crs
    BY <1>3 DEF Cordon, TypeOK, ReadTypes, LoopTypes
  <2>2. \/ UNCHANGED node
        \/ node' = [node EXCEPT ![target] =
                      MergePatch(node[target], snap[target], CordonNode(snap[target], cur))]
    BY <1>3 DEF Cordon
  <2>3. n = target =>
          MergePatch(node[target], snap[target], CordonNode(snap[target], cur)).unsched
    BY <1>1, <2>1, PatchesKeepUnsched
  <2> QED BY <1>1, <2>2, <2>3
<1>4. CASE Uncordon
  <2>1. \/ UNCHANGED node
        \/ node' = [node EXCEPT ![target] =
                      MergePatch(node[target], snap[target], UncordonNode(snap[target], cur))]
    BY <1>4 DEF Uncordon
  <2> QED BY <1>1, <1>4, <2>1
<1>5. CASE Publish
  <2>1. PICK labelled : node' = [x \in Nodes |-> IF x \in labelled
                                THEN [node[x] EXCEPT !.fwver = rspec.version]
                                ELSE node[x]]
    BY <1>5 DEF Publish
  <2> QED BY <1>1, <2>1 DEF NodeRec
<1>6. CASE Environment
  <2>1. ASSUME NEW m \in Nodes, HumanCordon(m) \/ ToggleSkip(m) \/ DrainDeadline(m)
        PROVE  node'[n].unsched
    <3>1. \/ node' = [node EXCEPT ![m] = [node[m] EXCEPT !.unsched = TRUE]]
          \/ node' = [node EXCEPT ![m] = [node[m] EXCEPT !.skip = ~node[m].skip]]
          \/ node' = [node EXCEPT ![m] = [node[m] EXCEPT !.at = "expired"]]
      BY <2>1 DEF HumanCordon, ToggleSkip, DrainDeadline
    <3> QED BY <1>1, <3>1 DEF NodeRec
  <2>2. \/ UNCHANGED node
        \/ \E m \in Nodes : HumanCordon(m) \/ ToggleSkip(m) \/ DrainDeadline(m)
    BY <1>6 DEF Environment, HumanUncordon, SyncNodes, SyncJobs, SyncPods, JobSucceeds, JobFails,
       JobExpires, CollectJob, DeleteCr, EditSpec, PodStarts, PodFinishes, PodRemoved
  <2> QED BY <2>1, <2>2
<1>7. CASE UNCHANGED vars
  BY <1>7 DEF vars
<1>8. CASE Reconcile /\ ~Publish /\ ~Cordon /\ ~Uncordon /\ \A m \in Nodes : ~Claim(m)
  BY <1>8 DEF Reconcile, Start, Observe, SkipFull, CountJobs, Evict, Spawn, Abandon
<1> QED BY <1>2, <1>3, <1>4, <1>5, <1>6, <1>7, <1>8 DEF Next, Reconcile

\* No workload starts on a cordoned node.
LEMMA CordonKeepsQuiet ==
  ASSUME TypeOK, WorkloadsRespectCordons, [Next]_vars, NEW n \in Nodes, Isolated(n)
  PROVE  \A p \in Workloads(n) : pod'[p] \in {"absent", "finished"}
<1> SUFFICES ASSUME NEW p \in Workloads(n) PROVE pod'[p] \in {"absent", "finished"}
  OBVIOUS
<1>1. /\ p \in Pods /\ PodSpec[p].node = n /\ ~PodSpec[p].tolerates /\ node[n].unsched
      /\ pod[p] \in {"absent", "finished"} /\ pod \in [Pods -> PodPhases]
  BY DEF Workloads, WorkloadsRespectCordons, Isolated, TypeOK, ObjectTypes
<1>2. CASE Evict
  BY <1>1, <1>2 DEF Evict, EvictPods
<1>3. ASSUME NEW q \in Pods, PodStarts(q) \/ PodFinishes(q) \/ PodRemoved(q)
      PROVE  pod'[p] \in {"absent", "finished"}
  BY <1>1, <1>3 DEF PodStarts, PodFinishes, PodRemoved
<1>4. \/ UNCHANGED pod \/ Evict
      \/ \E q \in Pods : PodStarts(q) \/ PodFinishes(q) \/ PodRemoved(q)
  <2>1. CASE UNCHANGED vars
    BY <2>1 DEF vars
  <2>2. CASE Reconcile
    BY <2>2 DEF Reconcile, Start, Observe, SkipFull, Claim, CountJobs, Cordon, Spawn,
                Uncordon, Publish, Abandon
  <2>3. CASE Environment
    BY <2>3 DEF Environment, SyncNodes, SyncJobs, SyncPods, JobSucceeds, JobFails, JobExpires,
       CollectJob, DeleteCr, EditSpec, HumanCordon, HumanUncordon, ToggleSkip, DrainDeadline
  <2> QED BY <2>1, <2>2, <2>3 DEF Next
<1> QED BY <1>1, <1>2, <1>3, <1>4

\* A node stays isolated until it is uncordoned.
LEMMA StaysIsolated ==
  ASSUME TypeOK, "uncordon" \notin Env, WorkloadsRespectCordons, [Next]_vars,
         NEW n \in Nodes, Isolated(n), ~(Uncordon /\ target = n)
  PROVE  Isolated(n)'
<1>1. node[n].unsched
  BY DEF Isolated
<1>2. node'[n].unsched
  BY <1>1, OnlyUncordonUncordons
<1>3. \A p \in Workloads(n) : pod'[p] \in {"absent", "finished"}
  BY CordonKeepsQuiet
<1> QED BY <1>2, <1>3 DEF Isolated, Workloads

\* observeNode's gates: a node it reports ready to flash has been drained, and one it
\* reports to uncordon has its Job done.
LEMMA ObserveGates ==
  ASSUME DrainAlways, NEW c \in Crs, NEW s \in Specs, NEW l \in NodeRec, NEW n \in Nodes,
         NEW jobs, NEW phase, phase \in [Pods -> PodPhases],
         NEW st, st = observeNode(c, s, l, n, jobs, phase)
  PROVE  /\ st.state = "Pending" /\ st.reason # "ExternalCordon" =>
              l.unsched /\ \A p \in Workloads(n) : phase[p] \in {"absent", "finished"}
         /\ st.state = "Uncordoning" => jobs[<<c, n, s.version>>] = "succeeded"
         /\ st.reason # "NodeConflict"
<1>1. s.drain
  BY DEF DrainAlways
<1>2. ListDevicePodsOnNode(phase, n, s.force) = {} =>
        \A p \in Workloads(n) : phase[p] \in {"absent", "finished"}
  <2> SUFFICES ASSUME NEW p \in Workloads(n), phase[p] \notin {"absent", "finished"}
               PROVE  p \in ListDevicePodsOnNode(phase, n, s.force)
    OBVIOUS
  <2>1. p \in Pods /\ phase[p] \in {"running", "terminating"}
    BY DEF Workloads, PodPhases
  <2> QED BY <2>1 DEF Workloads, ListDevicePodsOnNode, ListPodsOnNode, PodUsesTenstorrentDevice
<1>3. jobs[<<c, n, s.version>>] \notin {"succeeded", "failed", "running"} =>
        st = ObservePreFlash(c, s, l, n, phase)
  BY DEF observeNode
<1>4. LET q == ObservePreFlash(c, s, l, n, phase) IN
      /\ q.state = "Pending" /\ q.reason # "ExternalCordon" =>
           l.unsched /\ ListDevicePodsOnNode(phase, n, s.force) = {}
      /\ q.state # "Uncordoning" /\ q.reason # "NodeConflict"
  BY <1>1 DEF ObservePreFlash, Is
<1>5. jobs[<<c, n, s.version>>] \in {"succeeded", "failed", "running"} =>
        /\ st.state # "Pending" /\ st.reason # "NodeConflict"
        /\ st.state = "Uncordoning" => jobs[<<c, n, s.version>>] = "succeeded"
  BY DEF observeNode, Is
<1> QED BY <1>2, <1>3, <1>4, <1>5

\* The part of the invariant about a reconcile's own findings.
IsolFindings ==
  /\ pc = "observe" => \A n \in Nodes : snap[n].unsched => node[n].unsched
  /\ pc # "idle" =>
       \A n \in Nodes :
         /\ ns[n].state = "Pending" /\ ns[n].reason \notin {"NodeConflict", "ExternalCordon"}
              => Isolated(n)
         /\ ns[n].state = "Uncordoning" =>
              \A v \in Versions : job[<<cur, n, v>>] # "running"
  /\ pc \in {"advance", "act"} =>
       \A n \in todo : ns[n].reason \notin {"NodeConflict", "ExternalCordon"}

\* The nodes on which a flash runs are isolated.
IsolFlashes ==
  \A c \in Crs, n \in Nodes, v \in Versions : job[<<c, n, v>>] = "running" => Isolated(n)

\* The inductive invariant: a reconcile only goes on to flash nodes that are isolated,
\* from its observation to its Job, and only uncordons nodes on which nothing runs.
IsolInv(le) == BaseInv(le) /\ IsolFlashes /\ IsolFindings

\* A flash starts on an isolated node, and none is uncordoned during one.
LEMMA IsolFlashesStep ==
  ASSUME NEW le, CordonsTrusted, WorkloadsRespectCordons, IsolInv(le), [Next]_vars
  PROVE  IsolFlashes'
<1>1. /\ TypeOK /\ FlasherOwnsNode /\ ClaimsAreCurrent /\ "uncordon" \notin Env
      /\ IsolFlashes /\ IsolFindings
  BY DEF IsolInv, BaseInv, OwnedInv, OwnInv, CordonsTrusted
<1> SUFFICES ASSUME NEW c \in Crs, NEW n \in Nodes, NEW v \in Versions,
                    job'[<<c, n, v>>] = "running"
             PROVE  Isolated(n)'
  BY DEF IsolFlashes
<1>2. <<c, n, v>> \in JobKeys
  BY DEF JobKeys
<1>3. CASE job[<<c, n, v>>] = "running"
  <2>1. Isolated(n)
    BY <1>1, <1>3 DEF IsolFlashes
  <2>2. ASSUME Uncordon, target = n PROVE FALSE
    <3>1. pc = "act" /\ ns[n].state = "Uncordoning"
      BY <2>2 DEF Uncordon
    <3>2. node[n].owner = cur
      BY <1>1, <2>2, <3>1 DEF ClaimsAreCurrent
    <3>3. c = cur
      BY <1>1, <1>3, <3>2 DEF FlasherOwnsNode
    <3> QED BY <1>1, <1>3, <3>1, <3>3 DEF IsolFindings
  <2> QED BY <1>1, <2>1, <2>2, StaysIsolated
<1>4. CASE job[<<c, n, v>>] # "running"
  <2>1. Spawn
    BY <1>1, <1>2, <1>4, JobsOnlyEnd
  <2>2. <<c, n, v>> = FlashJob
    BY <1>1, <1>2, <1>4, <2>1, SpawnsOneJob
  <2>3. n = target /\ pc = "act" /\ ns[n].state = "Pending" /\ ~Uncordon
    BY <2>1, <2>2 DEF FlashJob, Spawn, Uncordon
  <2>4. n \in todo
    BY <1>1, <2>3 DEF ClaimsAreCurrent
  <2>5. Isolated(n)
    BY <1>1, <2>3, <2>4 DEF IsolFindings
  <2> QED BY <1>1, <2>3, <2>5, StaysIsolated
<1> QED BY <1>3, <1>4

\* What a reconcile has found stays so until it acts on it.
LEMMA IsolFindingsStep ==
  ASSUME NEW le, Forward(le), DrainAlways, CordonsTrusted, CurrentNodeReads,
         WorkloadsRespectCordons, IsolInv(le), [Next]_vars
  PROVE  IsolFindings'
<1>1. /\ TypeOK /\ VersionInv(le) /\ RunningNewest(le) /\ IsolFindings
      /\ "uncordon" \notin Env /\ "readerr" \notin Env /\ JobView = job /\ PodView = pod
  BY DEF IsolInv, BaseInv, VersionInv, CordonsTrusted, JobView, PodView
<1>2. /\ node \in [Nodes -> NodeRec] /\ snap \in [Nodes -> NodeRec] /\ todo \subseteq Nodes
      /\ ns \in [Nodes -> NodeStatus] /\ pod \in [Pods -> PodPhases]
  BY <1>1 DEF TypeOK, ObjectTypes, LoopTypes
<1>3. ASSUME NEW c \in Crs, Start(c) PROVE IsolFindings'
  <2>1. /\ pc' = "observe" /\ snap' = node /\ node' = node
        /\ \A n \in Nodes : ns'[n] = Is("Pending", "NodeConflict") \/ ns'[n] = Unlisted
    BY <1>3 DEF Start, NodeView, CurrentNodeReads
  <2>2. \A n \in Nodes : \/ ns'[n].state = "unlisted"
                         \/ ns'[n].state = "Pending" /\ ns'[n].reason = "NodeConflict"
    <3>1. /\ Unlisted.state = "unlisted" /\ Is("Pending", "NodeConflict").state = "Pending"
          /\ Is("Pending", "NodeConflict").reason = "NodeConflict"
      BY DEF Is, Unlisted
    <3> QED BY <2>1, <3>1
  <2>3. \A n \in Nodes : snap'[n].unsched => node'[n].unsched
    BY <2>1
  <2>4. pc' \notin {"advance", "act"}
    BY <2>1
  <2> QED BY <2>2, <2>3, <2>4 DEF IsolFindings
<1>4. ASSUME NEW m \in Nodes, Observe(m) PROVE IsolFindings'
  <2> DEFINE st == observeNode(cur, rspec, snap[m], m, job, pod)
  <2>1. /\ pc = "observe" /\ pc' = "observe" /\ cur' = cur /\ UNCHANGED <<node, snap, job, pod>>
        /\ ns' = [ns EXCEPT ![m] = st]
    BY <1>1, <1>4 DEF Observe, readVars
  <2>2. cur \in Crs /\ rspec \in Specs /\ rspec.version \in Versions
    BY <1>1, <2>1, SpecsType DEF TypeOK, ReadTypes, SpecRec
  <2>3. ns'[m] = st /\ \A n \in Nodes : n # m => ns'[n] = ns[n]
    BY <1>2, <2>1
  <2>4. /\ st.state = "Pending" /\ st.reason # "ExternalCordon" =>
             snap[m].unsched /\ \A p \in Workloads(m) : pod[p] \in {"absent", "finished"}
        /\ st.state = "Uncordoning" => job[<<cur, m, rspec.version>>] = "succeeded"
    BY <1>2, <2>2, ObserveGates
  <2> HIDE DEF st
  <2>5. st.state = "Pending" /\ st.reason # "ExternalCordon" => Isolated(m)
    BY <1>1, <2>1, <2>4 DEF IsolFindings, Isolated
  <2>6. ASSUME st.state = "Uncordoning", NEW u \in Versions, job[<<cur, m, u>>] = "running"
        PROVE  FALSE
    <3>1. <<rspec.version, u>> \in le
      BY <1>1, <2>2, <2>4, <2>6 DEF RunningNewest
    <3>2. <<cur, m, u>> \in JobKeys
      BY <2>2 DEF JobKeys
    <3>3. <<u, rspec.version>> \in le
      BY <1>1, <2>1, <2>6, <3>2 DEF VersionInv
    <3>4. u = rspec.version
      BY <2>2, <3>1, <3>3 DEF Forward
    <3> QED BY <2>4, <2>6, <3>4
  <2>7. \A n \in Nodes : Isolated(n)' <=> Isolated(n)
    BY <2>1 DEF Isolated, Workloads
  <2> QED BY <1>1, <2>1, <2>3, <2>5, <2>6, <2>7 DEF IsolFindings
<1>5. ASSUME \A c \in Crs : ~Start(c), \A m \in Nodes : ~Observe(m), pc' # "idle"
      PROVE  IsolFindings'
  <2>1. pc # "idle" /\ cur' = cur
    BY <1>5, ReadsStay
  <2>2. \A n \in Nodes : \/ ns'[n] = ns[n]
                         \/ ns'[n] = Is("Flashing", "Flashing")
                         \/ ns'[n].state = "Draining" /\ ns'[n].reason = "EvictionBlocked"
    BY <1>1, <1>5, FindingsStay
  <2>3. ASSUME NEW n \in Nodes, ns'[n].state = "Pending",
               ns'[n].reason \notin {"NodeConflict", "ExternalCordon"}
        PROVE  Isolated(n)'
    <3>1. ns[n] = ns'[n]
      BY <2>2, <2>3 DEF Is
    <3>2. Isolated(n)
      BY <1>1, <2>1, <2>3, <3>1 DEF IsolFindings
    <3>3. ~(Uncordon /\ target = n)
      BY <2>3, <3>1 DEF Uncordon
    <3> QED BY <1>1, <3>2, <3>3, StaysIsolated
  <2>4. ASSUME NEW n \in Nodes, ns'[n].state = "Uncordoning", NEW v \in Versions,
               job'[<<cur, n, v>>] = "running"
        PROVE  FALSE
    <3>1. ns[n].state = "Uncordoning"
      BY <2>2, <2>4 DEF Is
    <3>2. job[<<cur, n, v>>] # "running"
      BY <1>1, <2>1, <3>1 DEF IsolFindings
    <3>3. <<cur, n, v>> \in JobKeys
      BY <1>1, <2>1 DEF JobKeys, TypeOK, ReadTypes
    <3>4. Spawn
      BY <1>1, <2>4, <3>2, <3>3, JobsOnlyEnd
    <3>5. <<cur, n, v>> = FlashJob
      BY <1>1, <2>4, <3>2, <3>3, <3>4, SpawnsOneJob
    <3> QED BY <3>1, <3>4, <3>5 DEF FlashJob, Spawn
  <2>5. ASSUME pc' = "observe", NEW n \in Nodes, snap'[n].unsched PROVE node'[n].unsched
    <3>1. Environment \/ UNCHANGED vars
      BY <1>5, <2>5 DEF Next, Reconcile, SkipFull, Claim, CountJobs, Cordon, Evict, Spawn,
         Uncordon, Publish, Abandon, Return, NodeVisited
    <3>2. UNCHANGED localVars
      BY <3>1, EnvironmentKeepsLocals DEF vars
    <3>3. snap' = snap /\ pc = "observe"
      BY <2>5, <3>2 DEF localVars
    <3>4. node[n].unsched /\ ~Uncordon
      BY <1>1, <2>5, <3>3 DEF IsolFindings, Uncordon
    <3> QED BY <1>1, <3>4, OnlyUncordonUncordons
  <2>6. ASSUME pc' \in {"advance", "act"}, NEW n \in todo'
        PROVE  ns'[n].reason \notin {"NodeConflict", "ExternalCordon"}
    <3>1. CASE CountJobs
      <4>1. todo' = ToAdvance(rspec, ns) /\ ns' = ns
        BY <3>1 DEF CountJobs
      <4> QED BY <2>6, <4>1 DEF ToAdvance
    <3>2. CASE ~CountJobs
      <4>1. todo' \subseteq todo /\ pc \in {"advance", "act"}
        <5>1. CASE Environment \/ UNCHANGED vars
          BY <2>6, <5>1, EnvironmentKeepsLocals DEF vars, localVars, loopVars
        <5>2. CASE Reconcile
          BY <1>5, <2>6, <3>2, <5>2 DEF Reconcile, SkipFull, Claim, Cordon, Evict,
             Spawn, Uncordon, Publish, Abandon, Return, NodeVisited
        <5> QED BY <5>1, <5>2 DEF Next
      <4>2. n \in todo /\ n \in Nodes /\ ns[n].reason \notin {"NodeConflict", "ExternalCordon"}
        BY <1>1, <1>2, <2>6, <4>1 DEF IsolFindings
      <4> QED BY <2>2, <4>2 DEF Is
    <3> QED BY <3>1, <3>2
  <2> QED BY <2>1, <2>3, <2>4, <2>5, <2>6 DEF IsolFindings
<1>6. ASSUME pc' = "idle" PROVE IsolFindings'
  BY <1>6 DEF IsolFindings
<1> QED BY <1>3, <1>4, <1>5, <1>6

\* A flash never meets a workload: from its Job's creation to its end the node stays
\* cordoned and empty, for any pods, nodes, CRs and versions, whatever else fails.
THEOREM FlashesAreIsolated ==
  /\ CurrentNodeReads /\ CordonsTrusted /\ WorkloadsRespectCordons
  /\ EditsGoForward /\ NoOverlap
  => (Spec => []FlashIsolated)
<1> SUFFICES ASSUME CurrentNodeReads, CordonsTrusted, WorkloadsRespectCordons,
                    EditsGoForward, NoOverlap
             PROVE  Spec => []FlashIsolated
  OBVIOUS
<1>1. PICK le \in SUBSET (Versions \X Versions) : Forward(le)
  BY DEF EditsGoForward
<1>2. CASE DrainAlways
  <2>1. Init => IsolInv(le)
    <3> SUFFICES ASSUME Init PROVE IsolInv(le) OBVIOUS
    <3>1. IsolFlashes /\ IsolFindings
      BY DEF Init, IsolFlashes, IsolFindings, JobKeys
    <3> QED BY <3>1, BaseInit DEF IsolInv
  <2>2. IsolInv(le) /\ [Next]_vars => IsolInv(le)'
    <3> SUFFICES ASSUME IsolInv(le), [Next]_vars PROVE IsolInv(le)' OBVIOUS
    <3>1. BaseInv(le)'
      BY <1>1, BaseStep DEF IsolInv
    <3>2. IsolFlashes' /\ IsolFindings'
      BY <1>1, <1>2, IsolFlashesStep, IsolFindingsStep
    <3> QED BY <3>1, <3>2 DEF IsolInv
  <2>3. IsolInv(le) => FlashIsolated
    BY DEF IsolInv, IsolFlashes, Isolated, Workloads, FlashIsolated
  <2> QED BY <2>1, <2>2, <2>3, PTL DEF Spec
<1>3. CASE ~DrainAlways
  <2>1. FlashIsolated
    BY <1>3 DEF FlashIsolated
  <2> QED BY <2>1, PTL
<1> QED BY <1>2, <1>3

-----------------------------------------------------------------------------
(* Readiness. *)

\* The newest Job of a CR on a node, if it succeeded, tells what is on the chips.
NewestOnChips(le) ==
  \A c \in Crs, n \in Nodes, v \in Versions :
    /\ live[c] /\ job[<<c, n, v>>] = "succeeded"
    /\ \A w \in Versions : job[<<c, n, w>>] # "none" => <<w, v>> \in le
    => chip[n] = v

\* A node a CR has done with version v: flashed, and handed back.
DoneWith(c, n, v) == job[<<c, n, v>>] = "succeeded" /\ (DrainAlways => node[n].by # c)

\* What a CR's status says of its current version is so.
StatusIsTrue ==
  \A c \in Crs, n \in Nodes :
    live[c] /\ status[c].version = spec[c].version /\ status[c].nodes[n].state = "Done"
    => DoneWith(c, n, spec[c].version)

\* A status is never of a newer version than the spec, or than the spec the reconcile
\* that may rewrite it has read.
StatusNotNewer(le) ==
  /\ \A c \in Crs : status[c].version # None => <<status[c].version, spec[c].version>> \in le
  /\ pc # "idle" /\ status[cur].version # None
       => <<status[cur].version, rspec.version>> \in le

\* What a reconcile has found stays so until it returns.
FindingsHold ==
  /\ pc = "observe" => \A n \in Nodes : snap[n].by = node[n].by
  /\ pc # "idle" =>
       \A n \in Nodes :
         /\ live[cur] /\ ns[n].state = "Done" => DoneWith(cur, n, rspec.version)
         /\ ns[n].state = "Cordoning" => job[<<cur, n, rspec.version>>] = "none"

ReadyInv(le) ==
  BaseInv(le) /\ NewestOnChips(le) /\ StatusIsTrue /\ StatusNotNewer(le) /\ FindingsHold

\* What readiness rests on: finished Jobs are kept, and the Job reads are current.
JobsKept == "job" \notin Lagging /\ "ttl" \notin Env

\* A CR that is gone does not come back.
LEMMA LiveOnlyEnds ==
  ASSUME TypeOK, [Next]_vars, NEW c \in Crs, live'[c]
  PROVE  live[c]
<1>1. live \in [Crs -> BOOLEAN]
  BY DEF TypeOK, CrTypes
<1>2. ASSUME NEW d \in Crs, DeleteCr(d) PROVE live[c]
  BY <1>1, <1>2 DEF DeleteCr
<1>3. UNCHANGED live \/ \E d \in Crs : DeleteCr(d)
  <2>1. CASE UNCHANGED vars
    BY <2>1 DEF vars, crVars
  <2>2. CASE Reconcile
    BY <2>2 DEF Reconcile, Start, Observe, SkipFull, Claim, CountJobs, Cordon, Evict, Spawn,
                Uncordon, Publish, Abandon, crVars
  <2>3. CASE Environment
    BY <2>3 DEF Environment, SyncNodes, SyncJobs, SyncPods, JobSucceeds, JobFails, JobExpires,
       CollectJob, EditSpec, HumanCordon, HumanUncordon, ToggleSkip, DrainDeadline, PodStarts,
       PodFinishes, PodRemoved, crVars
  <2> QED BY <2>1, <2>2, <2>3 DEF Next
<1> QED BY <1>2, <1>3

\* A Job that succeeded is kept as long as its CR.
LEMMA SuccessStays ==
  ASSUME TypeOK, "ttl" \notin Env, [Next]_vars, NEW k \in JobKeys,
         job[k] = "succeeded", live[k[1]]
  PROVE  job'[k] = "succeeded"
<1>1. job \in [JobKeys -> JobStates]
  BY DEF TypeOK, ObjectTypes
<1>2. CASE Spawn
  BY <1>2, SpawnsOneJob
<1>3. ASSUME NEW d \in Crs, NEW m \in Nodes, NEW w \in Versions,
             JobSucceeds(d, m, w) \/ JobFails(d, m, w) \/ JobExpires(d, m, w)
             \/ CollectJob(d, m, w)
      PROVE  job'[k] = "succeeded"
  <2>1. <<d, m, w>> \in JobKeys
    BY DEF JobKeys
  <2> QED BY <1>1, <1>3, <2>1 DEF JobSucceeds, JobFails, JobExpires, CollectJob
<1> QED BY <1>2, <1>3, OnlyTheseEndJobs

\* Only a Cordon by a CR puts that CR's name on a node.
LEMMA OnlyCordonNames ==
  ASSUME TypeOK, [Next]_vars, NEW n \in Nodes, NEW c \in Crs, node[n].by # c,
         ~(Cordon /\ target = n /\ cur = c)
  PROVE  node'[n].by # c
<1>1. node \in [Nodes -> NodeRec] /\ snap \in [Nodes -> NodeRec]
  BY DEF TypeOK, ObjectTypes, LoopTypes
<1>2. ASSUME NEW m \in Nodes, Claim(m) PROVE node'[n].by # c
  <2> DEFINE r == MergePatch(node[m], snap[m], [snap[m] EXCEPT !.owner = cur])
  <2>1. cur \in Crs
    BY <1>2 DEF Claim, TypeOK, ReadTypes
  <2>2. UNCHANGED node \/ (snap[m].owner # cur /\ node' = [node EXCEPT ![m] = r])
    BY <1>2 DEF Claim
  <2>3. snap[m].owner # cur => r.by = node[m].by
    BY <1>1, <2>1, ClaimPatch
  <2> HIDE DEF r
  <2> QED BY <1>1, <2>2, <2>3
<1>3. CASE Cordon
  <2> DEFINE r == MergePatch(node[target], snap[target], CordonNode(snap[target], cur))
  <2>1. target \in Nodes /\ cur \in Crs
    BY <1>3 DEF Cordon, TypeOK, ReadTypes, LoopTypes
  <2>2. UNCHANGED node \/ node' = [node EXCEPT ![target] = r]
    BY <1>3 DEF Cordon
  <2>3. r.by \in {cur, node[target].by}
    BY <1>1, <2>1, CordonPatch
  <2> HIDE DEF r
  <2> QED BY <1>1, <1>3, <2>1, <2>2, <2>3
<1>4. CASE Uncordon
  <2> DEFINE r == MergePatch(node[target], snap[target], UncordonNode(snap[target], cur))
  <2>1. target \in Nodes /\ cur \in Crs
    BY <1>4 DEF Uncordon, TypeOK, ReadTypes, LoopTypes
  <2>2. UNCHANGED node \/ node' = [node EXCEPT ![target] = r]
    BY <1>4 DEF Uncordon
  <2>3. r.by \in {None, node[target].by}
    BY <1>1, <2>1, UncordonPatch
  <2> HIDE DEF r
  <2> QED BY <1>1, <2>1, <2>2, <2>3, NoneFresh
<1>5. CASE Publish
  <2>1. PICK labelled : node' = [x \in Nodes |-> IF x \in labelled
                                THEN [node[x] EXCEPT !.fwver = rspec.version]
                                ELSE node[x]]
    BY <1>5 DEF Publish
  <2> QED BY <1>1, <2>1 DEF NodeRec
<1>6. CASE Environment
  BY <1>6, EnvironmentKeepsOwners DEF KeepOwners
<1>7. CASE UNCHANGED vars
  BY <1>7 DEF vars
<1>8. CASE Reconcile /\ ~Publish /\ ~Cordon /\ ~Uncordon /\ \A m \in Nodes : ~Claim(m)
  BY <1>8 DEF Reconcile, Start, Observe, SkipFull, CountJobs, Evict, Spawn, Abandon
<1> QED BY <1>2, <1>3, <1>4, <1>5, <1>6, <1>7, <1>8 DEF Next, Reconcile

\* observeNode reports Done on a success whose cordon is lifted, and asks for a cordon
\* only where there is no Job.
LEMMA ObserveReady ==
  ASSUME NEW c \in Crs, NEW s \in Specs, NEW l \in NodeRec, NEW n \in Nodes,
         NEW jobs, jobs[<<c, n, s.version>>] \in JobStates, NEW phase, NEW st,
         \/ st = observeNode(c, s, l, n, jobs, phase)
         \/ st \in ObserveErrors(c, s, l, n, jobs)
  PROVE  /\ st.state = "Done" =>
              jobs[<<c, n, s.version>>] = "succeeded" /\ ~(s.drain /\ l.by = c)
         /\ st.state = "Cordoning" => jobs[<<c, n, s.version>>] = "none"
<1>1. CASE st \in ObserveErrors(c, s, l, n, jobs)
  <2>1. st = Is("Pending", "TransientAPIError") \/ st = Is("Draining", "TransientAPIError")
    BY <1>1 DEF ObserveErrors
  <2>2. Is("Pending", "TransientAPIError").state = "Pending"
        /\ Is("Draining", "TransientAPIError").state = "Draining"
    BY DEF Is
  <2> QED BY <2>1, <2>2
<1>2. CASE st = observeNode(c, s, l, n, jobs, phase)
  <2>1. CASE jobs[<<c, n, s.version>>] = "none"
    <3>1. st = ObservePreFlash(c, s, l, n, phase)
      BY <1>2, <2>1 DEF observeNode
    <3>2. st.state # "Done"
      BY <3>1 DEF ObservePreFlash, Is
    <3> QED BY <2>1, <3>2
  <2>2. CASE jobs[<<c, n, s.version>>] # "none"
    BY <1>2, <2>2 DEF observeNode, Is, JobStates
  <2> QED BY <2>1, <2>2
<1> QED BY <1>1, <1>2

\* Only the end of a flash, or of its CR, changes what is known of the chips.
LEMMA OnlyFlashesChangeChips ==
  ASSUME [Next]_vars
  PROVE  \/ Spawn /\ UNCHANGED chip
         \/ UNCHANGED <<job, chip>>
         \/ \E d \in Crs, m \in Nodes, w \in Versions :
              JobSucceeds(d, m, w) \/ JobFails(d, m, w) \/ JobExpires(d, m, w)
              \/ CollectJob(d, m, w)
<1>1. CASE UNCHANGED vars
  BY <1>1 DEF vars
<1>2. CASE Reconcile
  BY <1>2 DEF Reconcile, Start, Observe, SkipFull, Claim, CountJobs, Cordon, Evict, Spawn,
              Uncordon, Publish, Abandon
<1>3. CASE Environment
  BY <1>3 DEF Environment, SyncNodes, SyncJobs, SyncPods, DeleteCr, EditSpec,
     HumanCordon, HumanUncordon, ToggleSkip, DrainDeadline, PodStarts, PodFinishes,
     PodRemoved
<1> QED BY <1>1, <1>2, <1>3 DEF Next

\* The newest Job goes on telling what is on the chips.
LEMMA NewestOnChipsStep ==
  ASSUME NEW le, Forward(le), JobsKept, BaseInv(le), NewestOnChips(le), [Next]_vars
  PROVE  NewestOnChips(le)'
<1>1. TypeOK /\ JobsOwned /\ RunningNewest(le)
  BY DEF BaseInv, VersionInv, OwnedInv
<1>2. job \in [JobKeys -> JobStates] /\ chip \in [Nodes -> Versions \cup {None}]
  BY <1>1 DEF TypeOK, ObjectTypes
<1> SUFFICES ASSUME NEW c \in Crs, NEW n \in Nodes, NEW v \in Versions,
                    live'[c], job'[<<c, n, v>>] = "succeeded",
                    \A w \in Versions : job'[<<c, n, w>>] # "none" => <<w, v>> \in le
             PROVE  chip'[n] = v
  BY DEF NewestOnChips
<1>3. live[c] /\ \A w \in Versions : <<c, n, w>> \in JobKeys
  BY <1>1, LiveOnlyEnds DEF JobKeys
<1>4. ASSUME job[<<c, n, v>>] = "succeeded",
             \A w \in Versions : job[<<c, n, w>>] # "none" => job'[<<c, n, w>>] # "none",
             chip'[n] = chip[n]
      PROVE  chip'[n] = v
  BY <1>3, <1>4 DEF NewestOnChips
<1>5. CASE Spawn /\ UNCHANGED chip
  <2>1. \A w \in Versions : /\ job[<<c, n, w>>] # "none" => job'[<<c, n, w>>] = job[<<c, n, w>>]
                            /\ job[<<c, n, w>>] = "none" => job'[<<c, n, w>>] # "succeeded"
    BY <1>1, <1>3, <1>5, SpawnsOneJob
  <2> QED BY <1>4, <1>5, <2>1
<1>6. CASE UNCHANGED <<job, chip>>
  BY <1>4, <1>6
<1>7. ASSUME NEW d \in Crs, NEW m \in Nodes, NEW w \in Versions,
             JobSucceeds(d, m, w) \/ JobFails(d, m, w) \/ JobExpires(d, m, w)
             \/ CollectJob(d, m, w)
      PROVE  chip'[n] = v
  <2>1. /\ <<d, m, w>> \in JobKeys /\ ~JobExpires(d, m, w)
        /\ \A k \in JobKeys : k # <<d, m, w>> => job'[k] = job[k]
    BY <1>2, <1>7 DEF JobKeys, JobsKept, JobSucceeds, JobFails, JobExpires, CollectJob
  <2>2. m # n => chip'[n] = chip[n]
    BY <1>2, <1>7, <2>1 DEF JobSucceeds, JobFails, CollectJob
  <2>3. CASE m # n
    BY <1>3, <1>4, <2>1, <2>2, <2>3
  <2>4. CASE m = n /\ <<c, n, v>> # <<d, m, w>>
    <3>1. job[<<c, n, v>>] = "succeeded" /\ job[<<d, n, w>>] # "none"
      BY <1>3, <1>7, <2>1, <2>4 DEF JobSucceeds, JobFails, CollectJob
    <3>2. <<c, n, v>>[1] = c /\ <<c, n, v>>[2] = n /\ <<d, n, w>>[1] = d /\ <<d, n, w>>[2] = n
      OBVIOUS
    <3>3. node[n].owner = c
      BY <1>1, <1>3, <3>1, <3>2 DEF JobsOwned
    <3>4. node[n].owner = d
      BY <1>1, <2>1, <2>4, <3>1, <3>2 DEF JobsOwned
    <3>5. c = d
      BY <3>3, <3>4
    <3>6. ~CollectJob(d, m, w)
      BY <1>3, <3>5 DEF CollectJob
    <3>7. job[<<c, n, w>>] = "running" /\ job'[<<c, n, w>>] # "none"
      BY <1>2, <1>7, <2>1, <2>4, <3>5, <3>6 DEF JobSucceeds, JobFails
    <3>8. <<v, w>> \in le
      BY <1>1, <3>1, <3>7 DEF RunningNewest
    <3>9. v = w
      BY <3>7, <3>8 DEF Forward
    <3> QED BY <2>4, <3>5, <3>9
  <2>5. CASE m = n /\ <<c, n, v>> = <<d, m, w>>
    <3>1. JobSucceeds(d, m, w) /\ w = v
      BY <1>2, <1>3, <1>7, <2>1, <2>5 DEF JobFails, CollectJob
    <3> QED BY <1>2, <2>5, <3>1 DEF JobSucceeds
  <2> QED BY <2>3, <2>4, <2>5
<1> QED BY <1>5, <1>6, <1>7, OnlyFlashesChangeChips

\* A status changes only when a reconcile of its CR publishes it.
LEMMA OnlyPublishReports ==
  ASSUME TypeOK, [Next]_vars, NEW c \in Crs
  PROVE  \/ status'[c] = status[c]
         \/ /\ Publish /\ c = cur /\ pc = "advance"
            /\ status'[c].version = rspec.version
            /\ \A n \in Nodes : status'[c].nodes[n] = Explain(rspec, halted, ns[n])
<1>1. status \in [Crs -> Status]
  BY DEF TypeOK, CrTypes
<1>2. CASE Publish
  <2> DEFINE states == [n \in Nodes |-> Explain(rspec, halted, ns[n])]
             new == [version |-> rspec.version,
                     ready |-> TopLevelCondition(states), nodes |-> states]
  <2>1. UNCHANGED status \/ status' = [status EXCEPT ![cur] = new]
    BY <1>2 DEF Publish
  <2>2. /\ new.version = rspec.version
        /\ \A n \in Nodes : new.nodes[n] = Explain(rspec, halted, ns[n])
    OBVIOUS
  <2>3. pc = "advance"
    BY <1>2 DEF Publish
  <2> HIDE DEF new
  <2> QED BY <1>1, <1>2, <2>1, <2>2, <2>3
<1>3. CASE UNCHANGED status
  BY <1>3
<1>4. UNCHANGED status \/ Publish
  <2>1. CASE UNCHANGED vars
    BY <2>1 DEF vars
  <2>2. CASE Reconcile
    BY <2>2 DEF Reconcile, Start, Observe, SkipFull, Claim, CountJobs, Cordon, Evict, Spawn,
                Uncordon, Abandon
  <2>3. CASE Environment
    BY <2>3 DEF Environment, SyncNodes, SyncJobs, SyncPods, JobSucceeds, JobFails, JobExpires,
       CollectJob, DeleteCr, EditSpec, HumanCordon, HumanUncordon, ToggleSkip, DrainDeadline,
       PodStarts, PodFinishes, PodRemoved
  <2> QED BY <2>1, <2>2, <2>3 DEF Next
<1> QED BY <1>2, <1>3, <1>4

\* Statuses follow the specs.
LEMMA StatusNotNewerStep ==
  ASSUME NEW le, Forward(le), BaseInv(le), StatusNotNewer(le), [Next]_vars
  PROVE  StatusNotNewer(le)'
<1>1. TypeOK /\ VersionInv(le) /\ VersionInv(le)'
  BY VersionInvStep DEF BaseInv, VersionInv
<1>2. /\ \A c \in Crs : /\ spec[c].version \in Versions /\ spec'[c].version \in Versions
                        /\ status[c].version \in Versions \cup {None}
      /\ pc # "idle" => cur \in Crs /\ rspec.version \in Versions
  BY <1>1, SpecsType DEF VersionInv, TypeOK, CrTypes, ReadTypes, SpecRec, Status
<1>3. ASSUME NEW c \in Crs, status'[c].version # None
      PROVE  <<status'[c].version, spec'[c].version>> \in le
  <2>1. <<spec[c].version, spec'[c].version>> \in le
    BY <1>1, SpecsGoForward
  <2>2. CASE status'[c] = status[c]
    <3>1. <<status[c].version, spec[c].version>> \in le
      BY <1>3, <2>2 DEF StatusNotNewer
    <3> QED BY <1>2, <1>3, <2>1, <2>2, <3>1 DEF Forward
  <2>3. CASE c = cur /\ pc = "advance" /\ status'[c].version = rspec.version
    <3>1. <<rspec.version, spec[c].version>> \in le
      BY <1>1, <2>3 DEF VersionInv
    <3> QED BY <1>2, <2>1, <2>3, <3>1 DEF Forward
  <2> QED BY <1>1, <2>2, <2>3, OnlyPublishReports
<1>4. ASSUME pc' # "idle", status'[cur'].version # None
      PROVE  <<status'[cur'].version, rspec'.version>> \in le
  <2>1. ASSUME NEW c \in Crs, Start(c)
        PROVE  <<status'[cur'].version, rspec'.version>> \in le
    <3>1. cur' = c /\ rspec' = spec[c] /\ status' = status
      BY <2>1 DEF Start
    <3> QED BY <1>4, <3>1 DEF StatusNotNewer
  <2>2. CASE cur' = cur /\ rspec' = rspec /\ pc # "idle"
    <3>1. ~Publish
      BY <1>4 DEF Publish, Return
    <3>2. status'[cur] = status[cur]
      BY <1>1, <1>2, <2>2, <3>1, OnlyPublishReports
    <3> QED BY <1>4, <2>2, <3>2 DEF StatusNotNewer
  <2> QED BY <1>4, <2>1, <2>2, ReadsStay
<1> QED BY <1>3, <1>4 DEF StatusNotNewer

\* A node a CR has done with stays so, unless the CR cordons it again.
LEMMA DoneStays ==
  ASSUME TypeOK, JobsKept, [Next]_vars, NEW c \in Crs, NEW n \in Nodes, NEW v \in Versions,
         live[c], DoneWith(c, n, v), ~(Cordon /\ target = n /\ cur = c)
  PROVE  DoneWith(c, n, v)'
<1>1. <<c, n, v>> \in JobKeys /\ <<c, n, v>>[1] = c
  BY DEF JobKeys
<1>2. job'[<<c, n, v>>] = "succeeded"
  BY <1>1, SuccessStays DEF DoneWith, JobsKept
<1>3. DrainAlways => node'[n].by # c
  BY OnlyCordonNames DEF DoneWith
<1> QED BY <1>2, <1>3 DEF DoneWith, DrainAlways

\* What a reconcile finds holds when it finds it, and stays so until it returns.
LEMMA FindingsHoldStep ==
  ASSUME NEW le, CurrentNodeReads, JobsKept, BaseInv(le), FindingsHold, [Next]_vars
  PROVE  FindingsHold'
<1>1. TypeOK /\ JobView = job
  BY DEF BaseInv, VersionInv, JobsKept, JobView
<1>2. /\ node \in [Nodes -> NodeRec] /\ snap \in [Nodes -> NodeRec]
      /\ ns \in [Nodes -> NodeStatus] /\ job \in [JobKeys -> JobStates]
  BY <1>1 DEF TypeOK, ObjectTypes, LoopTypes
<1>3. ASSUME NEW c \in Crs, Start(c) PROVE FindingsHold'
  <2>1. /\ pc' = "observe" /\ snap' = node /\ node' = node
        /\ \A n \in Nodes : ns'[n] = Is("Pending", "NodeConflict") \/ ns'[n] = Unlisted
    BY <1>3 DEF Start, NodeView, CurrentNodeReads
  <2>2. \A n \in Nodes : ns'[n].state \notin {"Done", "Cordoning"}
    <3>1. Unlisted.state = "unlisted" /\ Is("Pending", "NodeConflict").state = "Pending"
      BY DEF Is, Unlisted
    <3> QED BY <2>1, <3>1
  <2>3. \A n \in Nodes : snap'[n].by = node'[n].by
    BY <2>1
  <2> QED BY <2>2, <2>3 DEF FindingsHold
<1>4. ASSUME NEW m \in Nodes, Observe(m) PROVE FindingsHold'
  <2>1. /\ pc = "observe" /\ pc' = "observe" /\ UNCHANGED <<cur, rspec, node, snap, job, live>>
    BY <1>4 DEF Observe, readVars, crVars
  <2>2. cur \in Crs /\ rspec \in Specs /\ rspec.version \in Versions
    BY <1>1, <2>1, SpecsType DEF TypeOK, ReadTypes, SpecRec
  <2>3. PICK st : /\ ns' = [ns EXCEPT ![m] = st]
                  /\ \/ st = observeNode(cur, rspec, snap[m], m, job, PodView)
                     \/ st \in ObserveErrors(cur, rspec, snap[m], m, job)
    BY <1>1, <1>4 DEF Observe
  <2>4. ns'[m] = st /\ \A n \in Nodes : n # m => ns'[n] = ns[n]
    BY <1>2, <2>3
  <2>5. <<cur, m, rspec.version>> \in JobKeys
    BY <2>2 DEF JobKeys
  <2>6. /\ st.state = "Done" =>
             job[<<cur, m, rspec.version>>] = "succeeded" /\ ~(rspec.drain /\ snap[m].by = cur)
        /\ st.state = "Cordoning" => job[<<cur, m, rspec.version>>] = "none"
    <3>1. snap[m] \in NodeRec /\ job[<<cur, m, rspec.version>>] \in JobStates
      BY <1>2, <2>5
    <3> QED BY <2>2, <2>3, <3>1, ObserveReady
  <2>7. st.state = "Done" => DoneWith(cur, m, rspec.version)
    <3>1. snap[m].by = node[m].by
      BY <2>1 DEF FindingsHold
    <3>2. DrainAlways => rspec.drain
      BY <2>2 DEF DrainAlways
    <3> QED BY <2>6, <3>1, <3>2 DEF DoneWith
  <2>8. \A n \in Nodes : DoneWith(cur, n, rspec.version) => DoneWith(cur, n, rspec.version)'
    BY <2>1 DEF DoneWith, DrainAlways
  <2>9. \A n \in Nodes : snap'[n].by = node'[n].by
    BY <2>1 DEF FindingsHold
  <2>10. ASSUME NEW n \in Nodes
         PROVE  /\ live'[cur'] /\ ns'[n].state = "Done" => DoneWith(cur, n, rspec.version)
                /\ ns'[n].state = "Cordoning" => job'[<<cur', n, rspec'.version>>] = "none"
    <3>1. CASE n = m
      BY <2>1, <2>4, <2>6, <2>7, <3>1
    <3>2. CASE n # m
      BY <2>1, <2>4, <3>2 DEF FindingsHold
    <3> QED BY <3>1, <3>2
  <2> QED BY <2>8, <2>9, <2>10 DEF FindingsHold
<1>5. ASSUME \A c \in Crs : ~Start(c), \A m \in Nodes : ~Observe(m), pc' # "idle"
      PROVE  FindingsHold'
  <2>1. pc # "idle" /\ cur' = cur /\ rspec' = rspec
    BY <1>5, ReadsStay
  <2>2. cur \in Crs /\ rspec.version \in Versions
    BY <1>1, <2>1, SpecsType DEF TypeOK, ReadTypes, SpecRec
  <2>3. \A n \in Nodes : ns'[n].state \in {"Done", "Cordoning"} => ns'[n] = ns[n]
    <3>1. Is("Flashing", "Flashing").state = "Flashing"
      BY DEF Is
    <3> QED BY <1>1, <1>5, <3>1, FindingsStay
  <2>4. ASSUME NEW n \in Nodes, live'[cur'], ns'[n].state = "Done"
        PROVE  DoneWith(cur, n, rspec.version)'
    <3>1. ns[n].state = "Done" /\ live[cur]
      BY <1>1, <2>1, <2>2, <2>3, <2>4, LiveOnlyEnds
    <3>2. DoneWith(cur, n, rspec.version)
      BY <2>1, <3>1 DEF FindingsHold
    <3>3. ~(Cordon /\ target = n)
      BY <3>1 DEF Cordon
    <3>4. \A c \in Crs, v \in Versions : c = cur /\ v = rspec.version => DoneWith(c, n, v)'
      BY <1>1, <3>1, <3>2, <3>3, DoneStays
    <3> QED BY <2>1, <2>2, <3>4 DEF DoneWith, DrainAlways
  <2>5. ASSUME NEW n \in Nodes, ns'[n].state = "Cordoning"
        PROVE  job'[<<cur', n, rspec'.version>>] = "none"
    <3>1. ns[n].state = "Cordoning"
      BY <2>3, <2>5
    <3>2. job[<<cur, n, rspec.version>>] = "none" /\ <<cur, n, rspec.version>> \in JobKeys
      BY <2>1, <2>2, <3>1 DEF FindingsHold, JobKeys
    <3>3. CASE Spawn
      <4>1. <<cur, n, rspec.version>> # FlashJob
        BY <3>1, <3>3 DEF Spawn, FlashJob
      <4> QED BY <1>1, <2>1, <3>2, <3>3, <4>1, SpawnsOneJob
    <3>4. CASE ~Spawn
      BY <1>1, <2>1, <3>2, <3>4, JobsOnlyEnd
    <3> QED BY <3>3, <3>4
  <2>6. ASSUME pc' = "observe", NEW n \in Nodes PROVE snap'[n].by = node'[n].by
    <3>1. Environment \/ UNCHANGED vars
      BY <1>5, <2>6 DEF Next, Reconcile, SkipFull, Claim, CountJobs, Cordon, Evict, Spawn,
         Uncordon, Publish, Abandon, Return, NodeVisited
    <3>2. UNCHANGED localVars /\ node'[n].by = node[n].by
      BY <1>1, <3>1, EnvironmentKeepsOwners DEF vars, KeepOwners
    <3>3. snap' = snap /\ pc = "observe"
      BY <2>6, <3>2 DEF localVars
    <3> QED BY <3>2, <3>3 DEF FindingsHold
  <2> QED BY <2>4, <2>5, <2>6 DEF FindingsHold
<1>6. ASSUME pc' = "idle" PROVE FindingsHold'
  BY <1>6 DEF FindingsHold
<1> QED BY <1>3, <1>4, <1>5, <1>6

\* What is published was found, and what was published stays true.
LEMMA StatusIsTrueStep ==
  ASSUME NEW le, Forward(le), JobsKept, ReadyInv(le), [Next]_vars
  PROVE  StatusIsTrue'
<1>1. /\ TypeOK /\ VersionInv(le) /\ VersionInv(le)' /\ StatusIsTrue /\ StatusNotNewer(le)
      /\ FindingsHold
  BY VersionInvStep DEF ReadyInv, BaseInv, VersionInv
<1>2. /\ \A c \in Crs : spec[c].version \in Versions /\ spec'[c].version \in Versions
      /\ pc # "idle" => cur \in Crs /\ rspec.version \in Versions
  BY <1>1, SpecsType DEF VersionInv, TypeOK, CrTypes, ReadTypes, SpecRec
<1> SUFFICES ASSUME NEW c \in Crs, NEW n \in Nodes, live'[c],
                    status'[c].version = spec'[c].version,
                    status'[c].nodes[n].state = "Done"
             PROVE  DoneWith(c, n, spec[c].version)'
  BY DEF StatusIsTrue
<1>3. live[c]
  BY <1>1, LiveOnlyEnds
<1>4. ASSUME NEW v \in Versions, spec'[c].version = v, DoneWith(c, n, v)'
      PROVE  DoneWith(c, n, spec[c].version)'
  BY <1>4 DEF DoneWith
<1>5. CASE status'[c] = status[c]
  <2>1. <<spec[c].version, spec'[c].version>> \in le
    BY <1>1, SpecsGoForward
  <2>2. status[c].version = spec'[c].version /\ status[c].version # None
    BY <1>2, <1>5, NoneFresh
  <2>3. <<status[c].version, spec[c].version>> \in le
    BY <1>1, <2>2 DEF StatusNotNewer
  <2>4. spec[c].version = spec'[c].version
    BY <1>2, <2>1, <2>2, <2>3 DEF Forward
  <2>5. DoneWith(c, n, spec[c].version)
    BY <1>1, <1>3, <1>5, <2>2, <2>4 DEF StatusIsTrue
  <2>6. ASSUME Cordon, target = n, cur = c PROVE FALSE
    <3>1. pc = "act" /\ ns[n].state = "Cordoning"
      BY <2>6 DEF Cordon
    <3>2. job[<<c, n, rspec.version>>] = "none"
      BY <1>1, <2>6, <3>1 DEF FindingsHold
    <3>3. <<status[c].version, rspec.version>> \in le /\ <<rspec.version, spec[c].version>> \in le
      BY <1>1, <2>2, <2>6, <3>1 DEF StatusNotNewer, VersionInv
    <3>4. rspec.version = spec[c].version
      BY <1>2, <2>2, <2>4, <3>1, <3>3 DEF Forward
    <3> QED BY <2>5, <3>2, <3>4 DEF DoneWith
  <2>7. \A v \in Versions : v = spec[c].version => DoneWith(c, n, v)'
    BY <1>1, <1>3, <2>5, <2>6, DoneStays
  <2> QED BY <1>2, <1>4, <2>4, <2>7
<1>6. CASE /\ Publish /\ c = cur /\ pc = "advance"
           /\ status'[c].version = rspec.version
           /\ \A m \in Nodes : status'[c].nodes[m] = Explain(rspec, halted, ns[m])
  <2>1. ns[n].state = "Done"
    <3>1. Explain(rspec, halted, ns[n]).state = "Done"
      BY <1>6
    <3> QED BY <3>1 DEF Explain, Is
  <2>2. DoneWith(c, n, rspec.version)
    BY <1>1, <1>3, <1>6, <2>1 DEF FindingsHold
  <2>3. ~Cordon
    BY <1>6 DEF Cordon
  <2>4. \A v \in Versions : v = rspec.version => DoneWith(c, n, v)'
    BY <1>1, <1>3, <2>2, <2>3, DoneStays
  <2> QED BY <1>2, <1>4, <1>6, <2>4
<1> QED BY <1>1, <1>5, <1>6, OnlyPublishReports

\* The invariant is what ReadyIsTrue needs: a version that is Done is the newest.
LEMMA ReadyInvImplies ==
  ASSUME NEW le, Forward(le), ReadyInv(le)
  PROVE  ReadyIsTrue
<1>1. VersionInv(le) /\ RunningNewest(le) /\ NewestOnChips(le) /\ StatusIsTrue /\ TypeOK
  BY DEF ReadyInv, BaseInv, VersionInv
<1> SUFFICES ASSUME NEW c \in Crs, live[c], status[c].version = spec[c].version,
                    NEW n \in Nodes, status[c].nodes[n].state = "Done"
             PROVE  /\ chip[n] = spec[c].version
                    /\ \A v \in Versions : job[<<c, n, v>>] # "running"
                    /\ DrainAlways => node[n].by # c
  BY DEF ReadyIsTrue
<1>2. DoneWith(c, n, spec[c].version) /\ spec[c].version \in Versions
  BY <1>1, SpecsType DEF StatusIsTrue, TypeOK, CrTypes, SpecRec
<1>3. \A w \in Versions : job[<<c, n, w>>] # "none" => <<w, spec[c].version>> \in le
  <2>1. \A w \in Versions : /\ <<c, n, w>> \in JobKeys
                            /\ <<c, n, w>>[1] = c /\ <<c, n, w>>[3] = w
    BY DEF JobKeys
  <2> QED BY <1>1, <2>1 DEF VersionInv
<1>4. chip[n] = spec[c].version
  BY <1>1, <1>2, <1>3 DEF NewestOnChips, DoneWith
<1>5. ASSUME NEW v \in Versions, job[<<c, n, v>>] = "running" PROVE FALSE
  <2>1. <<spec[c].version, v>> \in le /\ <<v, spec[c].version>> \in le
    BY <1>1, <1>2, <1>3, <1>5 DEF RunningNewest, DoneWith
  <2>2. v = spec[c].version
    BY <1>2, <2>1 DEF Forward
  <2> QED BY <1>2, <1>5, <2>2 DEF DoneWith
<1> QED BY <1>2, <1>4, <1>5 DEF DoneWith

\* Ready is true when published and stays so until the version is edited: for any
\* nodes, CRs and forward edits, with current reads and Jobs that are kept, whatever
\* crashes, is refused, skipped, cordoned by hand or deleted.
THEOREM ReadyHolds ==
  CurrentNodeReads /\ JobsKept /\ EditsGoForward /\ NoOverlap => (Spec => []ReadyIsTrue)
<1> SUFFICES ASSUME CurrentNodeReads, JobsKept, EditsGoForward, NoOverlap
             PROVE  Spec => []ReadyIsTrue
  OBVIOUS
<1>1. PICK le \in SUBSET (Versions \X Versions) : Forward(le)
  BY DEF EditsGoForward
<1>2. Init => ReadyInv(le)
  <2> SUFFICES ASSUME Init PROVE ReadyInv(le) OBVIOUS
  <2>1. NewestOnChips(le)
    BY DEF Init, NewestOnChips, JobKeys
  <2>2. \A c \in Crs : status[c].version = None /\ \A n \in Nodes : status[c].nodes[n] = Unlisted
    BY DEF Init
  <2>3. StatusIsTrue /\ StatusNotNewer(le)
    BY <2>2 DEF Init, StatusIsTrue, StatusNotNewer, Unlisted
  <2>4. FindingsHold
    BY DEF Init, FindingsHold
  <2> QED BY <2>1, <2>3, <2>4, BaseInit DEF ReadyInv
<1>3. ReadyInv(le) /\ [Next]_vars => ReadyInv(le)'
  <2> SUFFICES ASSUME ReadyInv(le), [Next]_vars PROVE ReadyInv(le)' OBVIOUS
  <2>1. /\ BaseInv(le) /\ NewestOnChips(le) /\ StatusNotNewer(le) /\ FindingsHold
    BY DEF ReadyInv
  <2>2. BaseInv(le)' /\ NewestOnChips(le)'
    BY <1>1, <2>1, BaseStep, NewestOnChipsStep
  <2>3. StatusNotNewer(le)' /\ FindingsHold'
    BY <1>1, <2>1, StatusNotNewerStep, FindingsHoldStep
  <2>4. StatusIsTrue'
    BY <1>1, StatusIsTrueStep
  <2> QED BY <2>2, <2>3, <2>4 DEF ReadyInv
<1>4. ReadyInv(le) => ReadyIsTrue
  BY <1>1, ReadyInvImplies
<1> QED BY <1>2, <1>3, <1>4, PTL DEF Spec
=============================================================================
