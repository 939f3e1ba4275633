------------------------ MODULE DriverSafetyProofs ------------------------
(***************************************************************************)
(* The safety theorems about DriverPolicy, on top of its type correctness: *)
(* what a Ready builder pod means, and what the status may be trusted for. *)
(***************************************************************************)
EXTENDS DriverPolicyProofs

-----------------------------------------------------------------------------
(* A Ready builder pod means the version is loaded. *)

\* The strengthening of ReadyIsLoaded.  It holds from the insmod on, not only once the
\* probe has passed, and a builder that is about to load finds no module.
LoadedAsRendered ==
  \A n \in Nodes \ Host :
    /\ bp[n].step \in {"loaded", "marked", "ready"} => loaded[n] = bp[n].tmpl.version
    /\ bp[n].step = "build" => loaded[n] = None

\* It holds in the initial states.
LEMMA LoadedInit == Init => LoadedAsRendered
<1>1. ASSUME Created PROVE LoadedAsRendered
  BY <1>1 DEF Created, LoadedAsRendered, NoPod
<1>2. ASSUME Settled PROVE LoadedAsRendered
  <2>1. PICK o \in Orders : ds = buildDaemonSet(spec, o)
    BY <1>2 DEF Settled
  <2>2. ds.version = spec.version
    BY <2>1 DEF buildDaemonSet
  <2>3. ASSUME NEW n \in Nodes \ Host
        PROVE  /\ bp[n].step # "build"
               /\ bp[n].step = "ready" \/ bp[n].step = "none"
               /\ bp[n].step = "ready" => loaded[n] = bp[n].tmpl.version
    BY <1>2, <2>2 DEF Settled, NoPod
  <2> QED BY <2>3 DEF LoadedAsRendered
<1> QED BY <1>1, <1>2 DEF Init, Fresh, Recreated

\* No step of a builder, a kubelet or the DaemonSet controller breaks it.
LEMMA LoadedCluster ==
  ASSUME TypeOK, LoadedAsRendered, Cluster PROVE LoadedAsRendered'
<1>0. bp \in [Nodes -> BuilderPod] /\ loaded \in [Nodes -> Versions \cup {None}]
  BY DEF TypeOK, ClusterTypes
<1>1. DsReports => LoadedAsRendered'
  BY DEF DsReports, hostVars, LoadedAsRendered
<1>2. ASSUME NEW n \in Nodes, DsCreatesPod(n) PROVE LoadedAsRendered'
  BY <1>0, <1>2 DEF DsCreatesPod, LoadedAsRendered
<1>3. ASSUME NEW n \in Nodes, DsRollsPod(n) \/ DsDropsPod(n) PROVE LoadedAsRendered'
  BY <1>0, <1>3 DEF DsRollsPod, DsDropsPod, LoadedAsRendered, NoPod
<1>4. ASSUME NEW n \in Nodes, ImagePulled(n) \/ PodReady(n) PROVE LoadedAsRendered'
  BY <1>0, <1>4 DEF ImagePulled, PodReady, LoadedAsRendered, BuilderPod
<1>5. ASSUME NEW n \in Nodes, StandDown(n) \/ VersionMatches(n) \/ Announce(n)
      PROVE  LoadedAsRendered'
  <2>1. n \in Host \/ loaded[n] = bp[n].tmpl.version
    BY <1>5 DEF StandDown, VersionMatches, Announce, LoadedAsRendered
  <2>2. /\ \A m \in Nodes : m # n => bp'[m] = bp[m]
        /\ bp'[n].step \in {"start", "marked"} /\ bp'[n].tmpl = bp[n].tmpl
        /\ loaded' = loaded
    BY <1>0, <1>5 DEF StandDown, VersionMatches, Announce, Settle, Label, Goto, Exit, BuilderPod
  <2> QED BY <2>1, <2>2 DEF LoadedAsRendered
<1>6. ASSUME NEW n \in Nodes, Unload(n) PROVE LoadedAsRendered'
  BY <1>0, <1>6 DEF Unload, Goto, LoadedAsRendered, BuilderPod
<1>7. ASSUME NEW n \in Nodes, Busy(n) PROVE LoadedAsRendered'
  <2>1. /\ \A m \in Nodes : m # n => bp'[m] = bp[m]
        /\ bp'[n].step = "start" /\ loaded' = loaded
    BY <1>0, <1>7 DEF Busy, Exit, BuilderPod
  <2> QED BY <2>1 DEF LoadedAsRendered
<1>8. ASSUME NEW n \in Nodes, Load(n) PROVE LoadedAsRendered'
  <2>1. /\ \A m \in Nodes : m # n => bp'[m] = bp[m] /\ loaded'[m] = loaded[m]
        /\ \/ bp'[n].step = "start"
           \/ bp'[n].step = "loaded" /\ loaded'[n] = bp'[n].tmpl.version
    BY <1>0, <1>8 DEF Load, Goto, Exit, BuilderPod
  <2> QED BY <2>1 DEF LoadedAsRendered
<1> QED BY <1>1, <1>2, <1>3, <1>4, <1>5, <1>6, <1>7, <1>8 DEF Cluster, Builder

\* Nothing else touches the builders or the kernels.
LEMMA HostKept ==
  ASSUME Reconcile \/ Workloads \/ Users PROVE UNCHANGED hostVars
BY DEF Reconcile, Start, Create, Cordon, FlipGates, Evict, UpdateDs, PopulateNodeStatuses,
       Publish, CleanLabel, ListReady, Uncordon, RemoveGates, Finish, Workloads, PodStarts,
       PodGatedOff, PodRemoved, Users, EditSpec, DeletePolicy, HumanCordon, SetSkip

\* The whole system keeps it.
LEMMA LoadedInductive == Spec => [](TypeOK /\ LoadedAsRendered)
<1>1. TypeOK /\ LoadedAsRendered /\ [Next]_vars => LoadedAsRendered'
  <2> SUFFICES ASSUME TypeOK, LoadedAsRendered, [Next]_vars PROVE LoadedAsRendered' OBVIOUS
  <2>1. CASE UNCHANGED hostVars
    BY <2>1 DEF hostVars, LoadedAsRendered
  <2>2. CASE Cluster
    BY <2>2, LoadedCluster
  <2>3. CASE UNCHANGED vars
    BY <2>3, <2>1 DEF vars
  <2> QED BY <2>1, <2>2, <2>3, HostKept DEF Next
<1> QED BY <1>1, LoadedInit, DriverTypeCorrect, PTL DEF Spec

\* A Ready builder pod on a container-managed node means that the kernel runs the
\* version the pod was rendered for, whatever a tag really held and however often the
\* builder was restarted: what uncordonReadyNodes and the status rely on.
THEOREM ReadyMeansLoaded == Spec => []ReadyIsLoaded
<1>1. LoadedAsRendered => ReadyIsLoaded
  BY DEF LoadedAsRendered, ReadyIsLoaded
<1> QED BY <1>1, LoadedInductive, PTL

-----------------------------------------------------------------------------
(* Done is true until the spec is edited. *)

BeforeUpdate == {"create", "cordon", "gate", "evict", "update"}
BeforePublish == BeforeUpdate \cup {"populate", "publish"}

\* The reconcile under way read the spec no earlier than the one that published the
\* status, it renders what it read, and by the time it publishes the DaemonSet carries
\* that version, unless it was paused.
ReadInOrder ==
  /\ status.gen <= gen
  /\ pc \in BeforePublish =>
       status.gen <= rgen /\ rgen <= gen /\ (rgen = gen => rspec = spec)
  /\ pc \in BeforeUpdate => desired.version = rspec.version
  /\ pc \in {"populate", "publish"} /\ ~rspec.paused => ds # None /\ ds.version = rspec.version

\* A node that is Done for the spec as it stands: module, DaemonSet and builder pod
\* are all at its version.
DoneHere(n) ==
  /\ loaded[n] = spec.version
  /\ ds # None /\ ds.version = spec.version
  /\ bp[n].step # "none" => bp[n].tmpl.version = spec.version
\* So is a node the reconcile is about to publish as Done, if the status will be taken.
DoneEverywhere ==
  live /\ ~spec.paused =>
    \A n \in Nodes \ Host :
      \/ status.gen = gen /\ status.nodes[n] = "Done"
      \/ pc = "publish" /\ rgen = gen /\ rnodes[n] = "Done"
      => DoneHere(n)

\* Both hold in the initial states.
LEMMA DoneInit == Init => ReadInOrder /\ DoneEverywhere
<1>1. ASSUME Created PROVE ReadInOrder /\ DoneEverywhere
  BY <1>1, DBounds DEF Created, Idle, NoStatuses, ReadInOrder, DoneEverywhere, BeforeUpdate,
                       BeforePublish
<1>2. ASSUME Settled PROVE ReadInOrder /\ DoneEverywhere
  <2>1. PICK o \in Orders : ds = buildDaemonSet(spec, o)
    BY <1>2 DEF Settled
  <2>2. ds.version = spec.version /\ ds # None
    <3>1. ds \in Template
      BY <1>2, <2>1, TemplateType DEF Settled
    <3> QED BY <2>1, <3>1, DNoneFresh DEF buildDaemonSet
  <2>3. ReadInOrder
    <3>1. status.gen = 0 /\ gen = 0 /\ pc = "idle"
      BY <1>2 DEF Settled, Idle
    <3> QED BY <3>1 DEF ReadInOrder, BeforeUpdate, BeforePublish
  <2>4. ASSUME NEW n \in Nodes \ Host, status.nodes[n] = "Done" PROVE DoneHere(n)
    <3>1. n \in Matched
      BY <1>2, <2>4 DEF Settled
    <3> QED BY <1>2, <2>2, <3>1 DEF Settled, DoneHere
  <2>5. pc # "publish"
    BY <1>2 DEF Settled, Idle
  <2> QED BY <2>3, <2>4, <2>5 DEF DoneEverywhere
<1> QED BY <1>1, <1>2 DEF Init, Fresh, Recreated

\* A reconcile keeps both.
LEMMA DoneReconcile ==
  ASSUME TypeOK, LoadedAsRendered, ReadInOrder, DoneEverywhere, Reconcile
  PROVE  ReadInOrder' /\ DoneEverywhere'
<1>0. /\ gen \in Nat /\ rgen \in Nat /\ status.gen \in Nat /\ spec \in Specs
      /\ UNCHANGED <<bp, loaded, crVars>>
  <2>1. UNCHANGED crVars
    BY DEF Reconcile, Start, Create, Cordon, FlipGates, Evict, UpdateDs, PopulateNodeStatuses,
           Publish, CleanLabel, ListReady, Uncordon, RemoveGates, Finish
  <2> QED BY <2>1, HostKept, DBounds DEF hostVars, TypeOK, PolicyTypes, ReconcileTypes, Status
<1> USE DEF BeforeUpdate, BeforePublish
<1>1. ASSUME UNCHANGED <<ds, status>>, pc' # "publish" PROVE DoneEverywhere'
  BY <1>0, <1>1 DEF DoneEverywhere, DoneHere, crVars
<1>2. ASSUME Return, UNCHANGED status PROVE ReadInOrder' /\ pc' # "publish"
  BY <1>0, <1>2 DEF Return, ReadInOrder, crVars
<1>3. CASE Start
  <2>1. PICK o \in Orders : desired' = buildDaemonSet(spec, o)
    BY <1>3 DEF Start
  <2>2. desired'.version = spec.version /\ rspec' = spec /\ rgen' = gen /\ pc' # "publish"
    BY <1>3, <2>1 DEF Start, buildDaemonSet
  <2>3. pc' = "populate" /\ ~spec.paused => ds # None /\ ds = desired'
    BY <1>0, <1>3 DEF Start, daemonSetNeedsUpdate
  <2>4. UNCHANGED <<ds, status>>
    BY <1>3 DEF Start, dsVars
  <2>5. ReadInOrder'
    BY <1>0, <2>2, <2>3, <2>4 DEF ReadInOrder, crVars
  <2> QED BY <1>1, <2>2, <2>4, <2>5
<1>4. CASE Create \/ UpdateDs
  <2>1. UNCHANGED status /\ pc \in BeforeUpdate
    BY <1>4 DEF Create, UpdateDs
  <2>2. CASE UNCHANGED ds /\ Return
    BY <1>1, <1>2, <2>1, <2>2
  <2>3. CASE ds' = desired /\ pc' = "populate" /\ UNCHANGED <<rspec, rgen>>
    <3>1. desired \in Template
      BY <2>1 DEF TypeOK, ReconcileTypes
    <3>2. ds' # None /\ ds'.version = rspec.version
      BY <2>1, <2>3, <3>1, DNoneFresh DEF ReadInOrder
    <3>3. ReadInOrder'
      BY <1>0, <2>1, <2>3, <3>2 DEF ReadInOrder, crVars
    <3>4. status.gen = gen => rspec = spec
      BY <1>0, <2>1 DEF ReadInOrder
    <3>5. DoneEverywhere'
      BY <1>0, <2>1, <2>3, <3>2, <3>4 DEF DoneEverywhere, DoneHere, crVars
    <3> QED BY <3>3, <3>5
  <2> QED BY <1>4, <2>2, <2>3 DEF Create, UpdateDs, dsVars
<1>5. CASE (\E n \in Nodes : Cordon(n)) \/ FlipGates \/ Evict
  <2>1. /\ pc \in {"cordon", "gate", "evict"} /\ pc' \in {"cordon", "gate", "evict"}
        /\ UNCHANGED <<ds, status, readVars>>
    BY <1>5 DEF Cordon, FlipGates, Evict, dsVars
  <2>2. ReadInOrder'
    BY <1>0, <2>1 DEF ReadInOrder, crVars, readVars
  <2> QED BY <1>1, <2>1, <2>2
<1>6. CASE PopulateNodeStatuses
  <2>1. /\ pc = "populate" /\ pc' = "publish" /\ rnodes' = StatesOfNodes
        /\ UNCHANGED <<ds, status, rspec, rgen>>
    BY <1>6 DEF PopulateNodeStatuses, dsVars
  <2>2. ReadInOrder'
    BY <1>0, <2>1 DEF ReadInOrder, crVars
  <2>3. ASSUME NEW n \in Nodes \ Host, rnodes'[n] = "Done", rgen = gen, ~spec.paused
        PROVE  DoneHere(n)
    <3>1. rspec = spec /\ ds # None /\ ds.version = spec.version
      BY <2>1, <2>3 DEF ReadInOrder
    <3>2. NodeState(node[n], bp[n], rspec.version) = "Done"
      BY <2>1, <2>3 DEF StatesOfNodes
    <3>3. bp[n].step = "ready" /\ bp[n].tmpl.version = spec.version
      BY <3>1, <3>2 DEF NodeState
    <3> QED BY <2>3, <3>1, <3>3 DEF LoadedAsRendered, DoneHere
  <2>4. DoneEverywhere'
    BY <1>0, <2>1, <2>3 DEF DoneEverywhere, DoneHere, crVars
  <2> QED BY <2>2, <2>4
<1>7. CASE Publish
  <2>1. UNCHANGED ds /\ pc = "publish" /\ pc' \in {"idle", "cleanup"}
    BY <1>7 DEF Publish, dsVars, Return
  <2>2. CASE UNCHANGED status
    <3>1. ReadInOrder'
      BY <1>0, <2>1, <2>2 DEF ReadInOrder, crVars
    <3> QED BY <1>1, <2>1, <2>2, <3>1
  <2>3. CASE status' = NewStatus /\ rgen = gen
    <3>1. status'.gen = gen /\ status'.nodes = rnodes
      BY <2>3 DEF NewStatus
    <3>2. ReadInOrder'
      BY <1>0, <2>1, <3>1 DEF ReadInOrder, crVars
    <3>3. DoneEverywhere'
      BY <1>0, <2>1, <2>3, <3>1 DEF DoneEverywhere, DoneHere, crVars
    <3> QED BY <3>2, <3>3
  <2> QED BY <1>7, <2>2, <2>3 DEF Publish
<1>8. CASE \/ \E n \in Nodes : CleanLabel(n) \/ Uncordon(n)
           \/ ListReady \/ RemoveGates \/ Finish
  <2>1. UNCHANGED <<ds, status>>
    BY <1>8 DEF CleanLabel, Uncordon, ListReady, RemoveGates, Finish, dsVars
  <2>2. pc' \notin BeforePublish
    BY <1>8 DEF CleanLabel, Uncordon, ListReady, RemoveGates, Finish, Return
  <2>3. ReadInOrder'
    BY <1>0, <2>1, <2>2 DEF ReadInOrder, crVars
  <2> QED BY <1>1, <2>1, <2>2, <2>3
<1> QED BY <1>3, <1>4, <1>5, <1>6, <1>7, <1>8 DEF Reconcile

\* So do the DaemonSet controller, the kubelets and the builders: a node that is Done
\* is rolled and restarted, but only ever towards the version it has.
LEMMA DoneCluster ==
  ASSUME TypeOK, LoadedAsRendered, ReadInOrder, DoneEverywhere, Cluster
  PROVE  ReadInOrder' /\ DoneEverywhere'
<1>0. bp \in [Nodes -> BuilderPod] /\ loaded \in [Nodes -> Versions \cup {None}]
      /\ spec.version \in Versions
  BY DSpecsType DEF TypeOK, ClusterTypes, PolicyTypes, SpecRec
<1>1. UNCHANGED <<crVars, status, ds, localVars>>
  BY DEF Cluster, Builder, DsReports, DsCreatesPod, DsRollsPod, DsDropsPod, ImagePulled,
         PodReady, StandDown, VersionMatches, Unload, Busy, Load, Announce, dsVars
<1>2. ReadInOrder'
  BY <1>1 DEF ReadInOrder, crVars, localVars, readVars
<1>3. SUFFICES ASSUME NEW m \in Nodes \ Host, DoneHere(m) PROVE DoneHere(m)'
  BY <1>1, <1>2 DEF DoneEverywhere, crVars, localVars, readVars
<1>4. spec' = spec /\ ds' = ds
  BY <1>1 DEF crVars
<1>5. DsReports => DoneHere(m)'
  BY <1>3, <1>4 DEF DsReports, hostVars, DoneHere
<1>6. ASSUME NEW n \in Nodes, DsCreatesPod(n) \/ DsRollsPod(n) \/ DsDropsPod(n)
      PROVE  DoneHere(m)'
  <2>1. loaded' = loaded
    BY <1>6 DEF DsCreatesPod, DsRollsPod, DsDropsPod
  <2>2. bp'[m] = bp[m] \/ bp'[m] = NoPod \/ bp'[m].tmpl = ds
    BY <1>0, <1>6 DEF DsCreatesPod, DsRollsPod, DsDropsPod
  <2> QED BY <1>3, <1>4, <2>1, <2>2 DEF DoneHere, NoPod
<1>7. ASSUME NEW n \in Nodes,
             \/ ImagePulled(n) \/ PodReady(n) \/ StandDown(n) \/ VersionMatches(n)
             \/ Busy(n) \/ Announce(n)
      PROVE  DoneHere(m)'
  <2>1. loaded' = loaded /\ bp[n].step # "none"
    BY <1>7 DEF ImagePulled, PodReady, StandDown, VersionMatches, Busy, Announce
  <2>2. bp'[m] = bp[m] \/ (m = n /\ bp'[m].tmpl = bp[m].tmpl)
    BY <1>0, <1>7 DEF ImagePulled, PodReady, StandDown, VersionMatches, Busy, Announce,
                      Settle, Label, Goto, Exit, BuilderPod
  <2> QED BY <1>3, <1>4, <2>1, <2>2 DEF DoneHere
<1>8. ASSUME NEW n \in Nodes, Unload(n) \/ Load(n) PROVE DoneHere(m)'
  <2>1. n # m
    BY <1>0, <1>3, <1>8, DNoneFresh DEF Unload, Load, DoneHere, LoadedAsRendered
  <2>2. bp'[m] = bp[m] /\ loaded'[m] = loaded[m]
    BY <1>0, <1>8, <2>1 DEF Unload, Load, Goto, Exit, BuilderPod
  <2> QED BY <1>3, <1>4, <2>2 DEF DoneHere
<1> QED BY <1>5, <1>6, <1>7, <1>8 DEF Cluster, Builder

\* And so do workloads and users: an edit makes the status one of an earlier spec.
LEMMA DoneOutside ==
  ASSUME TypeOK, ReadInOrder, DoneEverywhere, Workloads \/ Users
  PROVE  ReadInOrder' /\ DoneEverywhere'
<1>0. /\ gen \in Nat /\ rgen \in Nat /\ status.gen \in Nat
      /\ UNCHANGED <<bp, loaded>>
  BY HostKept, DBounds DEF hostVars, TypeOK, PolicyTypes, ReconcileTypes, Status
<1>1. UNCHANGED <<status, ds, localVars>>
  BY DEF Workloads, PodStarts, PodGatedOff, PodRemoved, Users, EditSpec, DeletePolicy,
         HumanCordon, SetSkip, dsVars
<1>2. CASE EditSpec
  <2>1. gen' = gen + 1
    BY <1>2 DEF EditSpec
  <2>2. ReadInOrder'
    BY <1>0, <1>1, <2>1 DEF ReadInOrder, localVars, readVars
  <2>3. status'.gen # gen' /\ (pc' = "publish" => rgen' # gen')
    BY <1>0, <1>1, <2>1 DEF ReadInOrder, BeforePublish, localVars, readVars
  <2> QED BY <2>2, <2>3 DEF DoneEverywhere
<1>3. CASE UNCHANGED <<spec, gen>> /\ (live' => live)
  BY <1>0, <1>1, <1>3 DEF ReadInOrder, DoneEverywhere, DoneHere, localVars, readVars
<1> QED
  BY <1>2, <1>3 DEF Workloads, PodStarts, PodGatedOff, PodRemoved, Users, DeletePolicy,
                    HumanCordon, SetSkip, crVars

\* They hold throughout.
LEMMA DoneInductive == Spec => [](ReadInOrder /\ DoneEverywhere)
<1>1. TypeOK /\ LoadedAsRendered /\ ReadInOrder /\ DoneEverywhere /\ [Next]_vars
        => ReadInOrder' /\ DoneEverywhere'
  <2> SUFFICES ASSUME TypeOK, LoadedAsRendered, ReadInOrder, DoneEverywhere,
                      [Next]_vars
               PROVE  ReadInOrder' /\ DoneEverywhere'
    OBVIOUS
  <2>1. CASE UNCHANGED vars
    BY <2>1 DEF vars, crVars, dsVars, hostVars, localVars, readVars, ReadInOrder,
                DoneEverywhere, DoneHere
  <2> QED BY <2>1, DoneReconcile, DoneCluster, DoneOutside DEF Next
<1> QED BY <1>1, DoneInit, LoadedInductive, PTL DEF Spec

\* The status never calls a node Done that does not run the policy's version, from
\* when it is published until the spec is edited again: not while the DaemonSet rolls,
\* not while builders restart, not after a failed or stale reconcile.
THEOREM DoneIsLoaded == Spec => []DoneIsTrue
<1>1. DoneEverywhere => DoneIsTrue
  BY DEF DoneEverywhere, DoneHere, DoneIsTrue
<1> QED BY <1>1, DoneInductive, PTL

-----------------------------------------------------------------------------
(* A deploy gate is only off under the policy's cordon. *)

Calm == faults \cap {"ungate", "crash"} = {}

\* The strengthening of GateHeldByCordon: the node being prepared is cordoned, the
\* copies a loop still has to use agree with the server on who cordoned the node (no
\* one else writes that annotation), and between the two patches that give a node
\* back the copy agrees on the gate.
Gates ==
  \A n \in Nodes : ~node[n].gate => node[n].by = Cr \/ (pc = "ungate" /\ target = n)
Preparing == pc \in {"gate", "evict"} => node[target].by = Cr
CopiesAgree ==
  pc \in {"cordon", "gate", "evict", "uncordon", "ungate"} =>
    \A n \in todo : snap[n].by = node[n].by
GivingBack ==
  /\ pc = "uncordon" => \A n \in todo : node[n].by = Cr
  /\ pc = "ungate" => snap[target].gate = node[target].gate
                      /\ \A n \in todo \ {target} : node[n].by = Cr
GateInv == Calm => Gates /\ Preparing /\ CopiesAgree /\ GivingBack

\* It holds in the initial states.
LEMMA GateInit == Init => GateInv
<1>1. ASSUME Init PROVE pc = "idle" /\ \A n \in Nodes : ~node[n].gate => node[n].by = Cr
  <2>1. Fresh => \A n \in Nodes : node[n].gate
    BY DEF Fresh, NewNode
  <2>2. ASSUME Settled, NEW n \in Nodes PROVE node[n].gate
    <3>1. CASE n \notin Matched
      BY <2>2, <3>1 DEF Settled, NewNode
    <3>2. CASE n \in Matched
      <4>1. node[n] = [NewNode EXCEPT !.kmd = loaded[n],
                                      !.mode = IF n \in Host THEN "host" ELSE "container"]
        BY <2>2, <3>2 DEF Settled
      <4> QED BY <4>1 DEF NewNode
    <3> QED BY <3>1, <3>2
  <2>3. pc = "idle"
    BY <1>1 DEF Init, Fresh, Recreated, Created, Settled, Idle
  <2>4. ASSUME Recreated, NEW n \in Nodes PROVE ~node[n].gate => node[n].by = Cr
    <3>1. node[n] \in NodeRec /\ (node[n].gate <=> ~node[n].unsched)
          /\ node[n].by = IF node[n].unsched THEN Cr ELSE None
      BY <2>4 DEF Recreated, LeftBehind
    <3> QED BY <3>1
  <2> QED BY <1>1, <2>1, <2>2, <2>3, <2>4 DEF Init
<1> QED BY <1>1 DEF GateInv, Gates, Preparing, CopiesAgree, GivingBack

\* Failures only ever add up.
LEMMA FaultsGrow == ASSUME [Next]_vars PROVE faults \subseteq faults'
<1>1. \A k : Fault(k) => faults \subseteq faults'
  BY DEF Fault
<1>2. UNCHANGED vars => faults \subseteq faults'
  BY DEF vars
<1>3. Reconcile => faults \subseteq faults'
  BY <1>1 DEF Reconcile, Start, Create, Cordon, FlipGates, Evict, UpdateDs,
              PopulateNodeStatuses, Publish, CleanLabel, ListReady, Uncordon, RemoveGates, Finish
<1>4. Cluster => faults \subseteq faults'
  BY <1>1 DEF Cluster, DsReports, DsCreatesPod, DsRollsPod, DsDropsPod, ImagePulled,
              PodReady, Builder, StandDown, VersionMatches, Unload, Busy, Load, Announce,
              Settle, Label
<1>5. Workloads \/ Users => faults \subseteq faults'
  BY <1>1 DEF Workloads, PodStarts, PodGatedOff, PodRemoved, Users, EditSpec,
              DeletePolicy, HumanCordon, SetSkip
<1> QED BY <1>2, <1>3, <1>4, <1>5 DEF Next

\* Nobody but the reconcile touches the gates, the annotation or its own locals.
LEMMA GatesKept ==
  ASSUME TypeOK, Cluster \/ Workloads \/ Users
  PROVE  /\ UNCHANGED localVars
         /\ \A n \in Nodes : node'[n].by = node[n].by /\ node'[n].gate = node[n].gate
<1>0. node \in [Nodes -> NodeRec]
  BY DEF TypeOK, ClusterTypes
<1>1. ASSUME NEW m \in Nodes, NEW mode, SetLabels(m, mode)
      PROVE  \A n \in Nodes : node'[n].by = node[n].by /\ node'[n].gate = node[n].gate
  BY <1>0, <1>1 DEF SetLabels, NodeRec
<1>2. Cluster => UNCHANGED localVars
  BY DEF Cluster, DsReports, DsCreatesPod, DsRollsPod, DsDropsPod, ImagePulled,
         PodReady, Builder, StandDown, VersionMatches, Unload, Busy, Load, Announce
<1>3. Cluster => \/ UNCHANGED node
                 \/ \E m \in Nodes : \E mode \in {"host", "container"} : SetLabels(m, mode)
  BY DEF Cluster, DsReports, DsCreatesPod, DsRollsPod, DsDropsPod, ImagePulled,
         PodReady, Builder, StandDown, VersionMatches, Unload, Busy, Load, Announce,
         Settle, Label
<1>4. Workloads => UNCHANGED localVars /\ UNCHANGED node
  BY DEF Workloads, PodStarts, PodGatedOff, PodRemoved
<1>5. Users => UNCHANGED localVars
  BY DEF Users, EditSpec, DeletePolicy, HumanCordon, SetSkip
<1>6. ASSUME NEW m \in Nodes, HumanCordon(m) \/ SetSkip(m)
      PROVE  \A n \in Nodes : node'[n].by = node[n].by /\ node'[n].gate = node[n].gate
  BY <1>0, <1>6 DEF HumanCordon, SetSkip, NodeRec
<1>7. EditSpec \/ DeletePolicy => UNCHANGED node
  BY DEF EditSpec, DeletePolicy
<1> QED BY <1>1, <1>2, <1>3, <1>4, <1>5, <1>6, <1>7 DEF Users

\* The steps of the reconcile preserve it.
LEMMA GateReconcile ==
  ASSUME TypeOK, Calm, Calm', Gates, Preparing, CopiesAgree, GivingBack, Reconcile
  PROVE  Gates' /\ Preparing' /\ CopiesAgree' /\ GivingBack'
<1>0. /\ node \in [Nodes -> NodeRec] /\ snap \in [Nodes -> NodeRec] /\ todo \subseteq Nodes
      /\ pc \in {"gate", "evict", "ungate"} => target \in Nodes
  BY DEF TypeOK, ClusterTypes, ReconcileTypes
<1> USE DEF Gates, Preparing, CopiesAgree, GivingBack
<1>1. CASE Start
  BY <1>0, <1>1 DEF Start
<1>2. ASSUME Return, UNCHANGED node, pc # "ungate"
      PROVE  Gates' /\ Preparing' /\ CopiesAgree' /\ GivingBack'
  BY <1>2 DEF Return
<1>3. CASE Create
  BY <1>2, <1>3 DEF Create
<1>4. ASSUME NEW n \in Nodes, Cordon(n)
      PROVE  Gates' /\ Preparing' /\ CopiesAgree' /\ GivingBack'
  <2> DEFINE new == CordonNode(snap[n], Cr)
             patched == PatchNode(node[n], snap[n], new)
  <2>1. CASE UNCHANGED <<node, snap, pc, target>> /\ todo' = todo \ {n}
    BY <1>0, <1>4, <2>1 DEF Cordon
  <2>2. new.by = Cr
    BY <1>0 DEF CordonNode, NodeRec
  <2>3. snap[n].by = node[n].by
    BY <1>4 DEF Cordon
  <2>4. patched.by = Cr
    BY <2>2, <2>3 DEF PatchNode
  <2>5. new = snap[n] => patched.by = snap[n].by
    BY <2>3 DEF PatchNode
  <2>6. CASE /\ node' = [node EXCEPT ![n] = patched]
             /\ snap' = [snap EXCEPT ![n] = IF new = @ THEN @ ELSE patched]
             /\ pc' = "gate" /\ target' = n /\ todo' = todo
    <3> HIDE DEF new, patched
    <3>1. /\ node'[n] = patched /\ \A m \in Nodes \ {n} : node'[m] = node[m]
          /\ snap'[n].by = patched.by /\ \A m \in Nodes \ {n} : snap'[m] = snap[m]
      BY <1>0, <2>5, <2>6
    <3>2. pc = "cordon"
      BY <1>4 DEF Cordon
    <3> QED BY <1>0, <2>4, <2>6, <3>1, <3>2
  <2> QED BY <1>4, <2>1, <2>6 DEF Cordon
<1>5. CASE FlipGates
  <2> DEFINE patched == PatchNode(node[target], snap[target], [snap[target] EXCEPT !.gate = FALSE])
  <2>1. target \in Nodes /\ pc = "gate" /\ pc' = "evict" /\ UNCHANGED <<snap, todo, target>>
    BY <1>0, <1>5 DEF FlipGates
  <2>2. patched.by = node[target].by
    BY <1>0, <2>1 DEF PatchNode, NodeRec
  <2>3. node' = node \/ node' = [node EXCEPT ![target] = patched]
    BY <1>5 DEF FlipGates
  <2> HIDE DEF patched
  <2>4. /\ \A m \in Nodes : node'[m].by = node[m].by
        /\ \A m \in Nodes \ {target} : node'[m] = node[m]
    BY <1>0, <2>1, <2>2, <2>3
  <2> QED BY <1>0, <2>1, <2>4
<1>6. CASE Evict
  BY <1>0, <1>6 DEF Evict
<1>7. CASE UpdateDs
  BY <1>2, <1>7 DEF UpdateDs
<1>8. CASE PopulateNodeStatuses \/ Publish
  BY <1>2, <1>8 DEF PopulateNodeStatuses, Publish
<1>9. ASSUME NEW n \in Nodes, CleanLabel(n)
      PROVE  Gates' /\ Preparing' /\ CopiesAgree' /\ GivingBack'
  <2>1. \A m \in Nodes : node'[m].by = node[m].by /\ node'[m].gate = node[m].gate
    BY <1>0, <1>9 DEF CleanLabel, NodeRec
  <2> QED BY <1>9, <2>1 DEF CleanLabel
<1>10. CASE ListReady
  BY <1>2, <1>10 DEF ListReady
<1>11. ASSUME NEW n \in Nodes, Uncordon(n)
       PROVE  Gates' /\ Preparing' /\ CopiesAgree' /\ GivingBack'
  <2> DEFINE patched == PatchNode(node[n], snap[n], UncordonNode(snap[n], Cr))
  <2>1. CASE node' = node /\ snap' = snap /\ todo' = todo \ {n} /\ pc' = pc
    BY <1>0, <1>11, <2>1 DEF Uncordon
  <2>2. CASE /\ node' = [node EXCEPT ![n] = patched]
             /\ snap' = [snap EXCEPT ![n] = patched]
             /\ pc' = "ungate" /\ target' = n /\ todo' = todo
    <3> HIDE DEF patched
    <3>1. /\ node'[n] = patched /\ \A m \in Nodes \ {n} : node'[m] = node[m]
          /\ snap'[n] = patched /\ \A m \in Nodes \ {n} : snap'[m] = snap[m]
      BY <1>0, <2>2
    <3>2. pc = "uncordon"
      BY <1>11 DEF Uncordon
    <3> QED BY <1>0, <2>2, <3>1, <3>2
  <2> QED BY <1>11, <2>1, <2>2 DEF Uncordon
<1>12. CASE RemoveGates
  <2> DEFINE patched == PatchNode(node[target], snap[target], [snap[target] EXCEPT !.gate = TRUE])
  <2>1. target \in Nodes /\ pc = "ungate" /\ pc' = "uncordon" /\ snap' = snap
        /\ todo' = todo \ {target}
    BY <1>0, <1>12 DEF RemoveGates
  <2>2. patched.gate = TRUE
    BY <1>0, <2>1 DEF PatchNode, NodeRec
  <2>3. node' = [node EXCEPT ![target] = patched]
    BY <1>12 DEF RemoveGates, Fault, Calm
  <2> HIDE DEF patched
  <2>4. node'[target].gate = TRUE /\ \A m \in Nodes \ {target} : node'[m] = node[m]
    BY <1>0, <2>1, <2>2, <2>3
  <2> QED BY <1>0, <2>1, <2>4
<1>13. CASE Finish
  BY <1>2, <1>13 DEF Finish, Fault, Calm
<1> QED BY <1>1, <1>3, <1>4, <1>5, <1>6, <1>7, <1>8, <1>9, <1>10, <1>11, <1>12, <1>13
        DEF Reconcile

\* However often the reconcile is interrupted by failing calls, edits and people, a
\* deploy gate it switched off is held by its cordon until the gate is opened again:
\* only a lost removeDeployGates or a crash can leave one shut.
THEOREM GatesAreHeld == Spec => []GateHeldByCordon
<1>1. TypeOK /\ GateInv /\ [Next]_vars => GateInv'
  <2> SUFFICES ASSUME TypeOK, GateInv, [Next]_vars, Calm'
               PROVE  Gates' /\ Preparing' /\ CopiesAgree' /\ GivingBack'
    BY DEF GateInv
  <2>1. Calm /\ Gates /\ Preparing /\ CopiesAgree /\ GivingBack
    BY FaultsGrow DEF Calm, GateInv
  <2>2. CASE Reconcile
    BY <2>1, <2>2, GateReconcile
  <2>3. CASE /\ UNCHANGED localVars
             /\ \A n \in Nodes : node'[n].by = node[n].by /\ node'[n].gate = node[n].gate
    <3>1. todo \subseteq Nodes /\ (pc \in {"gate", "evict", "ungate"} => target \in Nodes)
      BY DEF TypeOK, ReconcileTypes
    <3> QED BY <2>1, <2>3, <3>1 DEF localVars, Gates, Preparing, CopiesAgree, GivingBack
  <2>4. UNCHANGED vars => UNCHANGED localVars /\ UNCHANGED node
    BY DEF vars
  <2> QED BY <2>2, <2>3, <2>4, GatesKept DEF Next
<1>2. GateInv => GateHeldByCordon
  BY DEF GateInv, Calm, Gates, GateHeldByCordon
<1> QED BY <1>1, <1>2, GateInit, DriverTypeCorrect, PTL DEF Spec

-----------------------------------------------------------------------------
(* The module is swapped out of service. *)

\* le is an order on the versions in which the edits of the policy only go forward.
Ordered(le) ==
  /\ \A v \in Versions : <<v, v>> \in le
  /\ \A u, v, w \in Versions : <<u, v>> \in le /\ <<v, w>> \in le => <<u, w>> \in le
  /\ \A v, w \in Versions : <<v, w>> \in le /\ <<w, v>> \in le => v = w
  /\ \A e \in Edits : <<e[1].version, e[2].version>> \in le

\* A policy that is paused does not go back to a version it has left.  If it does, the
\* DaemonSet keeps rolling the newer one while uncordonReadyNodes, for which a pod of
\* the older version is at its target, gives the nodes that still wait back.
NeverPaused == \A s \in Specs : ~s.paused
PausesKeepTarget ==
  NeverPaused \/ \E le \in SUBSET (Versions \X Versions) : Ordered(le)

\* A builder pod of the version the reconcile read is of the DaemonSet's version.
AfterUpdate == {"populate", "publish", "cleanup"}
TargetRolled ==
  pc \in AfterUpdate =>
    \A n \in Nodes : bp[n].step # "none" /\ bp[n].tmpl.version = rspec.version =>
                       ds # None /\ ds.version = rspec.version

\* What it rests on where nothing is paused: the DaemonSet has been updated by then.
Updated == pc \in AfterUpdate => ds # None /\ ds.version = rspec.version

\* And where versions only go forward: pods trail the DaemonSet, the DaemonSet the
\* reconcile, and the reconcile the policy.
Trailing(le) ==
  /\ \A n \in Nodes : bp[n].step # "none" =>
                        ds # None /\ <<bp[n].tmpl.version, ds.version>> \in le
  /\ ds # None => <<ds.version, spec.version>> \in le
  /\ pc # "idle" => /\ <<rspec.version, spec.version>> \in le
                    /\ ds # None => <<ds.version, rspec.version>> \in le

\* The versions in the state are versions.
LEMMA VersionTypes ==
  ASSUME TypeOK
  PROVE  /\ spec.version \in Versions /\ (pc # "idle" => rspec.version \in Versions)
         /\ ds # None => ds.version \in Versions
         /\ \A n \in Nodes : bp[n].step # "none" => bp[n].tmpl.version \in Versions
<1>1. \A s \in Specs : s.version \in Versions
  BY DSpecsType DEF SpecRec
<1>2. \A t \in Template : t.version \in Versions
  BY DEF Template
<1> QED BY <1>1, <1>2 DEF TypeOK, PolicyTypes, ClusterTypes, ReconcileTypes

\* A policy that is never paused updates its DaemonSet before it publishes.
LEMMA UpdatedStep ==
  ASSUME NeverPaused, TypeOK', ReadInOrder, ReadInOrder', Updated, [Next]_vars
  PROVE  Updated'
<1>1. ASSUME pc' \in {"populate", "publish"} PROVE Updated'
  <2>1. ~rspec'.paused
    BY <1>1 DEF NeverPaused, TypeOK, ReconcileTypes
  <2> QED BY <1>1, <2>1 DEF ReadInOrder, Updated
<1>2. CASE Reconcile
  <2>1. CASE Start \/ Create \/ FlipGates \/ Evict \/ UpdateDs \/ RemoveGates \/ Finish
             \/ \E n \in Nodes : Cordon(n) \/ Uncordon(n)
    <3>1. pc' # "cleanup"
      BY <2>1 DEF Start, Create, FlipGates, Evict, UpdateDs, RemoveGates, Finish, Cordon,
                  Uncordon, Return
    <3> QED BY <1>1, <3>1 DEF Updated, AfterUpdate
  <2>2. CASE PopulateNodeStatuses \/ Publish \/ ListReady \/ \E n \in Nodes : CleanLabel(n)
    BY <2>2 DEF PopulateNodeStatuses, Publish, ListReady, CleanLabel, Return, Updated,
                AfterUpdate, dsVars, readVars
  <2> QED BY <1>2, <2>1, <2>2 DEF Reconcile
<1>3. CASE Cluster \/ Workloads \/ Users \/ UNCHANGED vars
  <2>1. UNCHANGED <<pc, rspec, ds>>
    BY <1>3 DEF Cluster, DsReports, DsCreatesPod, DsRollsPod, DsDropsPod, ImagePulled,
       PodReady, Builder, StandDown, VersionMatches, Unload, Busy, Load, Announce,
       Workloads, PodStarts, PodGatedOff, PodRemoved, Users, EditSpec, DeletePolicy,
       HumanCordon, SetSkip, vars, dsVars, localVars, readVars
  <2> QED BY <2>1 DEF Updated
<1> QED BY <1>2, <1>3 DEF Next

\* A builder pod keeps its template; a new one has the DaemonSet's.
LEMMA PodsRendered ==
  ASSUME TypeOK, Cluster, NEW n \in Nodes
  PROVE  \/ bp'[n].step = "none"
         \/ bp'[n].tmpl = bp[n].tmpl /\ bp[n].step # "none"
         \/ ds # None /\ bp'[n].tmpl = ds
<1>0. bp \in [Nodes -> BuilderPod]
  BY DEF TypeOK, ClusterTypes
<1>1. CASE DsReports
  BY <1>0, <1>1 DEF DsReports, hostVars, BuilderPod, Steps
<1>2. ASSUME NEW m \in Nodes, DsCreatesPod(m) PROVE bp'[n] = bp[n] \/ (ds # None /\ bp'[n].tmpl = ds)
  BY <1>0, <1>2 DEF DsCreatesPod
<1>3. ASSUME NEW m \in Nodes, DsRollsPod(m) \/ DsDropsPod(m)
      PROVE  bp'[n] = bp[n] \/ bp'[n].step = "none"
  BY <1>0, <1>3 DEF DsRollsPod, DsDropsPod, NoPod
<1>4. ASSUME NEW m \in Nodes, ImagePulled(m) \/ PodReady(m) \/ Builder(m)
      PROVE  bp'[n] = bp[n] \/ (bp'[n].tmpl = bp[n].tmpl /\ bp[n].step # "none")
  <2>1. bp[m].step # "none"
    BY <1>4 DEF ImagePulled, PodReady, Builder, StandDown, VersionMatches, Unload, Busy,
                Load, Announce
  <2>2. \/ \E l \in Steps : Goto(m, l)
        \/ Exit(m)
    BY <1>4 DEF ImagePulled, PodReady, Builder, StandDown, VersionMatches, Unload, Busy,
                Load, Announce, Settle, Label, Goto, Steps
  <2>3. bp[m] \in BuilderPod /\ bp[n] \in BuilderPod
    BY <1>0
  <2> QED BY <1>0, <2>1, <2>2, <2>3 DEF Goto, Exit, BuilderPod
<1> QED BY <1>1, <1>2, <1>3, <1>4 DEF Cluster, hostVars, DsReports

\* Where versions only go forward, everything trails what it was made from.
LEMMA TrailingStep ==
  ASSUME NEW le, Ordered(le), TypeOK, TypeOK', ReadInOrder, Trailing(le), [Next]_vars
  PROVE  Trailing(le)'
<1>0. bp \in [Nodes -> BuilderPod]
  BY DEF TypeOK, ClusterTypes
<1>1. \A u, v, w \in Versions : <<u, v>> \in le /\ <<v, w>> \in le => <<u, w>> \in le
  BY DEF Ordered
<1>2. \A v \in Versions : <<v, v>> \in le
  BY DEF Ordered
<1>3. CASE Reconcile
  <2>1. UNCHANGED <<bp, spec>>
    BY <1>3, HostKept DEF hostVars, Reconcile, Start, Create, Cordon, FlipGates, Evict,
       UpdateDs, PopulateNodeStatuses, Publish, CleanLabel, ListReady, Uncordon, RemoveGates, Finish, crVars
  <2>2. CASE Start
    <3>1. UNCHANGED ds /\ rspec' = spec
      BY <2>2 DEF Start, dsVars
    <3> QED BY <1>2, <2>1, <3>1, VersionTypes DEF Trailing
  <2>3. CASE Create \/ UpdateDs
    <3>1. pc \in BeforeUpdate
      BY <2>3 DEF Create, UpdateDs, BeforeUpdate
    <3>2. desired \in Template /\ desired.version = rspec.version /\ pc # "idle"
      BY <3>1 DEF ReadInOrder, BeforeUpdate, TypeOK, ReconcileTypes
    <3>3. CASE ds' = desired /\ rspec' = rspec
      <4>1. desired # None
        BY <3>2, DNoneFresh
      <4>2. <<ds'.version, spec.version>> \in le /\ <<ds'.version, rspec.version>> \in le
        BY <1>2, <3>2, <3>3, VersionTypes DEF Trailing
      <4>3. ASSUME NEW n \in Nodes, bp[n].step # "none"
            PROVE  <<bp[n].tmpl.version, ds'.version>> \in le
        BY <1>1, <3>2, <3>3, <4>3, VersionTypes DEF Trailing
      <4> QED BY <2>1, <3>2, <3>3, <4>1, <4>2, <4>3 DEF Trailing
    <3>4. CASE UNCHANGED ds /\ pc' = "idle"
      BY <2>1, <3>4 DEF Trailing
    <3> QED BY <2>3, <3>3, <3>4 DEF Create, UpdateDs, Return, dsVars
  <2>4. CASE FlipGates \/ Evict \/ PopulateNodeStatuses \/ Publish \/ ListReady \/ RemoveGates
             \/ Finish \/ \E n \in Nodes : Cordon(n) \/ CleanLabel(n) \/ Uncordon(n)
    <3>1. UNCHANGED ds /\ (pc' = "idle" \/ (rspec' = rspec /\ pc # "idle"))
      BY <2>4 DEF FlipGates, Evict, PopulateNodeStatuses, Publish, ListReady, RemoveGates,
                  Finish, Cordon, CleanLabel, Uncordon, Return, dsVars, readVars
    <3> QED BY <2>1, <3>1 DEF Trailing
  <2> QED BY <1>3, <2>2, <2>3, <2>4 DEF Reconcile
<1>4. CASE Cluster
  <2>1. UNCHANGED <<ds, spec, pc, rspec>>
    BY <1>4 DEF Cluster, DsReports, DsCreatesPod, DsRollsPod, DsDropsPod, ImagePulled,
       PodReady, Builder, StandDown, VersionMatches, Unload, Busy, Load, Announce,
       crVars, dsVars, localVars, readVars
  <2>2. ASSUME NEW n \in Nodes
        PROVE  \/ bp'[n].step = "none"
               \/ bp'[n].tmpl = bp[n].tmpl /\ bp[n].step # "none"
               \/ ds # None /\ bp'[n].tmpl = ds
    BY <1>0, <1>4, PodsRendered
  <2>3. ASSUME NEW n \in Nodes, bp'[n].step # "none"
        PROVE  ds # None /\ <<bp'[n].tmpl.version, ds.version>> \in le
    BY <1>2, <2>2, <2>3, VersionTypes DEF Trailing
  <2> QED BY <2>1, <2>3 DEF Trailing
<1>5. CASE Workloads \/ Users
  <2>1. UNCHANGED <<ds, bp, pc, rspec>>
    BY <1>5, HostKept DEF Workloads, PodStarts, PodGatedOff, PodRemoved, Users, EditSpec,
       DeletePolicy, HumanCordon, SetSkip, dsVars, hostVars, localVars, readVars
  <2>2. CASE UNCHANGED spec
    BY <2>1, <2>2 DEF Trailing
  <2>3. CASE EditSpec
    <3>1. <<spec, spec'>> \in Edits
      BY <2>3 DEF EditSpec
    <3>2. <<spec.version, spec'.version>> \in le
      BY <3>1 DEF Ordered
    <3>3. spec'.version \in Versions
      BY DSpecsType DEF TypeOK, PolicyTypes, SpecRec
    <3>4. \A v \in Versions : <<v, spec.version>> \in le => <<v, spec'.version>> \in le
      BY <1>1, <3>2, <3>3, VersionTypes
    <3> QED BY <2>1, <3>4, VersionTypes DEF Trailing
  <2> QED BY <1>5, <2>2, <2>3 DEF Workloads, PodStarts, PodGatedOff, PodRemoved, Users,
             DeletePolicy, HumanCordon, SetSkip, crVars
<1>6. CASE UNCHANGED vars
  BY <1>6 DEF vars, crVars, dsVars, hostVars, localVars, readVars, Trailing
<1> QED BY <1>3, <1>4, <1>5, <1>6 DEF Next

\* At the start too.
LEMMA TrailingInit ==
  ASSUME NEW le, Ordered(le), Init PROVE Trailing(le)
<1>1. pc = "idle"
  BY DEF Init, Fresh, Recreated, Created, Settled, Idle
<1>2. CASE Created
  BY <1>1, <1>2 DEF Created, NoPod, Trailing
<1>3. CASE Settled
  <2>1. PICK o \in Orders : ds = buildDaemonSet(spec, o)
    BY <1>3 DEF Settled
  <2>2. spec.version \in Versions /\ spec.forceUnload \in BOOLEAN
    BY <1>3, DSpecsType DEF Settled, SpecRec
  <2>3. ds \in Template
    BY <2>1, <2>2 DEF buildDaemonSet, Template
  <2>4. ds # None /\ ds.version = spec.version
    BY <2>1, <2>3, DNoneFresh DEF buildDaemonSet
  <2>5. \A n \in Nodes : bp[n].step # "none" => bp[n].tmpl = ds
    BY <1>3 DEF Settled, NoPod
  <2>6. <<spec.version, spec.version>> \in le
    BY <2>2 DEF Ordered
  <2> QED BY <1>1, <2>4, <2>5, <2>6 DEF Trailing
<1> QED BY <1>2, <1>3 DEF Init, Fresh, Recreated

\* So a reconcile that is about to look for pods at its target finds those of the
\* DaemonSet.
LEMMA TargetInvariant == PausesKeepTarget => (Spec => []TargetRolled)
<1> SUFFICES ASSUME PausesKeepTarget PROVE Spec => []TargetRolled
  OBVIOUS
<1>1. CASE NeverPaused
  <2>1. Init => Updated
    BY DEF Init, Fresh, Recreated, Created, Settled, Idle, Updated, AfterUpdate
  <2>2. TypeOK' /\ ReadInOrder /\ ReadInOrder' /\ Updated /\ [Next]_vars => Updated'
    BY <1>1, UpdatedStep
  <2>3. Updated => TargetRolled
    BY DEF Updated, TargetRolled
  <2> QED BY <2>1, <2>2, <2>3, DoneInductive, DriverTypeCorrect, PTL DEF Spec
<1>2. ASSUME NEW le \in SUBSET (Versions \X Versions), Ordered(le)
      PROVE  Spec => []TargetRolled
  <2>1. Init => Trailing(le)
    BY <1>2, TrailingInit
  <2>2. TypeOK /\ TypeOK' /\ ReadInOrder /\ Trailing(le) /\ [Next]_vars => Trailing(le)'
    BY <1>2, TrailingStep
  <2>3. TypeOK /\ Trailing(le) => TargetRolled
    <3> SUFFICES ASSUME TypeOK, Trailing(le), pc \in AfterUpdate, NEW n \in Nodes,
                        bp[n].step # "none", bp[n].tmpl.version = rspec.version
                 PROVE  ds # None /\ ds.version = rspec.version
      BY DEF TargetRolled
    <3>1. ds # None /\ <<rspec.version, ds.version>> \in le /\ <<ds.version, rspec.version>> \in le
      BY DEF Trailing, AfterUpdate
    <3> QED BY <1>2, <3>1, VersionTypes DEF Ordered, AfterUpdate
  <2> QED BY <2>1, <2>2, <2>3, DoneInductive, DriverTypeCorrect, PTL DEF Spec
<1> QED BY <1>1, <1>2 DEF PausesKeepTarget

\* None of the failures the property leaves out has happened.
Undisturbed == faults \cap {"cordon", "human", "skip", "recreate"} = {}

Cordoned(n) == node[n].unsched /\ node[n].by = Cr

\* The node's builder pod, if it has one, is of the DaemonSet's version; and so is its
\* module.
PodCurrent(n) == bp[n].step # "none" => ds # None /\ bp[n].tmpl.version = ds.version
AtDs(n) == ds # None /\ loaded[n] = ds.version /\ PodCurrent(n)

\* A node in service has nothing to swap: it is at the DaemonSet's version, or it has
\* never announced one.
InService ==
  \A n \in Nodes \ Host : Cordoned(n) \/ AtDs(n) \/ (node[n].kmd = None /\ PodCurrent(n))

\* Nothing happens on the nodes the policy does not match.
OnlyMatched ==
  \A n \in Nodes : /\ node[n].skip = None
                   /\ n \notin Matched => node[n].kmd = None /\ bp[n].step = "none"

\* An update comes after the cordon of every node, and a DaemonSet is created once.
Prepared ==
  /\ pc \in {"cordon", "gate", "evict"} =>
       /\ todo \subseteq Matched
       /\ \A n \in todo : snap[n].by = node[n].by /\ snap[n].unsched = node[n].unsched
       /\ \A n \in Matched \ todo : Cordoned(n)
  /\ pc \in {"gate", "evict"} => Cordoned(target)
  /\ pc # "update" /\ (pc = "create" => ds = None)

\* The nodes about to be given back stay at the version they were found at.
Returned == pc \in {"uncordon", "ungate"} => \A n \in todo \ Host : AtDs(n)

\* The strengthening of SwapOutOfService.
SwapInv ==
  DrainAlways /\ Undisturbed => InService /\ OnlyMatched /\ Prepared /\ Returned

\* It holds in the initial states.
LEMMA SwapInit == Init => SwapInv
<1>1. ASSUME Fresh PROVE SwapInv
  BY <1>1 DEF Fresh, Created, Idle, NewNode, NoPod, SwapInv, InService, OnlyMatched,
              Prepared, Returned, PodCurrent
<1>2. ASSUME Settled PROVE SwapInv
  <2>1. PICK o \in Orders : ds = buildDaemonSet(spec, o)
    BY <1>2 DEF Settled
  <2>2. ds.version = spec.version /\ ds # None
    <3>1. spec.version \in Versions /\ spec.forceUnload \in BOOLEAN
      BY <1>2, DSpecsType DEF Settled, SpecRec
    <3>2. ds \in Template
      BY <2>1, <3>1 DEF buildDaemonSet, Template
    <3> QED BY <2>1, <3>2, DNoneFresh DEF buildDaemonSet
  <2>3. ASSUME NEW n \in Nodes
        PROVE  /\ n \in Matched => bp[n].tmpl = ds
               /\ n \notin Matched => bp[n].step = "none"
    BY <1>2 DEF Settled, NoPod
  <2>4. ASSUME NEW n \in Nodes
        PROVE  /\ node[n].skip = None
               /\ n \notin Matched => node[n].kmd = None
    <3>1. CASE n \notin Matched
      BY <1>2, <3>1 DEF Settled, NewNode
    <3>2. CASE n \in Matched
      <4>1. node[n] = [NewNode EXCEPT !.kmd = loaded[n],
                                      !.mode = IF n \in Host THEN "host" ELSE "container"]
        BY <1>2, <3>2 DEF Settled
      <4> QED BY <3>2, <4>1 DEF NewNode
    <3> QED BY <3>1, <3>2
  <2>5. \A n \in Matched \ Host : loaded[n] = spec.version
    BY <1>2, DMatchedType DEF Settled
  <2>6. pc = "idle"
    BY <1>2 DEF Settled, Idle
  <2> QED BY <2>2, <2>3, <2>4, <2>5, <2>6
             DEF SwapInv, InService, OnlyMatched, Prepared, Returned, AtDs, PodCurrent
<1>3. ASSUME Recreated PROVE SwapInv
  BY <1>3 DEF Recreated, SwapInv, Undisturbed
<1> QED BY <1>1, <1>2, <1>3 DEF Init

\* The cluster does not take a node's module or pod away from the DaemonSet's version,
\* and what a builder announces is that version.
LEMMA ClusterKeepsVersions ==
  ASSUME TypeOK, LoadedAsRendered, Cluster, NEW n \in Nodes \ Host
  PROVE  /\ PodCurrent(n) => PodCurrent(n)'
         /\ AtDs(n) => AtDs(n)'
         /\ PodCurrent(n) /\ node'[n].kmd # node[n].kmd => AtDs(n)'
<1>0. /\ bp \in [Nodes -> BuilderPod] /\ loaded \in [Nodes -> Versions \cup {None}]
      /\ node \in [Nodes -> NodeRec]
  BY DEF TypeOK, ClusterTypes
<1>1. UNCHANGED ds
  BY DEF Cluster, DsReports, DsCreatesPod, DsRollsPod, DsDropsPod, ImagePulled,
         PodReady, Builder, StandDown, VersionMatches, Unload, Busy, Load, Announce, dsVars
<1>2. PodCurrent(n) => PodCurrent(n)'
  BY <1>1, PodsRendered DEF PodCurrent
<1>3. AtDs(n) => AtDs(n)'
  <2> SUFFICES ASSUME AtDs(n) PROVE loaded'[n] = loaded[n]
    BY <1>1, <1>2 DEF AtDs
  <2>1. loaded[n] # None
    BY VersionTypes, DNoneFresh DEF AtDs
  <2>2. ~Unload(n) /\ ~Load(n)
    BY <2>1 DEF AtDs, PodCurrent, Unload, Load, LoadedAsRendered
  <2>3. ASSUME NEW m \in Nodes, Unload(m) \/ Load(m) PROVE loaded'[n] = loaded[n]
    <3>1. m # n
      BY <2>2, <2>3
    <3> QED BY <1>0, <2>3, <3>1 DEF Unload, Load
  <2>4. UNCHANGED loaded \/ \E m \in Nodes : Unload(m) \/ Load(m)
    BY DEF Cluster, DsReports, DsCreatesPod, DsRollsPod, DsDropsPod, ImagePulled,
           PodReady, Builder, StandDown, VersionMatches, Busy, Announce, hostVars
  <2> QED BY <2>3, <2>4
<1>4. ASSUME PodCurrent(n), node'[n].kmd # node[n].kmd PROVE AtDs(n)'
  <2>1. UNCHANGED node \/ \E m \in Nodes : StandDown(m) \/ VersionMatches(m) \/ Announce(m)
    BY DEF Cluster, DsReports, DsCreatesPod, DsRollsPod, DsDropsPod, ImagePulled,
           PodReady, Builder, Unload, Load, Busy
  <2>2. PICK m \in Nodes : StandDown(m) \/ VersionMatches(m) \/ Announce(m)
    BY <1>4, <2>1
  <2>3. m = n
    BY <1>0, <1>4, <2>2 DEF StandDown, VersionMatches, Announce, Settle, Label, SetLabels
  <2>4. VersionMatches(n) \/ Announce(n)
    BY <2>2, <2>3 DEF StandDown
  <2>5. loaded[n] = bp[n].tmpl.version /\ bp[n].step # "none" /\ UNCHANGED loaded
    BY <2>4 DEF VersionMatches, Announce, LoadedAsRendered
  <2> QED BY <1>1, <1>2, <1>4, <2>5 DEF AtDs, PodCurrent
<1> QED BY <1>2, <1>3, <1>4

\* Nobody but the reconcile and people touch the cordons and the skip labels.
LEMMA CordonsKept ==
  ASSUME TypeOK, Cluster \/ Workloads \/ Users, Undisturbed'
  PROVE  /\ UNCHANGED localVars /\ UNCHANGED ds
         /\ \A n \in Nodes : /\ node'[n].by = node[n].by
                             /\ node'[n].unsched = node[n].unsched
                             /\ node'[n].skip = node[n].skip
<1>0. node \in [Nodes -> NodeRec]
  BY DEF TypeOK, ClusterTypes
<1>1. UNCHANGED localVars
  BY GatesKept
<1>2. UNCHANGED ds
  BY DEF Cluster, DsReports, DsCreatesPod, DsRollsPod, DsDropsPod, ImagePulled,
         PodReady, Builder, StandDown, VersionMatches, Unload, Busy, Load, Announce, dsVars,
         Workloads, PodStarts, PodGatedOff, PodRemoved, Users, EditSpec, DeletePolicy,
         HumanCordon, SetSkip
<1>3. \A n \in Nodes : ~HumanCordon(n) /\ ~SetSkip(n)
  BY DEF HumanCordon, SetSkip, Fault, Undisturbed
<1>4. \/ UNCHANGED node
      \/ \E m \in Nodes : \E mode \in {"host", "container"} : SetLabels(m, mode)
  BY <1>3 DEF Cluster, DsReports, DsCreatesPod, DsRollsPod, DsDropsPod, ImagePulled,
         PodReady, Builder, StandDown, VersionMatches, Unload, Busy, Load, Announce,
         Settle, Label,
         Workloads, PodStarts, PodGatedOff, PodRemoved, Users, EditSpec, DeletePolicy
<1>5. ASSUME NEW m \in Nodes, NEW mode, SetLabels(m, mode), NEW n \in Nodes
      PROVE  /\ node'[n].by = node[n].by /\ node'[n].unsched = node[n].unsched
             /\ node'[n].skip = node[n].skip
  BY <1>0, <1>5 DEF SetLabels, NodeRec
<1> QED BY <1>1, <1>2, <1>4, <1>5

\* Nor does anything start on a node the policy does not match.
LEMMA OnlyMatchedStep ==
  ASSUME TypeOK, OnlyMatched, Cluster, Undisturbed', NEW n \in Nodes \ Matched
  PROVE  node'[n].kmd = None /\ bp'[n].step = "none"
<1>0. /\ bp \in [Nodes -> BuilderPod] /\ node \in [Nodes -> NodeRec]
      /\ bp[n].step = "none" /\ node[n].kmd = None
  BY DEF TypeOK, ClusterTypes, OnlyMatched
<1>1. ASSUME NEW m \in Nodes, DsCreatesPod(m) PROVE node' = node /\ bp'[n] = bp[n]
  BY <1>0, <1>1 DEF DsCreatesPod, Admitted
<1>2. ASSUME NEW m \in Nodes,
             DsRollsPod(m) \/ DsDropsPod(m) \/ ImagePulled(m) \/ PodReady(m) \/ Builder(m)
      PROVE  node'[n] = node[n] /\ bp'[n] = bp[n]
  <2>1. m # n
    BY <1>0, <1>2 DEF DsRollsPod, DsDropsPod, ImagePulled, PodReady, Builder, StandDown,
       VersionMatches, Unload, Busy, Load, Announce
  <2>2. \/ bp' = [bp EXCEPT ![m] = NoPod] /\ UNCHANGED node
        \/ (\E l \in Steps : Goto(m, l)) /\ UNCHANGED node
        \/ Exit(m) /\ UNCHANGED node
        \/ /\ Goto(m, "marked") \/ Exit(m)
           /\ UNCHANGED node \/ \E mode \in {"host", "container"} : SetLabels(m, mode)
    BY <1>2 DEF DsRollsPod, DsDropsPod, ImagePulled, PodReady, Builder, StandDown,
       VersionMatches, Unload, Busy, Load, Announce, Settle, Label, Goto, Steps
  <2> QED BY <1>0, <2>1, <2>2 DEF Goto, Exit, SetLabels
<1>3. DsReports => UNCHANGED <<node, bp>>
  BY DEF DsReports, hostVars
<1> QED BY <1>0, <1>1, <1>2, <1>3 DEF Cluster

\* Cordoning a node from a copy that agrees with the server cordons it.
LEMMA CordonCordons ==
  ASSUME NEW s \in NodeRec, NEW l \in NodeRec, s.by = l.by, s.unsched = l.unsched
  PROVE  /\ PatchNode(s, l, CordonNode(l, Cr)).unsched
         /\ PatchNode(s, l, CordonNode(l, Cr)).by = Cr
<1>1. l.unsched \in BOOLEAN
  BY DEF NodeRec
<1>2. CordonNode(l, Cr).unsched = TRUE /\ CordonNode(l, Cr).by = Cr
  BY <1>1 DEF CordonNode, NodeRec
<1> QED BY <1>1, <1>2 DEF PatchNode

\* Only rmmod takes a module away.
LEMMA OnlyUnloadUnloads ==
  ASSUME TypeOK, [Next]_vars, NEW n \in Nodes, loaded[n] # None, loaded'[n] = None
  PROVE  Unload(n)
<1>1. loaded \in [Nodes -> Versions \cup {None}]
  BY DEF TypeOK, ClusterTypes
<1>2. PICK m \in Nodes : Unload(m) \/ Load(m)
  <2>1. UNCHANGED loaded \/ Cluster
    BY HostKept DEF Next, vars, hostVars
  <2> QED BY <2>1 DEF Cluster, DsReports, DsCreatesPod, DsRollsPod, DsDropsPod, ImagePulled,
             PodReady, Builder, StandDown, VersionMatches, Busy, Announce, hostVars
<1>3. ASSUME Load(m) PROVE FALSE
  <2>1. bp[m].tmpl.version \in Versions
    BY <1>3, VersionTypes DEF Load
  <2>2. UNCHANGED loaded \/ \E v \in Versions : loaded' = [loaded EXCEPT ![m] = v]
    BY <1>3, <2>1 DEF Load
  <2> QED BY <1>1, <2>2, DNoneFresh
<1> QED BY <1>1, <1>2, <1>3 DEF Unload

\* The steps of the reconcile preserve it.
LEMMA SwapReconcile ==
  ASSUME TypeOK, LoadedAsRendered, TargetRolled, DrainAlways, Undisturbed, Undisturbed',
         InService, OnlyMatched, Prepared, Returned, Reconcile
  PROVE  InService' /\ OnlyMatched' /\ Prepared' /\ Returned'
<1>0. /\ node \in [Nodes -> NodeRec] /\ snap \in [Nodes -> NodeRec] /\ todo \subseteq Nodes
      /\ pc \in {"gate", "evict", "ungate"} => target \in Nodes
      /\ Matched \subseteq Nodes
  BY DMatchedType DEF TypeOK, ClusterTypes, ReconcileTypes
<1>1. UNCHANGED <<bp, loaded>>
  BY HostKept DEF hostVars
<1>2. ASSUME UNCHANGED ds,
             \A n \in Nodes : /\ node'[n].by = node[n].by
                              /\ node'[n].unsched = node[n].unsched
                              /\ node'[n].skip = node[n].skip
                              /\ node'[n].kmd \in {node[n].kmd, None}
      PROVE  InService' /\ OnlyMatched'
  <2>1. InService'
    BY <1>1, <1>2 DEF InService, Cordoned, AtDs, PodCurrent
  <2>2. OnlyMatched'
    BY <1>1, <1>2 DEF OnlyMatched
  <2> QED BY <2>1, <2>2
<1>3. ASSUME UNCHANGED <<ds, node>>, pc' \in {"idle", "populate", "publish", "cleanup"}
      PROVE  InService' /\ OnlyMatched' /\ Prepared' /\ Returned'
  BY <1>2, <1>3 DEF Prepared, Returned
<1>4. \A n \in Matched : node[n].skip # "true"
  BY <1>0, DNoneFresh DEF OnlyMatched
<1>5. CASE Start
  <2>1. UNCHANGED <<ds, node>>
    BY <1>5 DEF Start, dsVars
  <2>2. spec.drain /\ spec.podSelectorLabel # "malformed"
    BY DEF DrainAlways, TypeOK, PolicyTypes
  <2>3. /\ pc' \in {"populate", "create", "cordon"} /\ (pc' = "create" => ds = None)
        /\ pc' = "cordon" => todo' = Matched /\ snap' = IF Matched = {} THEN NoCopies ELSE node
    <3>1. listMatchedNodes(node) = Matched
      BY <1>4 DEF listMatchedNodes
    <3> QED BY <1>5, <2>2, <3>1 DEF Start
  <2>4. Prepared'
    BY <2>1, <2>3 DEF Prepared
  <2>5. Returned'
    BY <2>3 DEF Returned
  <2> QED BY <1>2, <2>1, <2>4, <2>5
<1>6. CASE Create
  <2>1. CASE pc' = "idle" /\ UNCHANGED <<ds, node>>
    BY <1>3, <2>1
  <2>2. CASE pc' = "populate" /\ UNCHANGED node
    <3>1. ds = None
      BY <1>6 DEF Create, Prepared
    <3>2. \A n \in Nodes \ Host : Cordoned(n) \/ (node[n].kmd = None /\ bp[n].step = "none")
      BY <3>1 DEF InService, AtDs, PodCurrent
    <3>3. InService'
      BY <1>1, <2>2, <3>2 DEF InService, Cordoned, PodCurrent
    <3>4. OnlyMatched'
      BY <1>1, <2>2 DEF OnlyMatched
    <3> QED BY <2>2, <3>3, <3>4 DEF Prepared, Returned
  <2> QED BY <1>6, <2>1, <2>2 DEF Create, Return, dsVars
<1>7. ASSUME NEW n \in Nodes, Cordon(n)
      PROVE  InService' /\ OnlyMatched' /\ Prepared' /\ Returned'
  <2> DEFINE patched == PatchNode(node[n], snap[n], CordonNode(snap[n], Cr))
  <2>1. /\ pc = "cordon" /\ n \in todo /\ pc' = "gate" /\ target' = n /\ UNCHANGED <<ds, todo>>
        /\ node' = [node EXCEPT ![n] = patched]
        /\ snap' = [snap EXCEPT ![n] = IF CordonNode(snap[n], Cr) = snap[n] THEN snap[n]
                                       ELSE patched]
    BY <1>7 DEF Cordon, Fault, Undisturbed, dsVars
  <2>2. patched.kmd = node[n].kmd /\ patched.skip = node[n].skip
    BY DEF PatchNode
  <2>3. snap[n].by = node[n].by /\ snap[n].unsched = node[n].unsched
    BY <2>1 DEF Prepared
  <2>4. patched.unsched /\ patched.by = Cr
    BY <1>0, <2>3, CordonCordons
  <2>5. CordonNode(snap[n], Cr) = snap[n] => patched.by = node[n].by /\ patched.unsched = node[n].unsched
    BY DEF PatchNode
  <2> HIDE DEF patched
  <2>6. /\ node'[n] = patched /\ \A m \in Nodes \ {n} : node'[m] = node[m]
        /\ snap'[n].by = patched.by /\ snap'[n].unsched = patched.unsched
        /\ \A m \in Nodes \ {n} : snap'[m] = snap[m]
    BY <1>0, <2>1, <2>3, <2>5
  <2>7. Prepared'
    BY <1>0, <2>1, <2>4, <2>6 DEF Prepared, Cordoned
  <2>8. InService' /\ OnlyMatched'
    BY <1>1, <2>1, <2>2, <2>4, <2>6 DEF InService, OnlyMatched, Cordoned, AtDs, PodCurrent
  <2> QED BY <2>1, <2>7, <2>8 DEF Returned
<1>8. CASE FlipGates \/ RemoveGates
  <2>1. /\ pc \in {"gate", "ungate"} /\ target \in Nodes /\ UNCHANGED <<ds, snap>>
        /\ pc = "gate" => pc' = "evict" /\ UNCHANGED <<todo, target>>
        /\ pc = "ungate" => pc' = "uncordon" /\ todo' \subseteq todo
    BY <1>0, <1>8 DEF FlipGates, RemoveGates, dsVars
  <2>2. ASSUME NEW g \in BOOLEAN,
               node' = [node EXCEPT ![target] = PatchNode(node[target], snap[target],
                                                   [snap[target] EXCEPT !.gate = g])]
        PROVE  \A n \in Nodes : /\ node'[n].by = node[n].by /\ node'[n].unsched = node[n].unsched
                                /\ node'[n].skip = node[n].skip /\ node'[n].kmd = node[n].kmd
    <3> DEFINE patched == PatchNode(node[target], snap[target], [snap[target] EXCEPT !.gate = g])
    <3>1. /\ patched.by = node[target].by /\ patched.unsched = node[target].unsched
          /\ patched.skip = node[target].skip /\ patched.kmd = node[target].kmd
      BY <1>0, <2>1 DEF PatchNode, NodeRec
    <3> HIDE DEF patched
    <3>2. node'[target] = patched /\ \A n \in Nodes \ {target} : node'[n] = node[n]
      BY <1>0, <2>1, <2>2 DEF patched
    <3> QED BY <3>1, <3>2
  <2>3. node' = node \/ \E g \in BOOLEAN :
          node' = [node EXCEPT ![target] =
                     PatchNode(node[target], snap[target], [snap[target] EXCEPT !.gate = g])]
    BY <1>8 DEF FlipGates, RemoveGates
  <2>4. \A n \in Nodes : /\ node'[n].by = node[n].by /\ node'[n].unsched = node[n].unsched
                         /\ node'[n].skip = node[n].skip /\ node'[n].kmd = node[n].kmd
    <3>1. CASE node' = node
      BY <3>1
    <3> QED BY <2>2, <2>3, <3>1
  <2>5. Prepared'
    BY <1>0, <2>1, <2>4 DEF Prepared, Cordoned
  <2>6. Returned'
    BY <1>1, <2>1 DEF Returned, AtDs, PodCurrent
  <2> QED BY <1>2, <2>1, <2>4, <2>5, <2>6
<1>9. CASE Evict
  <2>1. /\ pc = "evict" /\ pc' = "cordon" /\ todo' = todo \ {target}
        /\ UNCHANGED <<ds, node, snap>>
    BY <1>9 DEF Evict, dsVars
  <2>2. Prepared'
    BY <2>1 DEF Prepared, Cordoned
  <2> QED BY <1>2, <2>1, <2>2 DEF Returned
<1>10. CASE UpdateDs
  <2>1. CASE pc' = "idle" /\ UNCHANGED <<ds, node>>
    BY <1>3, <2>1
  <2>2. CASE pc' = "populate" /\ UNCHANGED node
    <3>1. \A n \in Nodes : Cordoned(n) \/ (node[n].kmd = None /\ bp[n].step = "none")
      BY <1>10 DEF UpdateDs, Prepared, OnlyMatched
    <3>2. InService'
      BY <1>1, <2>2, <3>1 DEF InService, Cordoned, PodCurrent
    <3>3. OnlyMatched'
      BY <1>1, <2>2 DEF OnlyMatched
    <3> QED BY <2>2, <3>2, <3>3 DEF Prepared, Returned
  <2> QED BY <1>10, <2>1, <2>2 DEF UpdateDs, Return
<1>11. CASE PopulateNodeStatuses \/ Publish
  BY <1>3, <1>11 DEF PopulateNodeStatuses, Publish, Return, dsVars
<1>12. ASSUME NEW n \in Nodes, CleanLabel(n)
       PROVE  InService' /\ OnlyMatched' /\ Prepared' /\ Returned'
  <2>1. pc = "cleanup" /\ pc' = "cleanup" /\ UNCHANGED ds
    BY <1>12 DEF CleanLabel, dsVars
  <2>2. \A m \in Nodes : /\ node'[m].by = node[m].by /\ node'[m].unsched = node[m].unsched
                         /\ node'[m].skip = node[m].skip
                         /\ node'[m].kmd \in {node[m].kmd, None}
    BY <1>0, <1>12 DEF CleanLabel, NodeRec
  <2> QED BY <1>2, <2>1, <2>2 DEF Prepared, Returned
<1>13. CASE ListReady
  <2>1. CASE pc' = "idle"
    BY <1>3, <1>13, <2>1 DEF ListReady, dsVars
  <2>2. CASE pc' = "uncordon" /\ todo' \subseteq ReadyAtTarget(rspec.version)
    <3>1. pc = "cleanup" /\ UNCHANGED <<ds, node>>
      BY <1>13 DEF ListReady, dsVars
    <3>2. \A n \in todo' \ Host : AtDs(n)
      BY <2>2, <3>1 DEF ReadyAtTarget, TargetRolled, AfterUpdate, LoadedAsRendered, AtDs, PodCurrent
    <3>3. Returned'
      BY <1>1, <3>1, <3>2 DEF Returned, AtDs, PodCurrent
    <3> QED BY <1>2, <2>2, <3>1, <3>3 DEF Prepared
  <2> QED BY <1>13, <2>1, <2>2 DEF ListReady, Return
<1>14. ASSUME NEW n \in Nodes, Uncordon(n)
       PROVE  InService' /\ OnlyMatched' /\ Prepared' /\ Returned'
  <2>1. pc = "uncordon" /\ pc' \in {"uncordon", "ungate"} /\ n \in todo /\ todo' \subseteq todo
        /\ UNCHANGED ds
    BY <1>14 DEF Uncordon, dsVars
  <2>2. node' = node \/ node' = [node EXCEPT ![n] =
                          PatchNode(node[n], snap[n], UncordonNode(snap[n], Cr))]
    BY <1>14 DEF Uncordon
  <2>3. /\ \A m \in Nodes \ {n} : node'[m] = node[m]
        /\ node'[n].kmd = node[n].kmd /\ node'[n].skip = node[n].skip
    BY <1>0, <2>2 DEF PatchNode
  <2>4. \A m \in Nodes : AtDs(m) => AtDs(m)'
    BY <1>1, <2>1 DEF AtDs, PodCurrent
  <2>5. n \notin Host => AtDs(n)
    BY <2>1 DEF Returned
  <2>6. InService'
    BY <1>1, <2>1, <2>3, <2>4, <2>5 DEF InService, Cordoned, PodCurrent
  <2>7. OnlyMatched'
    BY <1>1, <2>3 DEF OnlyMatched
  <2>8. Returned'
    BY <1>0, <2>1, <2>4 DEF Returned
  <2> QED BY <2>1, <2>6, <2>7, <2>8 DEF Prepared
<1>15. CASE Finish
  BY <1>3, <1>15 DEF Finish, Return, dsVars
<1> QED BY <1>5, <1>6, <1>7, <1>8, <1>9, <1>10, <1>11, <1>12, <1>13, <1>14, <1>15
        DEF Reconcile

\* No step breaks it.
LEMMA SwapStep ==
  ASSUME TypeOK, LoadedAsRendered, TargetRolled, SwapInv, [Next]_vars
  PROVE  SwapInv'
<1> SUFFICES ASSUME DrainAlways, Undisturbed'
             PROVE  InService' /\ OnlyMatched' /\ Prepared' /\ Returned'
  BY DEF SwapInv, DrainAlways
<1>1. Undisturbed /\ InService /\ OnlyMatched /\ Prepared /\ Returned
  BY FaultsGrow DEF Undisturbed, SwapInv
<1>2. CASE Reconcile
  BY <1>1, <1>2, SwapReconcile
<1>3. CASE Cluster
  <2>1. /\ UNCHANGED <<pc, todo, snap, target, ds>>
        /\ \A n \in Nodes : /\ node'[n].by = node[n].by
                            /\ node'[n].unsched = node[n].unsched
                            /\ node'[n].skip = node[n].skip
    BY <1>3, CordonsKept DEF localVars
  <2>2. InService'
    <3> SUFFICES ASSUME NEW n \in Nodes \ Host
                 PROVE  Cordoned(n)' \/ AtDs(n)' \/ (node'[n].kmd = None /\ PodCurrent(n)')
      BY DEF InService
    <3> QED BY <1>1, <1>3, <2>1, ClusterKeepsVersions DEF InService, Cordoned
  <2>3. OnlyMatched'
    BY <1>1, <1>3, <2>1, OnlyMatchedStep DEF OnlyMatched
  <2>4. Prepared'
    <3>1. todo \subseteq Nodes /\ Matched \subseteq Nodes
          /\ (pc \in {"gate", "evict"} => target \in Nodes)
      BY DMatchedType DEF TypeOK, ReconcileTypes
    <3> QED BY <1>1, <2>1, <3>1 DEF Prepared, Cordoned
  <2>5. Returned'
    <3>1. todo \subseteq Nodes
      BY DEF TypeOK, ReconcileTypes
    <3> QED BY <1>1, <1>3, <2>1, <3>1, ClusterKeepsVersions DEF Returned
  <2> QED BY <2>2, <2>3, <2>4, <2>5
<1>4. CASE Workloads \/ Users \/ UNCHANGED vars
  <2>1. UNCHANGED <<pc, todo, snap, target, ds, bp, loaded, node>>
    BY <1>4, HostKept DEF Workloads, PodStarts, PodGatedOff, PodRemoved, Users, EditSpec,
       DeletePolicy, HumanCordon, SetSkip, Fault, Undisturbed, vars, localVars, dsVars, hostVars
  <2> QED BY <1>1, <2>1 DEF InService, OnlyMatched, Prepared, Returned, Cordoned, AtDs, PodCurrent
<1> QED BY <1>2, <1>3, <1>4 DEF Next

\* An upgrade takes the module out from under nobody, for any nodes, versions and
\* templates, and whatever crashes, fails to build, loads a wrong version or loses a
\* label or a write: a module that its node announces is only unloaded under the
\* policy's cordon, unless a cordon failed, people intervened or the policy was created
\* over what a deleted one had left, which SwapOutOfService names.  The one way around it
\* in the policy itself is a paused return to an earlier version, which the hypothesis
\* excludes.  Every read of the model is current.
THEOREM SwapsAreOutOfService == PausesKeepTarget => (Spec => SwapOutOfService)
<1> SUFFICES ASSUME PausesKeepTarget PROVE Spec => SwapOutOfService
  OBVIOUS
<1>1. TypeOK /\ LoadedAsRendered /\ TargetRolled /\ SwapInv /\ [Next]_vars => SwapInv'
  BY SwapStep
<1>2. TypeOK /\ LoadedAsRendered /\ SwapInv /\ [Next]_vars =>
        [/\ DrainAlways /\ faults \cap {"cordon", "human", "skip", "recreate"} = {}
         => \A n \in Nodes :
              node[n].kmd = loaded[n] /\ loaded[n] # None /\ loaded'[n] = None =>
                node[n].unsched /\ node[n].by = Cr]_vars
  <2> SUFFICES ASSUME TypeOK, LoadedAsRendered, SwapInv, [Next]_vars, DrainAlways, Undisturbed,
                      NEW n \in Nodes, node[n].kmd = loaded[n], loaded[n] # None,
                      loaded'[n] = None
               PROVE  Cordoned(n)
    BY DEF Undisturbed, Cordoned
  <2>1. Unload(n)
    BY OnlyUnloadUnloads
  <2>2. n \notin Host /\ bp[n].step = "start" /\ loaded[n] # bp[n].tmpl.version
    BY <2>1 DEF Unload
  <2> QED BY <2>2 DEF SwapInv, InService, AtDs, PodCurrent
<1> QED BY <1>1, <1>2, SwapInit, LoadedInductive, TargetInvariant, PTL
        DEF Spec, SwapOutOfService
=============================================================================
