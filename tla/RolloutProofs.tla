--------------------------- MODULE RolloutProofs ---------------------------
(***************************************************************************)
(* The controller implements the abstract rollout, no two flashes of one   *)
(* node overlap, and haltOnFailure bounds the nodes a bad bundle reaches.  *)
(***************************************************************************)
EXTENDS OwnershipProofs

\* No edit of a CR changes its version.
FixedVersions == \A e \in Edits : e[1].version = e[2].version

\* Each CR flashes one node at a time, and its Job reads are true.
OneSlot == TrueJobReads /\ \A c \in Crs : maxParallel(c) = 1

\* What keeps the flashes of one CR on one node apart: Jobs are named by version, so
\* only the slot, or a version that stays, stops an edit from starting a second one.
NoOverlap == FixedVersions \/ OneSlot

\* le is an order on the versions in which the edits of a CR only go forward.
Forward(le) ==
  /\ \A v \in Versions : <<v, v>> \in le
  /\ \A u, v, w \in Versions : <<u, v>> \in le /\ <<v, w>> \in le => <<u, w>> \in le
  /\ \A v, w \in Versions : <<v, w>> \in le /\ <<w, v>> \in le => v = w
  /\ \A e \in Edits : <<e[1].version, e[2].version>> \in le

-----------------------------------------------------------------------------
(* What a step may change. *)

\* Other steps than Spawn leave the Jobs alone, end one or drop one.
LEMMA OnlyTheseEndJobs ==
  ASSUME [Next]_vars, ~Spawn
  PROVE  \/ UNCHANGED job
         \/ \E c \in Crs, n \in Nodes, v \in Versions :
              JobSucceeds(c, n, v) \/ JobFails(c, n, v) \/ JobExpires(c, n, v)
              \/ CollectJob(c, n, v)
<1>1. CASE UNCHANGED vars
  BY <1>1 DEF vars
<1>2. CASE Reconcile
  BY <1>2 DEF Reconcile, Start, Observe, SkipFull, Claim, CountJobs, Cordon, Evict,
              Uncordon, Publish, Abandon
<1>3. CASE Environment
  BY <1>3 DEF Environment, SyncNodes, SyncJobs, SyncPods, DeleteCr, EditSpec,
     HumanCordon, HumanUncordon, ToggleSkip, DrainDeadline, PodStarts, PodFinishes,
     PodRemoved
<1> QED BY <1>1, <1>2, <1>3 DEF Next

\* So they create none and start none again.
LEMMA JobsOnlyEnd ==
  ASSUME TypeOK, [Next]_vars, ~Spawn
  PROVE  \A k \in JobKeys : /\ job'[k] # "none" => job[k] # "none"
                            /\ job'[k] = "running" => job[k] = "running"
<1>1. ASSUME NEW c \in Crs, NEW n \in Nodes, NEW v \in Versions,
             JobSucceeds(c, n, v) \/ JobFails(c, n, v) \/ JobExpires(c, n, v)
             \/ CollectJob(c, n, v),
             NEW k \in JobKeys
      PROVE  /\ job'[k] # "none" => job[k] # "none"
             /\ job'[k] = "running" => job[k] = "running"
  <2>1. job \in [JobKeys -> JobStates] /\ <<c, n, v>> \in JobKeys
    BY DEF TypeOK, ObjectTypes, JobKeys
  <2> QED BY <1>1, <2>1 DEF JobSucceeds, JobFails, JobExpires, CollectJob
<1> QED BY <1>1, OnlyTheseEndJobs

\* Spawn creates its own Job or none.
LEMMA SpawnsOneJob ==
  ASSUME TypeOK, Spawn
  PROVE  /\ FlashJob \in JobKeys /\ cur \in Crs /\ target \in Nodes
         /\ rspec.version \in Versions
         /\ \A k \in JobKeys : k # FlashJob => job'[k] = job[k]
         /\ job'[FlashJob] # job[FlashJob] =>
              job[FlashJob] = "none" /\ job'[FlashJob] = "running"
<1>1. cur \in Crs /\ target \in Nodes /\ rspec.version \in Versions
  BY SpecsType DEF Spawn, TypeOK, ReadTypes, LoopTypes, SpecRec
<1>2. FlashJob \in JobKeys
  BY <1>1 DEF FlashJob, JobKeys
<1>3. job \in [JobKeys -> JobStates]
  BY DEF TypeOK, ObjectTypes
<1> QED BY <1>1, <1>2, <1>3 DEF Spawn

\* The environment does not touch the locals of a reconcile.
LEMMA EnvironmentKeepsLocals ==
  ASSUME Environment
  PROVE  UNCHANGED localVars
BY DEF Environment, SyncNodes, SyncJobs, SyncPods, JobSucceeds, JobFails, JobExpires,
       CollectJob, DeleteCr, EditSpec, HumanCordon, HumanUncordon, ToggleSkip,
       DrainDeadline, PodStarts, PodFinishes, PodRemoved

\* Only a user edits a spec.
LEMMA OnlyEditsChangeSpecs ==
  ASSUME [Next]_vars
  PROVE  UNCHANGED spec \/ (\E c \in Crs : EditSpec(c))
<1>1. CASE UNCHANGED vars
  BY <1>1 DEF vars, crVars
<1>2. CASE Reconcile
  BY <1>2 DEF Reconcile, Start, Observe, SkipFull, Claim, CountJobs, Cordon, Evict, Spawn,
              Uncordon, Publish, Abandon, crVars
<1>3. CASE Environment
  BY <1>3 DEF Environment, SyncNodes, SyncJobs, SyncPods, JobSucceeds, JobFails, JobExpires,
     CollectJob, DeleteCr, HumanCordon, HumanUncordon, ToggleSkip, DrainDeadline, PodStarts,
     PodFinishes, PodRemoved, crVars
<1> QED BY <1>1, <1>2, <1>3 DEF Next

\* A reconcile keeps the CR and the spec it read until it returns.
LEMMA ReadsStay ==
  ASSUME [Next]_vars
  PROVE  \/ \E c \in Crs : Start(c)
         \/ pc' = "idle"
         \/ cur' = cur /\ rspec' = rspec /\ pc # "idle"
<1>1. CASE UNCHANGED vars
  BY <1>1 DEF vars, localVars, readVars
<1>2. CASE Reconcile
  BY <1>2 DEF Reconcile, Observe, SkipFull, Claim, CountJobs, Cordon, Evict, Spawn,
              Uncordon, Publish, Abandon, Return, NodeVisited, readVars
<1>3. CASE Environment
  BY <1>3, EnvironmentKeepsLocals DEF localVars, readVars
<1> QED BY <1>1, <1>2, <1>3 DEF Next

\* After its observation a node's state only changes by a flash that starts or an
\* eviction that is refused.
LEMMA FindingsStay ==
  ASSUME TypeOK, [Next]_vars, pc' # "idle",
         \A c \in Crs : ~Start(c), \A m \in Nodes : ~Observe(m), NEW n \in Nodes
  PROVE  \/ ns'[n] = ns[n]
         \/ ns'[n] = Is("Flashing", "Flashing")
         \/ ns'[n].state = "Draining" /\ ns'[n].reason = "EvictionBlocked"
<1>1. ns \in [Nodes -> NodeStatus]
  BY DEF TypeOK, LoopTypes
<1>2. CASE Evict
  <2>1. target \in Nodes /\ ns[target].state = "Draining"
    BY <1>2 DEF Evict, TypeOK, LoopTypes
  <2>2. ns' = ns \/ ns' = [ns EXCEPT ![target] = [ns[target] EXCEPT !.reason = "EvictionBlocked"]]
    BY <1>2 DEF Evict
  <2>3. ns[target] \in NodeStatus
    BY <1>1, <2>1
  <2> QED BY <1>1, <2>1, <2>2, <2>3 DEF NodeStatus
<1>3. CASE Spawn
  <2>1. ns' = ns \/ ns' = [ns EXCEPT ![target] = Is("Flashing", "Flashing")]
    BY <1>3 DEF Spawn
  <2> QED BY <1>1, <2>1
<1>4. CASE Environment \/ UNCHANGED vars
  BY <1>4, EnvironmentKeepsLocals DEF vars, localVars
<1>5. CASE CountJobs \/ Cordon \/ Uncordon \/ \E m \in Nodes : SkipFull(m) \/ Claim(m)
  BY <1>5 DEF CountJobs, Cordon, Uncordon, SkipFull, Claim
<1>6. CASE Publish \/ Abandon
  BY <1>6 DEF Publish, Abandon, Return
<1> QED BY <1>2, <1>3, <1>4, <1>5, <1>6 DEF Next, Reconcile

\* A node changes hands at most once, to the CR that claims it.
LEMMA ClaimsAreForGood ==
  ASSUME OwnInv, [Next]_vars, NEW n \in Nodes
  PROVE  \/ node'[n].owner = node[n].owner
         \/ Claim(n) /\ node[n].owner = None /\ node'[n].owner = cur /\ cur \in Crs
<1>1. TypeOK /\ ClaimsAreCurrent /\ node \in [Nodes -> NodeRec] /\ snap \in [Nodes -> NodeRec]
  BY DEF OwnInv, TypeOK, ObjectTypes, LoopTypes
<1>2. ASSUME NEW m \in Nodes, Claim(m)
      PROVE  \/ node'[n].owner = node[n].owner
             \/ Claim(n) /\ node[n].owner = None /\ node'[n].owner = cur /\ cur \in Crs
  <2> DEFINE new == [snap[m] EXCEPT !.owner = cur]
             r == MergePatch(node[m], snap[m], new)
  <2>1. /\ m \in todo /\ cur \in Crs
        /\ snap[m].owner = node[m].owner /\ snap[m].owner \in {None, cur}
    BY <1>1, <1>2 DEF Claim, TypeOK, ReadTypes, ClaimsAreCurrent
  <2>2. UNCHANGED node \/ (snap[m].owner # cur /\ node' = [node EXCEPT ![m] = r])
    BY <1>2 DEF Claim
  <2>3. snap[m].owner # cur => r.owner = cur
    BY <1>1, <2>1, ClaimPatch
  <2> HIDE DEF r
  <2> QED BY <1>1, <1>2, <2>1, <2>2, <2>3
<1>3. CASE Cordon \/ Uncordon
  <2>1. target \in Nodes /\ cur \in Crs
    BY <1>1, <1>3 DEF Cordon, Uncordon, TypeOK, ReadTypes, LoopTypes
  <2>2. CASE UNCHANGED node
    BY <2>2
  <2>3. CASE node' = [node EXCEPT ![target] =
               MergePatch(node[target], snap[target], CordonNode(snap[target], cur))]
    BY <1>1, <2>1, <2>3, CordonPatch
  <2>4. CASE node' = [node EXCEPT ![target] =
               MergePatch(node[target], snap[target], UncordonNode(snap[target], cur))]
    BY <1>1, <2>1, <2>4, UncordonPatch
  <2> QED BY <1>3, <2>2, <2>3, <2>4 DEF Cordon, Uncordon
<1>4. CASE Publish
  <2>1. PICK labelled : node' = [x \in Nodes |-> IF x \in labelled
                                THEN [node[x] EXCEPT !.fwver = rspec.version]
                                ELSE node[x]]
    BY <1>4 DEF Publish
  <2> QED BY <1>1, <2>1 DEF NodeRec
<1>5. CASE Environment
  BY <1>1, <1>5, EnvironmentKeepsOwners DEF KeepOwners
<1>6. CASE UNCHANGED vars
  BY <1>6 DEF vars
<1>7. CASE Reconcile /\ ~Publish /\ ~Cordon /\ ~Uncordon /\ \A m \in Nodes : ~Claim(m)
  BY <1>7 DEF Reconcile, Start, Observe, SkipFull, CountJobs, Evict, Spawn, Abandon
<1> QED BY <1>2, <1>3, <1>4, <1>5, <1>6, <1>7 DEF Next, Reconcile

-----------------------------------------------------------------------------
(* Versions only go forward. *)

\* No Job, and no spec a reconcile has read, is newer than the CR's spec; and no Job is
\* newer than the spec read by the reconcile that may create one.
VersionInv(le) ==
  /\ TypeOK
  /\ \A k \in JobKeys : job[k] # "none" => <<k[3], spec[k[1]].version>> \in le
  /\ pc # "idle" =>
       /\ <<rspec.version, spec[cur].version>> \in le
       /\ \A k \in JobKeys : k[1] = cur /\ job[k] # "none" => <<k[3], rspec.version>> \in le

\* No step takes a spec back to an earlier version.
LEMMA SpecsGoForward ==
  ASSUME NEW le, Forward(le), TypeOK, [Next]_vars, NEW c \in Crs
  PROVE  <<spec[c].version, spec'[c].version>> \in le
<1>1. spec \in [Crs -> Specs] /\ \A s \in Specs : s.version \in Versions
  BY SpecsType DEF TypeOK, CrTypes, SpecRec
<1>2. ASSUME NEW d \in Crs, EditSpec(d) PROVE <<spec[c].version, spec'[c].version>> \in le
  <2>1. PICK s \in Specs : <<spec[d], s>> \in Edits /\ spec' = [spec EXCEPT ![d] = s]
    BY <1>2 DEF EditSpec
  <2>2. <<spec[d].version, s.version>> \in le
    BY <2>1 DEF Forward
  <2>3. spec'[c] = IF c = d THEN s ELSE spec[c]
    BY <1>1, <2>1
  <2>4. <<spec[c].version, spec[c].version>> \in le
    BY <1>1 DEF Forward
  <2> QED BY <2>2, <2>3, <2>4
<1>3. CASE UNCHANGED spec
  BY <1>1, <1>3 DEF Forward
<1> QED BY <1>2, <1>3, OnlyEditsChangeSpecs

\* Every step keeps it.
LEMMA VersionInvStep ==
  ASSUME NEW le, Forward(le), VersionInv(le), [Next]_vars
  PROVE  VersionInv(le)'
<1>1. TypeOK /\ TypeOK'
  BY ReconcileType, EnvironmentType, StutterType DEF VersionInv, Next
<1>2. \A s \in Specs : s.version \in Versions
  BY SpecsType DEF SpecRec
<1>3. /\ \A c \in Crs : spec[c] \in Specs /\ spec'[c] \in Specs
      /\ pc # "idle" => cur \in Crs /\ rspec \in Specs
      /\ pc' # "idle" => cur' \in Crs /\ rspec' \in Specs
  BY <1>1 DEF TypeOK, CrTypes, ReadTypes
<1>4. \A k \in JobKeys : k[1] \in Crs /\ k[3] \in Versions
  BY DEF JobKeys
<1>5. \A c \in Crs : <<spec[c].version, spec'[c].version>> \in le
  BY <1>1, SpecsGoForward
<1>6. \A k \in JobKeys :
        job'[k] # "none" => \/ job[k] # "none"
                            \/ Spawn /\ k[1] = cur /\ k[3] = rspec.version /\ pc # "idle"
  <2>1. CASE ~Spawn
    BY <1>1, <2>1, JobsOnlyEnd
  <2>2. CASE Spawn
    <3>1. FlashJob[1] = cur /\ FlashJob[3] = rspec.version /\ pc # "idle"
      BY <2>2 DEF FlashJob, Spawn
    <3> QED BY <1>1, <2>2, <3>1, SpawnsOneJob
  <2> QED BY <2>1, <2>2
<1>7. ASSUME NEW k \in JobKeys, job'[k] # "none"
      PROVE  <<k[3], spec'[k[1]].version>> \in le
  <2>1. <<k[3], spec[k[1]].version>> \in le
    BY <1>6, <1>7 DEF VersionInv
  <2>2. <<spec[k[1]].version, spec'[k[1]].version>> \in le
    BY <1>4, <1>5
  <2>3. /\ k[3] \in Versions /\ spec[k[1]].version \in Versions
        /\ spec'[k[1]].version \in Versions
    BY <1>2, <1>3, <1>4
  <2> QED BY <2>1, <2>2, <2>3 DEF Forward
<1>8. ASSUME pc' # "idle"
      PROVE  /\ <<rspec'.version, spec'[cur'].version>> \in le
             /\ \A k \in JobKeys :
                  k[1] = cur' /\ job'[k] # "none" => <<k[3], rspec'.version>> \in le
  <2>1. ASSUME NEW c \in Crs, Start(c)
        PROVE  /\ <<rspec'.version, spec'[cur'].version>> \in le
               /\ \A k \in JobKeys :
                    k[1] = cur' /\ job'[k] # "none" => <<k[3], rspec'.version>> \in le
    <3>1. cur' = c /\ rspec' = spec[c] /\ UNCHANGED <<spec, job>>
      BY <2>1 DEF Start, crVars
    <3> QED BY <1>2, <1>3, <3>1 DEF Forward, VersionInv
  <2>2. CASE cur' = cur /\ rspec' = rspec /\ pc # "idle"
    <3>1. <<rspec.version, spec[cur].version>> \in le
      BY <2>2 DEF VersionInv
    <3>2. <<spec[cur].version, spec'[cur].version>> \in le
      BY <1>3, <1>5, <2>2
    <3>3. <<rspec.version, spec'[cur].version>> \in le
      BY <1>2, <1>3, <2>2, <3>1, <3>2 DEF Forward
    <3>4. ASSUME NEW k \in JobKeys, k[1] = cur, job'[k] # "none"
          PROVE  <<k[3], rspec.version>> \in le
      <4>1. CASE job[k] # "none"
        BY <2>2, <3>4, <4>1 DEF VersionInv
      <4>2. CASE k[3] = rspec.version
        BY <1>2, <1>3, <2>2, <4>2 DEF Forward
      <4> QED BY <1>6, <3>4, <4>1, <4>2
    <3> QED BY <2>2, <3>3, <3>4
  <2> QED BY <1>8, <2>1, <2>2, ReadsStay
<1> QED BY <1>1, <1>7, <1>8 DEF VersionInv

\* It holds from the start.
LEMMA VersionInvInit == ASSUME NEW le, Init PROVE VersionInv(le)
BY InitType DEF Init, VersionInv

Same == {<<v, v>> : v \in Versions}

\* Versions that stay are ordered by equality.
LEMMA SameIsForward == ASSUME FixedVersions PROVE Forward(Same)
<1>1. \A e \in Edits : e[1].version \in Versions /\ e[1].version = e[2].version
  BY EditsType, SpecsType DEF FixedVersions, SpecRec
<1> QED BY <1>1 DEF Forward, Same

\* Where edits keep the version, so do Jobs.
LEMMA VersionInvariant == FixedVersions => (Spec => []VersionInv(Same))
<1> SUFFICES ASSUME FixedVersions PROVE Spec => []VersionInv(Same) OBVIOUS
<1>1. Init => VersionInv(Same)
  BY VersionInvInit
<1>2. VersionInv(Same) /\ [Next]_vars => VersionInv(Same)'
  BY SameIsForward, VersionInvStep
<1> QED BY <1>1, <1>2, PTL DEF Spec

\* So every Job of a CR is of its one version, and so is the spec a reconcile has read.
LEMMA OneVersion ==
  ASSUME VersionInv(Same)
  PROVE  /\ \A k \in JobKeys : job[k] # "none" => k[3] = spec[k[1]].version
         /\ pc # "idle" => rspec.version = spec[cur].version
BY DEF VersionInv, Same

-----------------------------------------------------------------------------
(* No two flashes of one node overlap. *)

\* A finite set of at most one element has no two.
LEMMA AtMostOne ==
  ASSUME NEW S, IsFiniteSet(S), Cardinality(S) <= 1, NEW x \in S, NEW y \in S
  PROVE  x = y
<1>1. Cardinality(S) \in Nat
  BY FS_CardinalityType
<1>2. Cardinality(S) # 0
  BY FS_EmptySet
<1>3. Cardinality(S) = 1
  BY <1>1, <1>2
<1>4. \E z : S = {z}
  BY <1>3, FS_Singleton
<1> QED BY <1>4

\* And a set that has no two elements has at most one.
LEMMA NoTwo ==
  ASSUME NEW S, \A x, y \in S : x = y
  PROVE  Cardinality(S) <= 1
<1>1. CASE S = {}
  BY <1>1, FS_EmptySet
<1>2. CASE S # {}
  <2>1. PICK x : x \in S
    BY <1>2
  <2>2. S = {x}
    BY <2>1
  <2> QED BY <2>2, FS_Singleton
<1> QED BY <1>1, <1>2

\* Two unfinished Jobs on one node are of one CR, and so are one.
FlashesApart ==
  \A n \in Nodes, c, d \in Crs, v, w \in Versions :
    job[<<c, n, v>>] = "running" /\ job[<<d, n, w>>] = "running" => c = d /\ v = w

\* The slot keeps a CR's own flashes of a node apart.
LEMMA ApartIfOneSlot ==
  ASSUME OneSlot, OwnInv, SlotInv
  PROVE  FlashesApart
<1> SUFFICES ASSUME NEW n \in Nodes, NEW c \in Crs, NEW d \in Crs,
                    NEW v \in Versions, NEW w \in Versions,
                    job[<<c, n, v>>] = "running", job[<<d, n, w>>] = "running"
             PROVE  c = d /\ v = w
  BY DEF FlashesApart
<1>1. c = d
  BY DEF OwnInv, FlasherOwnsNode
<1>2. Cardinality(InFlightJobs(c, job)) <= 1
  BY DEF SlotInv, ParallelismBound, OneSlot, countInFlightJobs
<1>3. <<n, v>> \in InFlightJobs(c, job) /\ <<n, w>> \in InFlightJobs(c, job)
  BY <1>1 DEF InFlightJobs
<1>4. <<n, v>> = <<n, w>>
  BY <1>2, <1>3, InFlightFinite, AtMostOne
<1> QED BY <1>1, <1>4

\* So does a version that stays.
LEMMA ApartIfFixed ==
  ASSUME OwnInv, VersionInv(Same)
  PROVE  FlashesApart
<1> SUFFICES ASSUME NEW n \in Nodes, NEW c \in Crs, NEW d \in Crs,
                    NEW v \in Versions, NEW w \in Versions,
                    job[<<c, n, v>>] = "running", job[<<d, n, w>>] = "running"
             PROVE  c = d /\ v = w
  BY DEF FlashesApart
<1>1. c = d
  BY DEF OwnInv, FlasherOwnsNode
<1>2. <<c, n, v>> \in JobKeys /\ <<d, n, w>> \in JobKeys
  BY DEF JobKeys
<1>3. v = spec[c].version /\ w = spec[d].version
  BY <1>2, OneVersion
<1> QED BY <1>1, <1>3

\* Which is one flash per node.
LEMMA ApartIsOne == ASSUME FlashesApart PROVE OneFlashPerNode
<1> SUFFICES ASSUME NEW n \in Nodes
             PROVE  Cardinality({cv \in Crs \X Versions :
                                   job[<<cv[1], n, cv[2]>>] = "running"}) <= 1
  BY DEF OneFlashPerNode
<1> DEFINE S == {cv \in Crs \X Versions : job[<<cv[1], n, cv[2]>>] = "running"}
<1>1. ASSUME NEW x \in S, NEW y \in S PROVE x = y
  BY DEF FlashesApart
<1> HIDE DEF S
<1>2. Cardinality(S) <= 1
  BY <1>1, NoTwo
<1> QED BY <1>2 DEF S

\* Never two flashes of one node at a time, of two CRs or of two versions: with
\* current node reads, and for each CR one slot or one version, whatever fails.
THEOREM FlashesNeverOverlap ==
  CurrentNodeReads /\ NoOverlap => (Spec => []OneFlashPerNode)
<1> SUFFICES ASSUME CurrentNodeReads, NoOverlap PROVE Spec => []OneFlashPerNode OBVIOUS
<1>1. CASE OneSlot
  <2>1. OwnInv /\ SlotInv => OneFlashPerNode
    BY <1>1, ApartIfOneSlot, ApartIsOne
  <2>2. TrueJobReads
    BY <1>1 DEF OneSlot
  <2> QED BY <2>1, <2>2, OwnInvariant, SlotInvariant, PTL
<1>2. CASE FixedVersions
  <2>1. OwnInv /\ VersionInv(Same) => OneFlashPerNode
    BY ApartIfFixed, ApartIsOne
  <2> QED BY <1>2, <2>1, OwnInvariant, VersionInvariant, PTL
<1> QED BY <1>1, <1>2 DEF NoOverlap

-----------------------------------------------------------------------------
(* The controller implements the abstract rollout. *)

\* The owners and the Jobs start as the abstract rollout does.
LEMMA RolloutInit == Init => Rollout!AInit
BY DEF Init, NewNode, Rollout!AInit, Rollout!Flashes, JobKeys

\* A Job is created as the abstract rollout begins a flash: for the claimant of the
\* node, alone on it, in a free slot.
LEMMA SpawnBegins ==
  ASSUME TrueJobReads, OwnInv, SlotInv, Spawn,
         OneSlot \/ VersionInv(Same)
  PROVE  [Rollout!ANext]_Rollout!avars
<1>1. TypeOK /\ FlasherOwnsNode /\ ClaimsAreCurrent /\ SlotAccounting /\ ParallelismBound
  BY DEF OwnInv, SlotInv
<1>2. /\ cur \in Crs /\ target \in Nodes /\ rspec.version \in Versions
      /\ FlashJob \in JobKeys /\ job \in [JobKeys -> JobStates]
  BY <1>1, SpawnsOneJob DEF TypeOK, ObjectTypes
<1>3. UNCHANGED node /\ pc = "act"
  BY DEF Spawn
<1>4. \/ UNCHANGED job
      \/ job[FlashJob] = "none" /\ job' = [job EXCEPT ![FlashJob] = "running"]
  <2>1. \/ UNCHANGED job
        \/ job' = [job EXCEPT ![FlashJob] = IF job[FlashJob] = "none" THEN "running"
                                            ELSE job[FlashJob]]
        \/ job[FlashJob] = "none" /\ job' = [job EXCEPT ![FlashJob] = "running"]
    BY DEF Spawn
  <2> QED BY <1>2, <2>1
<1>5. CASE UNCHANGED job
  BY <1>3, <1>5 DEF Rollout!avars
<1>6. CASE job[FlashJob] = "none" /\ job' = [job EXCEPT ![FlashJob] = "running"]
  <2>1. node[target].owner = cur
    BY <1>1, <1>3 DEF ClaimsAreCurrent
  <2>2. /\ Cardinality(Rollout!UnderWay(cur)) < maxParallel(cur)
        /\ Rollout!Cardinality(Rollout!UnderWay(cur)) < maxParallel(cur)
    <3>1. cap > 0 /\ cap \in Int /\ countInFlightJobs(cur, job) + cap <= maxParallel(cur)
      BY <1>1 DEF Spawn, SlotAccounting, NeedsSlot, TypeOK, LoopTypes
    <3>2. countInFlightJobs(cur, job) \in Nat /\ maxParallel(cur) \in Nat
      BY <1>2, InFlightFinite, MaxParallelType DEF maxParallel
    <3>3. countInFlightJobs(cur, job) < maxParallel(cur)
      BY <3>1, <3>2
    <3>4. Cardinality(Rollout!UnderWay(cur)) < maxParallel(cur)
      BY <3>3 DEF countInFlightJobs, InFlightJobs, Rollout!UnderWay
    <3> QED BY <3>4 DEF Rollout!Cardinality, Cardinality, Rollout!IsFiniteSet, IsFiniteSet
  <2>3. ASSUME NEW f \in JobKeys, f[2] = target, job[f] = "running"
        PROVE  FALSE
    <3>1. PICK c \in Crs, v \in Versions : f = <<c, target, v>>
      BY <1>2, <2>3 DEF JobKeys
    <3>2. c = cur
      BY <1>1, <1>2, <2>1, <2>3, <3>1 DEF FlasherOwnsNode
    <3>3. CASE OneSlot
      <4>1. Cardinality(Rollout!UnderWay(cur)) = 0
        <5>1. Cardinality(Rollout!UnderWay(cur)) \in Nat
          BY InFlightFinite DEF countInFlightJobs, InFlightJobs, Rollout!UnderWay
        <5>2. maxParallel(cur) = 1
          BY <1>2, <3>3 DEF OneSlot
        <5> QED BY <2>2, <5>1, <5>2
      <4>2. InFlightJobs(cur, job) = {}
        <5>1. Cardinality(InFlightJobs(cur, job)) = 0
          BY <4>1 DEF InFlightJobs, Rollout!UnderWay
        <5> QED BY <5>1, InFlightFinite, FS_EmptySet
      <4>3. <<target, v>> \in InFlightJobs(cur, job)
        BY <1>2, <2>3, <3>1, <3>2 DEF InFlightJobs
      <4> QED BY <4>2, <4>3
    <3>4. CASE VersionInv(Same)
      <4>1. v = rspec.version
        BY <1>3, <2>3, <3>1, <3>2, <3>4, OneVersion
      <4> QED BY <1>6, <2>3, <3>1, <3>2, <4>1 DEF FlashJob
    <3> QED BY <3>3, <3>4
  <2>4. Rollout!ABegin(cur, target, rspec.version)
    <3>1. Rollout!Flashes = JobKeys
      BY DEF Rollout!Flashes, JobKeys
    <3>2. \A f \in Rollout!Flashes : f[2] = target => job[f] # "running"
      BY <2>3, <3>1
    <3>3. [n \in Nodes |-> node[n].owner]' = [n \in Nodes |-> node[n].owner]
      BY <1>3
    <3> QED BY <1>2, <1>6, <2>1, <2>2, <3>2, <3>3 DEF Rollout!ABegin, FlashJob
  <2> QED BY <1>2, <2>4 DEF Rollout!ANext
<1> QED BY <1>4, <1>5, <1>6

\* A claim is the abstract claim, or a patch that did not arrive.
LEMMA ClaimClaims ==
  ASSUME OwnInv, NEW n \in Nodes, Claim(n)
  PROVE  [Rollout!ANext]_Rollout!avars
<1> DEFINE owners == [m \in Nodes |-> node[m].owner]
<1>1. UNCHANGED job
  BY DEF Claim
<1>2. node \in [Nodes -> NodeRec]
  BY DEF OwnInv, TypeOK, ObjectTypes
<1>3. \A m \in Nodes : m # n => node'[m] = node[m]
  BY <1>2 DEF Claim
<1>4. [Next]_vars
  BY DEF Next, Reconcile
<1>5. CASE node'[n].owner = node[n].owner
  <2>1. owners' = owners
    BY <1>3, <1>5
  <2> QED BY <1>1, <2>1 DEF Rollout!avars
<1>6. CASE node[n].owner = None /\ node'[n].owner = cur /\ cur \in Crs
  <2>1. owners' = [owners EXCEPT ![n] = cur]
    BY <1>3, <1>6
  <2>2. Rollout!AClaim(cur, n)
    BY <1>1, <1>6, <2>1 DEF Rollout!AClaim
  <2> QED BY <1>6, <2>2 DEF Rollout!ANext
<1> QED BY <1>4, <1>5, <1>6, ClaimsAreForGood

\* Jobs end and are dropped as abstract flashes do.
LEMMA JobsEnd ==
  ASSUME TypeOK, NEW c \in Crs, NEW n \in Nodes, NEW v \in Versions,
         JobSucceeds(c, n, v) \/ JobFails(c, n, v) \/ JobExpires(c, n, v)
         \/ CollectJob(c, n, v)
  PROVE  [Rollout!ANext]_Rollout!avars
<1> DEFINE f == <<c, n, v>>
<1>1. f \in Rollout!Flashes
  BY DEF Rollout!Flashes
<1>2. [m \in Nodes |-> node[m].owner]' = [m \in Nodes |-> node[m].owner]
  BY DEF JobSucceeds, JobFails, JobExpires, CollectJob
<1>3. CASE JobSucceeds(c, n, v) \/ JobFails(c, n, v)
  <2>1. Rollout!AEnd(f)
    BY <1>2, <1>3 DEF JobSucceeds, JobFails, Rollout!AEnd
  <2> QED BY <1>1, <2>1 DEF Rollout!ANext
<1>4. CASE JobExpires(c, n, v) \/ CollectJob(c, n, v)
  <2>1. Rollout!AForget(f)
    BY <1>2, <1>4 DEF JobExpires, CollectJob, Rollout!AForget
  <2> QED BY <1>1, <2>1 DEF Rollout!ANext
<1> QED BY <1>3, <1>4

\* Every other step leaves owners and Jobs alone.
LEMMA OthersStutter ==
  ASSUME OwnInv, [Next]_vars, ~Spawn, \A n \in Nodes : ~Claim(n),
         \A c \in Crs, n \in Nodes, v \in Versions :
           /\ ~JobSucceeds(c, n, v) /\ ~JobFails(c, n, v)
           /\ ~JobExpires(c, n, v) /\ ~CollectJob(c, n, v)
  PROVE  UNCHANGED Rollout!avars
<1>1. [m \in Nodes |-> node[m].owner]' = [m \in Nodes |-> node[m].owner]
  BY ClaimsAreForGood
<1>2. UNCHANGED job
  <2>1. CASE UNCHANGED vars
    BY <2>1 DEF vars
  <2>2. CASE Reconcile
    BY <2>2 DEF Reconcile, Start, Observe, SkipFull, CountJobs, Cordon, Evict,
                Uncordon, Publish, Abandon
  <2>3. CASE Environment
    BY <2>3 DEF Environment, SyncNodes, SyncJobs, SyncPods, DeleteCr, EditSpec,
       HumanCordon, HumanUncordon, ToggleSkip, DrainDeadline, PodStarts, PodFinishes,
       PodRemoved
  <2> QED BY <2>1, <2>2, <2>3 DEF Next
<1> QED BY <1>1, <1>2 DEF Rollout!avars

\* Every step of the controller and its cluster is a step of the abstract rollout, or
\* none.
LEMMA RolloutStep ==
  ASSUME TrueJobReads, OwnInv, SlotInv, OneSlot \/ VersionInv(Same), [Next]_vars
  PROVE  [Rollout!ANext]_Rollout!avars
<1>1. TypeOK
  BY DEF OwnInv
<1> QED BY <1>1, SpawnBegins, ClaimClaims, JobsEnd, OthersStutter

\* The controller implements the abstract rollout: for any nodes, CRs, versions and
\* slots, whatever fails, crashes or expires, its claims are for good and its flashes
\* start for the claimant, alone on the node, within maxParallel.
THEOREM RolloutImplemented ==
  CurrentNodeReads /\ TrueJobReads /\ NoOverlap => (Spec => RefinesRollout)
<1> SUFFICES ASSUME CurrentNodeReads, TrueJobReads, NoOverlap PROVE Spec => RefinesRollout
  OBVIOUS
<1>1. Init => Rollout!AInit
  BY RolloutInit
<1>2. CASE OneSlot
  <2>1. OwnInv /\ SlotInv /\ [Next]_vars => [Rollout!ANext]_Rollout!avars
    BY <1>2, RolloutStep
  <2> QED BY <1>1, <2>1, OwnInvariant, SlotInvariant, PTL
      DEF Spec, RefinesRollout, Rollout!ASpec
<1>3. CASE FixedVersions
  <2>1. OwnInv /\ SlotInv /\ VersionInv(Same) /\ [Next]_vars => [Rollout!ANext]_Rollout!avars
    BY RolloutStep
  <2> QED BY <1>1, <1>3, <2>1, OwnInvariant, SlotInvariant, VersionInvariant, PTL
      DEF Spec, RefinesRollout, Rollout!ASpec
<1> QED BY <1>2, <1>3 DEF NoOverlap

-----------------------------------------------------------------------------
(* haltOnFailure bounds the damage. *)

\* Every Job, finished or not, is of the CR that owns its node and matches it.
JobsOwned ==
  \A k \in JobKeys : job[k] # "none" => node[k[2]].owner = k[1] /\ k[2] \in Selector[k[1]]

\* A reconcile only lists nodes its CR matches.
ListIsMatched ==
  pc # "idle" =>
    /\ todo \subseteq Selector[cur]
    /\ \A n \in Nodes : ns[n].state # "unlisted" => n \in Selector[cur]

OwnedInv == OwnInv /\ JobsOwned /\ ListIsMatched

\* Jobs stay with the owner of their node.
LEMMA JobsOwnedStep ==
  ASSUME OwnedInv, [Next]_vars
  PROVE  JobsOwned'
<1>1. OwnInv /\ TypeOK /\ ClaimsAreCurrent /\ JobsOwned /\ ListIsMatched
  BY DEF OwnedInv, OwnInv
<1> SUFFICES ASSUME NEW k \in JobKeys, job'[k] # "none"
             PROVE  node'[k[2]].owner = k[1] /\ k[2] \in Selector[k[1]]
  BY DEF JobsOwned
<1>2. k[1] \in Crs /\ k[2] \in Nodes
  BY DEF JobKeys
<1>3. CASE job[k] # "none"
  <2>1. node[k[2]].owner = k[1] /\ k[2] \in Selector[k[1]]
    BY <1>1, <1>3 DEF JobsOwned
  <2> QED BY <1>1, <1>2, <2>1, ClaimsAreForGood, NoneFresh
<1>4. CASE job[k] = "none"
  <2>1. Spawn
    BY <1>1, <1>4, JobsOnlyEnd
  <2>2. k = FlashJob
    BY <1>1, <1>4, <2>1, SpawnsOneJob
  <2>3. k[1] = cur /\ k[2] = target /\ pc = "act" /\ UNCHANGED node
    BY <2>1, <2>2 DEF FlashJob, Spawn
  <2> QED BY <1>1, <2>3 DEF ClaimsAreCurrent, ListIsMatched
<1> QED BY <1>3, <1>4

\* And lists stay within what the CR matches.
LEMMA ListStep ==
  ASSUME OwnedInv, [Next]_vars
  PROVE  ListIsMatched'
<1>1. TypeOK /\ ListIsMatched /\ ns \in [Nodes -> NodeStatus] /\ todo \subseteq Nodes
  BY DEF OwnedInv, OwnInv, TypeOK, LoopTypes
<1>2. ASSUME UNCHANGED <<cur, ns>>, todo' \subseteq todo, pc # "idle" PROVE ListIsMatched'
  BY <1>1, <1>2 DEF ListIsMatched
<1>3. ASSUME pc' = "idle" PROVE ListIsMatched'
  BY <1>3 DEF ListIsMatched
<1>4. ASSUME NEW c \in Crs, Start(c) PROVE ListIsMatched'
  <2>1. /\ cur' = c /\ todo' = owned(c, NodeView)
        /\ \A n \in Nodes : ns'[n] = IF n \in matchedNodes(c, NodeView) \ owned(c, NodeView)
                                     THEN Is("Pending", "NodeConflict") ELSE Unlisted
    BY <1>4 DEF Start
  <2>2. owned(c, NodeView) \subseteq Selector[c] /\ matchedNodes(c, NodeView) \subseteq Selector[c]
    BY DEF owned, matchedNodes
  <2>3. Unlisted.state = "unlisted"
    BY DEF Unlisted
  <2> QED BY <2>1, <2>2, <2>3 DEF ListIsMatched
<1>5. ASSUME NEW n \in Nodes, Observe(n) PROVE ListIsMatched'
  <2>1. /\ pc = "observe" /\ n \in todo /\ todo' \subseteq todo /\ cur' = cur
        /\ \A m \in Nodes : m # n => ns'[m] = ns[m]
    BY <1>1, <1>5 DEF Observe, readVars
  <2> QED BY <1>1, <2>1 DEF ListIsMatched
<1>6. ASSUME CountJobs PROVE ListIsMatched'
  <2>1. pc = "observe" /\ todo' = ToAdvance(rspec, ns) /\ cur' = cur /\ ns' = ns
    BY <1>6 DEF CountJobs, readVars
  <2>2. \A n \in todo' : n \in Nodes /\ ns[n].state # "unlisted"
    BY <2>1 DEF ToAdvance, isAdvanceable
  <2> QED BY <1>1, <2>1, <2>2 DEF ListIsMatched
<1>7. ASSUME Spawn \/ Evict PROVE ListIsMatched'
  <2>1. /\ pc = "act" /\ target \in Nodes /\ ns[target].state # "unlisted" /\ cur' = cur
        /\ todo' \subseteq todo
    BY <1>1, <1>7 DEF Spawn, Evict, NodeVisited, readVars, TypeOK, LoopTypes
  <2>2. \A m \in Nodes : m # target => ns'[m] = ns[m]
    BY <1>1, <1>7 DEF Spawn, Evict
  <2> QED BY <1>1, <2>1, <2>2 DEF ListIsMatched
<1>8. CASE Environment \/ UNCHANGED vars
  <2>1. UNCHANGED localVars
    BY <1>8, EnvironmentKeepsLocals DEF vars
  <2> QED BY <1>2, <1>3, <2>1 DEF localVars, readVars, loopVars
<1>9. CASE Cordon \/ Uncordon \/ \E n \in Nodes : SkipFull(n) \/ Claim(n)
  BY <1>2, <1>9 DEF Cordon, Uncordon, SkipFull, Claim, NodeVisited, readVars
<1>10. CASE Publish \/ Abandon
  BY <1>3, <1>10 DEF Publish, Abandon, Return
<1> QED BY <1>4, <1>5, <1>6, <1>7, <1>8, <1>9, <1>10 DEF Next, Reconcile

\* Together they are inductive.
LEMMA OwnedInvStep ==
  ASSUME CurrentNodeReads, OwnedInv, [Next]_vars
  PROVE  OwnedInv'
BY OwnInvStep, JobsOwnedStep, ListStep DEF OwnedInv

\* What the halt rests on: reads that do not fail, and nodes nobody hides from the
\* listing by a skip label.
NothingHidden == "readerr" \notin Env /\ "skip" \notin Env

\* The nodes a CR's bundle has reached without success so far.
Touched(c, v) == {n \in Nodes : job[<<c, n, v>>] \in {"running", "failed"}}

\* Of those of the reconcile under way, the ones whose failure it has not to find yet.
Unseen ==
  {n \in Nodes : \/ job[<<cur, n, rspec.version>>] = "running"
                 \/ job[<<cur, n, rspec.version>>] = "failed" /\ n \notin todo}

\* The inductive invariant: a reconcile either has found a failure, or found none, and
\* then no more nodes than ran Jobs when it started, and it adds at most its slots.
HaltInv ==
  /\ SlotInv /\ OwnedInv
  /\ \A n \in Nodes : ~node[n].skip
  /\ \A c \in Crs, v \in Versions : Cardinality(Touched(c, v)) <= 2 * maxParallel(c)
  /\ pc = "observe" => \/ \E n \in Nodes \ todo : ns[n].state = "Failed"
                       \/ Cardinality(Unseen) <= maxParallel(cur)
  /\ pc \in {"advance", "act"} =>
       todo = {} \/ Cardinality(Touched(cur, rspec.version)) + cap <= 2 * maxParallel(cur)

\* Only Spawn reaches a node that was not reached before.
LEMMA OnlySpawnTouches ==
  ASSUME TypeOK, [Next]_vars, ~Spawn, NEW k \in JobKeys
  PROVE  /\ job'[k] \in {"running", "failed"} => job[k] \in {"running", "failed"}
         /\ job'[k] = "running" => job[k] = "running"
<1>1. ASSUME NEW c \in Crs, NEW n \in Nodes, NEW v \in Versions,
             JobSucceeds(c, n, v) \/ JobFails(c, n, v) \/ JobExpires(c, n, v)
             \/ CollectJob(c, n, v)
      PROVE  /\ job'[k] \in {"running", "failed"} => job[k] \in {"running", "failed"}
             /\ job'[k] = "running" => job[k] = "running"
  <2>1. job \in [JobKeys -> JobStates] /\ <<c, n, v>> \in JobKeys
    BY DEF TypeOK, ObjectTypes, JobKeys
  <2> QED BY <1>1, <2>1 DEF JobSucceeds, JobFails, JobExpires, CollectJob
<1>2. \/ UNCHANGED job
      \/ \E c \in Crs, n \in Nodes, v \in Versions :
           JobSucceeds(c, n, v) \/ JobFails(c, n, v) \/ JobExpires(c, n, v)
           \/ CollectJob(c, n, v)
  BY OnlyTheseEndJobs
<1> QED BY <1>1, <1>2

\* A CR has no more nodes with an unfinished Job of one version than unfinished Jobs.
LEMMA RunningFit ==
  ASSUME NEW c \in Crs, NEW v \in Versions
  PROVE  Cardinality({n \in Nodes : job[<<c, n, v>>] = "running"}) <= countInFlightJobs(c, job)
<1> DEFINE R == {n \in Nodes : job[<<c, n, v>>] = "running"}
           f == [n \in R |-> <<n, v>>]
<1>1. IsFiniteSet(InFlightJobs(c, job))
  BY InFlightFinite
<1>2. f \in Injection(R, InFlightJobs(c, job))
  <2>1. f \in [R -> InFlightJobs(c, job)]
    BY DEF InFlightJobs
  <2>2. \A a, b \in R : f[a] = f[b] => a = b
    OBVIOUS
  <2> HIDE DEF f, R
  <2> QED BY <2>1, <2>2 DEF Injection, IsInjective
<1> HIDE DEF f, R
<1>3. Cardinality(R) <= Cardinality(InFlightJobs(c, job))
  BY <1>1, <1>2, FS_Injection
<1> QED BY <1>3 DEF countInFlightJobs, R

\* Sets of nodes are finite, and one more node is one more at most.
LEMMA NodeSets ==
  ASSUME NEW S, S \subseteq Nodes
  PROVE  /\ IsFiniteSet(S) /\ Cardinality(S) \in Nat
         /\ \A T : T \subseteq S => Cardinality(T) <= Cardinality(S) /\ Cardinality(T) \in Nat
         /\ \A T, x : T \subseteq S \cup {x} =>
              Cardinality(T) <= Cardinality(S) + 1 /\ Cardinality(T) \in Nat
<1>1. IsFiniteSet(S) /\ Cardinality(S) \in Nat
  BY NodesFinite, FS_Subset, FS_CardinalityType
<1>2. ASSUME NEW T, T \subseteq S
      PROVE  Cardinality(T) <= Cardinality(S) /\ Cardinality(T) \in Nat
  BY <1>1, <1>2, FS_Subset, FS_CardinalityType
<1>3. ASSUME NEW T, NEW x, T \subseteq S \cup {x}
      PROVE  Cardinality(T) <= Cardinality(S) + 1 /\ Cardinality(T) \in Nat
  <2>1. /\ IsFiniteSet(S \cup {x}) /\ Cardinality(S \cup {x}) \in Nat
        /\ Cardinality(S \cup {x}) <= Cardinality(S) + 1
    BY <1>1, FS_AddElement, FS_CardinalityType
  <2>2. Cardinality(T) <= Cardinality(S \cup {x}) /\ Cardinality(T) \in Nat
    BY <1>3, <2>1, FS_Subset, FS_CardinalityType
  <2> QED BY <1>1, <2>1, <2>2
<1> QED BY <1>1, <1>2, <1>3

\* The controller's patches leave the skip label alone.
LEMMA PatchesKeepSkip ==
  ASSUME NEW s \in NodeRec, NEW o \in NodeRec, NEW c \in Crs
  PROVE  /\ MergePatch(s, o, [o EXCEPT !.owner = c]).skip = s.skip
         /\ MergePatch(s, o, CordonNode(o, c)).skip = s.skip
         /\ MergePatch(s, o, UncordonNode(o, c)).skip = s.skip
BY DEF MergePatch, CordonNode, UncordonNode, NodeRec

\* So only a person sets it.
LEMMA NobodySkips ==
  ASSUME TypeOK, "skip" \notin Env, [Next]_vars, NEW n \in Nodes
  PROVE  node'[n].skip = node[n].skip
<1>1. node \in [Nodes -> NodeRec] /\ snap \in [Nodes -> NodeRec]
  BY DEF TypeOK, ObjectTypes, LoopTypes
<1>2. ASSUME NEW m \in Nodes, Claim(m) PROVE node'[n].skip = node[n].skip
  <2>1. cur \in Crs
    BY <1>2 DEF Claim, TypeOK, ReadTypes
  <2>2. \/ UNCHANGED node
        \/ node' = [node EXCEPT ![m] =
                      MergePatch(node[m], snap[m], [snap[m] EXCEPT !.owner = cur])]
    BY <1>2 DEF Claim
  <2>3. MergePatch(node[m], snap[m], [snap[m] EXCEPT !.owner = cur]).skip = node[m].skip
    BY <1>1, <2>1, PatchesKeepSkip
  <2> QED BY <1>1, <2>2, <2>3
<1>3. CASE Cordon \/ Uncordon
  <2>1. target \in Nodes /\ cur \in Crs
    BY <1>3 DEF Cordon, Uncordon, TypeOK, ReadTypes, LoopTypes
  <2>2. \/ UNCHANGED node
        \/ node' = [node EXCEPT ![target] =
                      MergePatch(node[target], snap[target], CordonNode(snap[target], cur))]
        \/ node' = [node EXCEPT ![target] =
                      MergePatch(node[target], snap[target], UncordonNode(snap[target], cur))]
    BY <1>3 DEF Cordon, Uncordon
  <2>3. /\ MergePatch(node[target], snap[target], CordonNode(snap[target], cur)).skip
             = node[target].skip
        /\ MergePatch(node[target], snap[target], UncordonNode(snap[target], cur)).skip
             = node[target].skip
    BY <1>1, <2>1, PatchesKeepSkip
  <2> QED BY <1>1, <2>2, <2>3
<1>4. CASE Publish
  <2>1. PICK labelled : node' = [x \in Nodes |-> IF x \in labelled
                                THEN [node[x] EXCEPT !.fwver = rspec.version]
                                ELSE node[x]]
    BY <1>4 DEF Publish
  <2> QED BY <1>1, <2>1 DEF NodeRec
<1>5. CASE Environment
  <2>1. ASSUME NEW m \in Nodes, HumanCordon(m) \/ HumanUncordon(m) \/ DrainDeadline(m)
        PROVE  node'[n].skip = node[n].skip
    <3>1. \/ node' = [node EXCEPT ![m] = [node[m] EXCEPT !.unsched = TRUE]]
          \/ node' = [node EXCEPT ![m] = [node[m] EXCEPT !.unsched = FALSE]]
          \/ node' = [node EXCEPT ![m] = [node[m] EXCEPT !.at = "expired"]]
      BY <2>1 DEF HumanCordon, HumanUncordon, DrainDeadline
    <3> QED BY <1>1, <3>1 DEF NodeRec
  <2>2. \/ UNCHANGED node
        \/ \E m \in Nodes : HumanCordon(m) \/ HumanUncordon(m) \/ DrainDeadline(m)
    BY <1>5 DEF Environment, ToggleSkip, SyncNodes, SyncJobs, SyncPods, JobSucceeds, JobFails,
       JobExpires, CollectJob, DeleteCr, EditSpec, PodStarts, PodFinishes, PodRemoved
  <2> QED BY <2>1, <2>2
<1>6. CASE UNCHANGED vars
  BY <1>6 DEF vars
<1>7. CASE Reconcile /\ ~Publish /\ ~Cordon /\ ~Uncordon /\ \A m \in Nodes : ~Claim(m)
  BY <1>7 DEF Reconcile, Start, Observe, SkipFull, CountJobs, Evict, Spawn, Abandon
<1> QED BY <1>2, <1>3, <1>4, <1>5, <1>6, <1>7 DEF Next, Reconcile

\* What the bundle has reached stays bounded: a reconcile that starts a Job has slots
\* left, and these were counted on top of what had been reached.
LEMMA TouchedStep ==
  ASSUME HaltInv, TrueJobReads, [Next]_vars, NEW c \in Crs, NEW v \in Versions
  PROVE  /\ Cardinality(Touched(c, v)') <= 2 * maxParallel(c)
         /\ ~Spawn => Touched(c, v)' \subseteq Touched(c, v)
         /\ Spawn => Cardinality(Touched(cur, rspec.version)') + cap' <= 2 * maxParallel(cur)
<1>1. TypeOK /\ SlotAccounting /\ ClaimsAreCurrent
  BY DEF HaltInv, SlotInv, OwnedInv, OwnInv
<1>2. \A d \in Crs : maxParallel(d) \in Nat
  BY MaxParallelType DEF maxParallel
<1>3. \A d \in Crs, w \in Versions :
        /\ Touched(d, w) \subseteq Nodes /\ Cardinality(Touched(d, w)) <= 2 * maxParallel(d)
        /\ Cardinality(Touched(d, w)) \in Nat
        /\ Touched(d, w)' \subseteq Nodes
  <2>1. \A d \in Crs, w \in Versions : /\ Touched(d, w) \subseteq Nodes
                                       /\ Touched(d, w)' \subseteq Nodes
    BY DEF Touched
  <2> QED BY <2>1, NodeSets DEF HaltInv
<1>4. CASE ~Spawn
  <2>1. Touched(c, v)' \subseteq Touched(c, v)
    <3> SUFFICES ASSUME NEW n \in Nodes, job'[<<c, n, v>>] \in {"running", "failed"}
                 PROVE  job[<<c, n, v>>] \in {"running", "failed"}
      BY DEF Touched
    <3>1. <<c, n, v>> \in JobKeys
      BY DEF JobKeys
    <3> QED BY <1>1, <1>4, <3>1, OnlySpawnTouches
  <2>2. Cardinality(Touched(c, v)') <= Cardinality(Touched(c, v)) /\ Cardinality(Touched(c, v)') \in Nat
    BY <1>3, <2>1, NodeSets
  <2> QED BY <1>2, <1>3, <1>4, <2>1, <2>2
<1>5. CASE Spawn
  <2> DEFINE a == Cardinality(Touched(cur, rspec.version))
             b == Cardinality(Touched(cur, rspec.version)')
             m == maxParallel(cur)
  <2>1. /\ FlashJob \in JobKeys /\ cur \in Crs /\ target \in Nodes /\ rspec.version \in Versions
        /\ \A k \in JobKeys : k # FlashJob => job'[k] = job[k]
    BY <1>1, <1>5, SpawnsOneJob
  <2>2. pc = "act" /\ target \in todo /\ cap \in Int /\ cap > 0
    BY <1>1, <1>5 DEF Spawn, ClaimsAreCurrent, SlotAccounting, NeedsSlot, TypeOK, LoopTypes
  <2>3. a \in Nat /\ m \in Nat /\ a + cap <= 2 * m
    BY <1>2, <1>3, <2>1, <2>2 DEF HaltInv
  <2>4. Touched(cur, rspec.version)' = {n \in Nodes : job'[<<cur, n, rspec.version>>] \in {"running", "failed"}}
    BY <1>5 DEF Touched, Spawn, readVars
  <2>5. \/ UNCHANGED <<job, cap>>
        \/ cap' = cap - 1
    BY <1>5 DEF Spawn, TrueJobReads
  <2>6. Touched(cur, rspec.version)' \subseteq Touched(cur, rspec.version) \cup {target}
    <3> SUFFICES ASSUME NEW n \in Nodes, n # target, job'[<<cur, n, rspec.version>>] \in {"running", "failed"}
                 PROVE  job[<<cur, n, rspec.version>>] \in {"running", "failed"}
      BY <2>4 DEF Touched
    <3>1. <<cur, n, rspec.version>> \in JobKeys /\ <<cur, n, rspec.version>> # FlashJob
      BY <2>1 DEF JobKeys, FlashJob
    <3> QED BY <2>1, <3>1
  <2>7. b \in Nat /\ b <= a + 1
    BY <1>3, <2>1, <2>6, NodeSets
  <2>8. b + cap' <= 2 * m /\ b <= 2 * m
    <3>1. CASE UNCHANGED <<job, cap>>
      <4>1. a = b
        BY <2>4, <3>1 DEF Touched
      <4> HIDE DEF a, b, m
      <4> QED BY <2>2, <2>3, <2>7, <3>1, <4>1
    <3>2. CASE cap' = cap - 1
      <4> HIDE DEF a, b, m
      <4> QED BY <2>2, <2>3, <2>7, <3>2
    <3> QED BY <2>5, <3>1, <3>2
  <2>9. Cardinality(Touched(c, v)') <= 2 * maxParallel(c)
    <3>1. CASE c = cur /\ v = rspec.version
      <4>1. Touched(c, v)' = Touched(cur, rspec.version)'
        BY <2>4, <3>1 DEF Touched
      <4> QED BY <2>8, <3>1, <4>1
    <3>2. CASE ~(c = cur /\ v = rspec.version)
      <4>1. \A n \in Nodes : <<c, n, v>> \in JobKeys /\ <<c, n, v>> # FlashJob
        BY <2>1, <3>2 DEF JobKeys, FlashJob
      <4>2. Touched(c, v)' = Touched(c, v)
        BY <2>1, <4>1 DEF Touched
      <4> QED BY <1>3, <4>2
    <3> QED BY <3>1, <3>2
  <2> QED BY <1>5, <2>8, <2>9
<1> QED BY <1>4, <1>5

\* The reconcile starts with every failure still to find, and finds those it passes.
LEMMA UnseenStep ==
  ASSUME HaltInv, NothingHidden, TrueJobReads, CurrentNodeReads, [Next]_vars, pc' = "observe"
  PROVE  \/ \E n \in Nodes \ todo' : ns'[n].state = "Failed"
         \/ Cardinality(Unseen') <= maxParallel(cur')
<1>1. /\ TypeOK /\ ParallelismBound /\ JobsOwned
      /\ job \in [JobKeys -> JobStates] /\ ns \in [Nodes -> NodeStatus] /\ todo \subseteq Nodes
  BY DEF HaltInv, SlotInv, OwnedInv, TypeOK, ObjectTypes, LoopTypes
<1>2. \A c \in Crs : maxParallel(c) \in Nat /\ countInFlightJobs(c, job) \in Nat
  BY MaxParallelType, InFlightFinite DEF maxParallel
<1>3. ASSUME NEW c \in Crs, Start(c) PROVE Cardinality(Unseen') <= maxParallel(cur')
  <2> DEFINE R == {n \in Nodes : job[<<c, n, spec[c].version>>] = "running"}
  <2>1. cur' = c /\ rspec' = spec[c] /\ todo' = owned(c, node) /\ job' = job
    BY <1>3 DEF Start, NodeView, CurrentNodeReads
  <2>2. spec[c].version \in Versions
    BY <1>1, SpecsType DEF TypeOK, CrTypes, SpecRec
  <2>3. ASSUME NEW n \in Nodes, job[<<c, n, spec[c].version>>] = "failed"
        PROVE  n \in owned(c, node)
    <3>1. <<c, n, spec[c].version>> \in JobKeys
      BY <2>2 DEF JobKeys
    <3>2. node[n].owner = c /\ n \in Selector[c]
      BY <1>1, <2>3, <3>1 DEF JobsOwned
    <3> QED BY <3>2 DEF HaltInv, owned, matchedNodes
  <2>4. Unseen' \subseteq R
    BY <2>1, <2>3 DEF Unseen
  <2>5. Cardinality(R) <= countInFlightJobs(c, job)
    BY <2>2, RunningFit
  <2>6. Cardinality(Unseen') <= Cardinality(R) /\ Cardinality(Unseen') \in Nat
        /\ Cardinality(R) \in Nat
    <3>1. R \subseteq Nodes
      OBVIOUS
    <3> QED BY <2>4, <3>1, NodeSets
  <2>7. countInFlightJobs(c, job) <= maxParallel(c)
    BY <1>1 DEF ParallelismBound
  <2> HIDE DEF R
  <2> QED BY <1>2, <2>1, <2>5, <2>6, <2>7
<1>4. ASSUME pc = "observe", cur' = cur, rspec' = rspec, Unseen' \subseteq Unseen
      PROVE  (\E n \in Nodes \ todo : ns[n].state = "Failed") \/ Cardinality(Unseen') <= maxParallel(cur')
  <2>1. Unseen \subseteq Nodes
    BY DEF Unseen
  <2>2. Cardinality(Unseen') <= Cardinality(Unseen) /\ Cardinality(Unseen') \in Nat
        /\ Cardinality(Unseen) \in Nat
    BY <1>4, <2>1, NodeSets
  <2>3. cur \in Crs
    BY <1>1, <1>4 DEF TypeOK, ReadTypes
  <2> QED BY <1>2, <1>4, <2>2, <2>3 DEF HaltInv
<1>5. ASSUME NEW n \in Nodes, Observe(n)
      PROVE  \/ \E m \in Nodes \ todo' : ns'[m].state = "Failed"
             \/ Cardinality(Unseen') <= maxParallel(cur')
  <2>1. /\ pc = "observe" /\ n \in todo /\ todo' = todo \ {n} /\ job' = job
        /\ cur' = cur /\ rspec' = rspec
        /\ ns' = [ns EXCEPT ![n] = observeNode(cur, rspec, snap[n], n, job, PodView)]
    BY <1>5 DEF Observe, readVars, NothingHidden, JobView, TrueJobReads
  <2>2. CASE job[<<cur, n, rspec.version>>] = "failed"
    <3>1. ns'[n].state = "Failed"
      BY <1>1, <2>1, <2>2 DEF observeNode, Is
    <3> QED BY <2>1, <3>1
  <2>3. CASE job[<<cur, n, rspec.version>>] # "failed"
    <3>1. Unseen' \subseteq Unseen
      BY <2>1, <2>3 DEF Unseen
    <3>2. \A m \in Nodes \ todo : m \in Nodes \ todo' /\ ns'[m] = ns[m]
      BY <1>1, <2>1
    <3> QED BY <1>4, <2>1, <3>1, <3>2
  <2> QED BY <2>2, <2>3
<1>6. CASE Environment \/ UNCHANGED vars
  <2>1. UNCHANGED localVars /\ ~Spawn
    BY <1>6, EnvironmentKeepsLocals DEF vars, localVars, Spawn, NodeVisited
  <2>2. /\ pc = "observe" /\ cur' = cur /\ rspec' = rspec /\ todo' = todo /\ ns' = ns
    BY <2>1 DEF localVars, readVars, loopVars
  <2>3. cur \in Crs /\ rspec.version \in Versions
    BY <1>1, <2>2, SpecsType DEF TypeOK, ReadTypes, SpecRec
  <2>4. Unseen' \subseteq Unseen
    <3>1. \A n \in Nodes : <<cur, n, rspec.version>> \in JobKeys
      BY <2>3 DEF JobKeys
    <3>2. \A n \in Nodes :
            /\ job'[<<cur, n, rspec.version>>] \in {"running", "failed"}
                 => job[<<cur, n, rspec.version>>] \in {"running", "failed"}
            /\ job'[<<cur, n, rspec.version>>] = "running"
                 => job[<<cur, n, rspec.version>>] = "running"
      BY <1>1, <2>1, <3>1, OnlySpawnTouches
    <3> QED BY <2>2, <3>2 DEF Unseen
  <2> QED BY <1>4, <2>2, <2>4
<1>7. \/ \E c \in Crs : Start(c)
      \/ \E n \in Nodes : Observe(n)
      \/ Environment \/ UNCHANGED vars
  BY DEF Next, Reconcile, SkipFull, Claim, CountJobs, Cordon, Evict, Spawn, Uncordon,
         Publish, Abandon, Return, NodeVisited
<1> QED BY <1>3, <1>5, <1>6, <1>7

\* Every step keeps the invariant.
LEMMA HaltInvStep ==
  ASSUME NothingHidden, TrueJobReads, CurrentNodeReads, \A s \in Specs : s.halt,
         HaltInv, [Next]_vars
  PROVE  HaltInv'
<1>1. SlotInv /\ OwnedInv /\ TypeOK /\ ClaimsAreCurrent
  BY DEF HaltInv, SlotInv, OwnedInv, OwnInv
<1>2. SlotInv' /\ OwnedInv'
  BY <1>1, SlotInvStep, OwnedInvStep
<1>3. \A n \in Nodes : ~node'[n].skip
  BY <1>1, NobodySkips DEF HaltInv, NothingHidden
<1>4. \A c \in Crs, v \in Versions : Cardinality(Touched(c, v)') <= 2 * maxParallel(c)
  BY TouchedStep
<1>5. pc' = "observe" => \/ \E n \in Nodes \ todo' : ns'[n].state = "Failed"
                         \/ Cardinality(Unseen') <= maxParallel(cur')
  BY UnseenStep
<1> DEFINE Room == todo = {} \/ Cardinality(Touched(cur, rspec.version)) + cap <= 2 * maxParallel(cur)
<1>6. \A c \in Crs : maxParallel(c) \in Nat /\ countInFlightJobs(c, job) \in Nat
  BY MaxParallelType, InFlightFinite DEF maxParallel
<1>7. /\ pc # "idle" => cur \in Crs /\ rspec \in Specs /\ rspec.version \in Versions
      /\ cap \in Int /\ ns \in [Nodes -> NodeStatus]
  BY <1>1, SpecsType DEF TypeOK, ReadTypes, LoopTypes, SpecRec
<1>8. ASSUME pc \in {"advance", "act"}, cur' = cur, rspec' = rspec, cap' = cap,
             todo' \subseteq todo, ~Spawn
      PROVE  Room'
  <2>1. Touched(cur, rspec.version)' = {n \in Nodes : job'[<<cur, n, rspec.version>>] \in {"running", "failed"}}
    BY <1>8 DEF Touched
  <2>2. {n \in Nodes : job'[<<cur, n, rspec.version>>] \in {"running", "failed"}} \subseteq Touched(cur, rspec.version)
    <3>1. \A n \in Nodes : <<cur, n, rspec.version>> \in JobKeys
      BY <1>7, <1>8 DEF JobKeys
    <3> QED BY <1>1, <1>8, <3>1, OnlySpawnTouches DEF Touched
  <2>3. Touched(cur, rspec.version) \subseteq Nodes
    BY DEF Touched
  <2> DEFINE a == Cardinality(Touched(cur, rspec.version))
             b == Cardinality(Touched(cur, rspec.version)')
  <2>4. a \in Nat /\ b \in Nat /\ b <= a
    BY <2>1, <2>2, <2>3, NodeSets
  <2>5. Room
    BY <1>8 DEF HaltInv
  <2>6. maxParallel(cur) \in Nat
    BY <1>6, <1>7, <1>8
  <2>7. todo = {} \/ a + cap <= 2 * maxParallel(cur)
    BY <2>5
  <2>8. todo' = {} \/ b + cap' <= 2 * maxParallel(cur')
    <3> HIDE DEF a, b
    <3> QED BY <1>7, <1>8, <2>4, <2>6, <2>7
  <2> QED BY <2>8
<1>9. CountJobs => Room'
  <2> SUFFICES ASSUME CountJobs PROVE Room' OBVIOUS
  <2>1. /\ pc = "observe" /\ todo = {} /\ cur' = cur /\ rspec' = rspec /\ job' = job /\ ns' = ns
        /\ cap' = maxParallel(cur) - countInFlightJobs(cur, job)
        /\ todo' = ToAdvance(rspec, ns)
    BY DEF CountJobs, readVars, JobView, TrueJobReads
  <2>2. CASE \E n \in Nodes : ns[n].state = "Failed"
    <3>1. rspec.halt
      BY <1>7, <2>1
    <3>2. todo' = {}
      BY <2>1, <2>2, <3>1 DEF ToAdvance, Halted
    <3> QED BY <3>2
  <2>3. CASE Cardinality(Unseen) <= maxParallel(cur)
    <3>1. Unseen = Touched(cur, rspec.version)
      BY <2>1 DEF Unseen, Touched
    <3>2. Touched(cur, rspec.version)' = Touched(cur, rspec.version)
      BY <2>1 DEF Touched
    <3>3. Cardinality(Touched(cur, rspec.version)) \in Nat
      <4>1. Touched(cur, rspec.version) \subseteq Nodes
        BY DEF Touched
      <4> QED BY <4>1, NodeSets
    <3> DEFINE a == Cardinality(Touched(cur, rspec.version))
               m == maxParallel(cur)
               k == countInFlightJobs(cur, job)
    <3>4. a \in Nat /\ m \in Nat /\ k \in Nat /\ a <= m
      BY <1>6, <1>7, <2>1, <2>3, <3>1, <3>3
    <3>5. a + (m - k) <= 2 * m
      <4> HIDE DEF a, m, k
      <4> QED BY <3>4
    <3> QED BY <2>1, <3>2, <3>5
  <2> QED BY <2>1, <2>2, <2>3 DEF HaltInv
<1>10. Spawn => Room'
  <2>1. Spawn => cur' = cur /\ rspec' = rspec /\ pc = "act"
    BY DEF Spawn, readVars
  <2> QED BY <1>7, <2>1, TouchedStep
<1>11. pc' \in {"advance", "act"} => Room'
  <2> SUFFICES ASSUME pc' \in {"advance", "act"} PROVE Room' OBVIOUS
  <2> HIDE DEF Room
  <2>1. CASE Environment \/ UNCHANGED vars
    <3>1. UNCHANGED localVars /\ ~Spawn
      BY <2>1, EnvironmentKeepsLocals DEF vars, localVars, Spawn, NodeVisited
    <3> QED BY <1>8, <3>1 DEF localVars, readVars, loopVars
  <2>2. CASE ~Spawn /\ (Cordon \/ Evict \/ Uncordon \/ \E n \in Nodes : SkipFull(n) \/ Claim(n))
    <3>1. pc \in {"advance", "act"} /\ cur' = cur /\ rspec' = rspec /\ cap' = cap /\ todo' \subseteq todo
      BY <2>2 DEF Cordon, Evict, Uncordon, SkipFull, Claim, NodeVisited, readVars
    <3> QED BY <1>8, <2>2, <3>1
  <2>3. CASE \E c \in Crs : Start(c)
    BY <2>3 DEF Start
  <2>4. CASE \E n \in Nodes : Observe(n)
    BY <2>4 DEF Observe
  <2>5. CASE Publish \/ Abandon
    BY <2>5 DEF Publish, Abandon, Return
  <2> QED BY <1>9, <1>10, <2>1, <2>2, <2>3, <2>4, <2>5 DEF Next, Reconcile
<1> QED BY <1>2, <1>3, <1>4, <1>5, <1>11 DEF HaltInv

\* haltOnFailure bounds the damage of a bad bundle, for any number of nodes: twice
\* maxParallel of them at most hold a failed Job of one version, if the reads are
\* true and do not fail and nobody hides nodes by the skip label.
THEOREM HaltBoundsDamage ==
  NothingHidden /\ TrueJobReads /\ CurrentNodeReads => (Spec => []BlastRadius)
<1> SUFFICES ASSUME NothingHidden, TrueJobReads, CurrentNodeReads PROVE Spec => []BlastRadius
  OBVIOUS
<1>1. CASE \A s \in Specs : s.halt
  <2>1. Init => HaltInv
    <3> SUFFICES ASSUME Init PROVE HaltInv OBVIOUS
    <3>1. SlotInv /\ OwnInv
      BY SlotInvInit, OwnInvInit
    <3>2. JobsOwned /\ ListIsMatched /\ \A n \in Nodes : ~node[n].skip
      BY DEF Init, JobsOwned, ListIsMatched, NewNode
    <3>3. ASSUME NEW c \in Crs, NEW v \in Versions
          PROVE  Cardinality(Touched(c, v)) <= 2 * maxParallel(c)
      <4>1. Touched(c, v) = {}
        BY DEF Touched, Init, JobKeys
      <4>2. maxParallel(c) \in Nat
        BY MaxParallelType DEF maxParallel
      <4> QED BY <4>1, <4>2, FS_EmptySet
    <3> QED BY <3>1, <3>2, <3>3 DEF HaltInv, OwnedInv, Init
  <2>2. HaltInv /\ [Next]_vars => HaltInv'
    BY <1>1, HaltInvStep
  <2>3. HaltInv => BlastRadius
    <3> SUFFICES ASSUME HaltInv, NEW c \in Crs, NEW v \in Versions
                 PROVE  Cardinality({n \in Nodes : job[<<c, n, v>>] = "failed"}) <= 2 * maxParallel(c)
      BY DEF BlastRadius
    <3> DEFINE F == {n \in Nodes : job[<<c, n, v>>] = "failed"}
    <3>1. F \subseteq Touched(c, v) /\ Touched(c, v) \subseteq Nodes
      BY DEF Touched
    <3>2. Cardinality(F) <= Cardinality(Touched(c, v)) /\ Cardinality(F) \in Nat
          /\ Cardinality(Touched(c, v)) \in Nat
      BY <3>1, NodeSets
    <3>3. maxParallel(c) \in Nat
      BY MaxParallelType DEF maxParallel
    <3> HIDE DEF F
    <3>4. Cardinality(F) <= 2 * maxParallel(c)
      BY <3>2, <3>3 DEF HaltInv
    <3> QED BY <3>4 DEF F
  <2> QED BY <2>1, <2>2, <2>3, PTL DEF Spec
<1>2. CASE ~\A s \in Specs : s.halt
  <2>1. BlastRadius
    BY <1>2 DEF BlastRadius
  <2> QED BY <2>1, PTL
<1> QED BY <1>1, <1>2
=============================================================================
