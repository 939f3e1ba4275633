# TLA+ models of tt-k8s-driver-manager

The operator rolls Tenstorrent kernel drivers and firmware over the nodes of a
Kubernetes cluster. Two controllers run concurrently in one manager process:
one for `TenstorrentFirmwarePolicy` objects, which flashes nodes with per-node
Jobs, and one for `TenstorrentDriverPolicy` objects, which keeps a DaemonSet of
driver builder pods. These modules model the system, check it with TLC on small
instances and prove its safety properties with TLAPS for every instance.

## Inventory

| Component | State | Operations | Talks to |
|---|---|---|---|
| Firmware controller (`firmware_policy_controller.go`, `controller/drain.go`) | none of its own: everything is re-derived from Nodes, Jobs, Pods and the CR on each reconcile | observe nodes, count Jobs, claim, cordon, evict, create a flash Job, uncordon, label, publish status | API server, through informer caches for reads and merge patches for writes |
| Drain primitives (`internal/drain`) | node annotations `cordoned-by` / `cordoned-at`, `spec.unschedulable` | cordon, uncordon, list device pods, evict | both controllers |
| Flash Job (`job.go`, `flash.sh`) | the chips' firmware | fetch bundle, read back, heal, skip, homogenise, flash, assert | tt-smi, tt-flash; its exit code becomes the Job's condition |
| Driver controller (`driver_policy_controller.go`) | DaemonSet with a template-hash annotation | create/update the DaemonSet, status, clean kmd-version labels | API server, the builder pods' readiness |
| Driver drain (`driver_drain.go`) | driver cordon annotations, deploy-gate labels | prepareUpgrade (cordon, gates off, two eviction passes), uncordon ready nodes | the same nodes as the firmware controller |
| Builder (`images/driver-build/entrypoint.sh`) | loaded module, build cache, node labels | detect host install, match, unload, build, insmod, label, ready file | kernel, API server |
| Event dedup and metrics (`internal/metrics`) | in-memory set of counted events | FirstSeen, Retain, Forget, gauges | firmware controller |
| kubectl plugins, manager `main.go`, chart, generated code | - | - | - |

What is hard here:

- *Interleaving.* A reconcile is a long sequence of API calls. Jobs end, people
  use kubectl, the other controller patches the same node, and specs are edited
  between any two of them.
- *Stale reads.* All reads come from informer caches that trail the server, and
  a reconcile keeps the node copies it listed at its start.
- *Unconditional writes.* Node writes are merge patches without a resource
  version; nothing detects that the read they rest on is out of date.
- *Partial failure.* Each call may fail, or succeed and lose its reply; the loop
  carries on with the next node. The manager may die at any point.
- *Identity of work.* A Job is named by (CR, node, version) and lives for a day
  after it ends: an edit of the version or a rollback changes or revives it.
- *Liveness.* A cordoned node has to come back.

What makes the components correct: flashes within `maxParallel`; one flash per
node and only by the CR that owns it; a flash isolated from workloads when drain
is on; `haltOnFailure` bounding the damage; a truthful Ready; a cordon that is
lifted by whoever placed it, and only by them; a rollout that ends. For the
flasher: exit zero means verified. For the driver side: a node is uncordoned
only when the target version is loaded, the kmd-version label is the loaded
version, and the two controllers' cordons do not undo each other.

## Modules

- `Drain` - the primitives of `internal/drain` as operators on a node record:
  `CordonNode`, `UncordonNode`, `ListDevicePodsOnNode`, `EvictPods`, and
  `MergePatch`, the effect of `client.Patch` with `client.MergeFrom` (fields that
  changed locally overwrite, others keep the server's value). Both controllers use
  them; `ListPodsOnNode` takes the pod filter of the pass.
- `FirmwarePolicy` - the firmware controller. `node`, `job`, `pod`, `spec`,
  `gen`, `live`, `status` are the API server; `cNode`, `cJob`, `cPod` the caches;
  `pc`, `cur`, `rspec`, `snap`, `ns`, `todo`, `target`, `cap`, `halted` the locals
  of the one reconcile that is under way (one worker); `chip` is history that no
  step reads. A reconcile is `Start`, one `Observe` per node in
  any order, `CountJobs`, then per node `SkipFull` or `Claim` followed by one of
  `Cordon`, `Evict`, `Spawn`, `Uncordon`, and `Publish`. `Abandon` is a crash or a
  failed Job listing. The rest of the cluster is the actions under `Environment`.
  `Env` and `Lagging` choose which failures and which stale caches an instance has.
- `FlashRollout` - the abstract specification: claims are for good, and a flash
  begins only for the claimant, alone on the node, with a slot free.
  `FirmwarePolicy!RefinesRollout` is the refinement (owner label and Jobs).
- `Flasher` - one flash Job: `buildFlashJob`'s environment for a `spec.flasher` and
  `flash.sh`, with tools that fail, miss chips or report unknown versions.
- `FirmwareMetrics` - `FirmwarePolicy` with the in-memory `EventDedup` beside it:
  `recordFlashJobMetrics` rides on `CountJobs`, `PruneEvents` (drain timeouts and
  `Retain`) on `Publish`, a crash empties the history. `counted` is what the
  counter has been given for the present Job of each name.
- `DriverPolicy` - the driver controller, its DaemonSet, and on each node the
  builder pod and the kernel. `spec`, `gen`, `live`, `status`, `ds`, `dsStat`,
  `node`, `pod` are the API server; `bp[n]` is the builder pod's place in
  `entrypoint.sh`, the template it was rendered from and its restarts; `loaded[n]`
  is `/sys/module/tenstorrent/version`. A reconcile is `Start`; `Create`, or
  `Cordon`, `FlipGates`, `Evict` per node and `UpdateDs`; `PopulateNodeStatuses` (the
  reads of the status) and `Publish` (its write); `CleanLabel` per node; `ListReady`; `Uncordon`, `RemoveGates` per node. The DaemonSet controller
  (`DsCreatesPod`, `DsRollsPod` within maxUnavailable 25%, `DsDropsPod`,
  `DsReports`) is external. The builder is `StandDown` (host install),
  `VersionMatches`, `Unload`, `Busy`, `Load`, `Announce`; an error restarts it, also one
  of the installs between the labels and the ready marker. A behaviour begins with a new
  policy on untouched nodes (`Fresh`), one created over what a deleted policy left, its
  module, labels and maybe a half-done upgrade (`Recreated`), or a rolled-out one
  (`Settled`).
  Failures and interventions go through `Fault(kind)`: `Env` chooses the kinds, and
  `MaxFaults` bounds how many kinds one behaviour meets.
- `Operator` - both controllers on the same nodes and pods: `FirmwarePolicy`, and
  `DriverPolicy` as an instance whose node record shares `unsched` with it.
- `MCFirmwarePolicy`, `MCFirmwareMetrics`, `MCFlasher`, `MCDriverPolicy`,
  `MCOperator` - instances for TLC.
- The theorems: `FirmwarePolicyProofs` (types and slots), `OwnershipProofs`,
  `RolloutProofs` (overlap, refinement, halt) and `ReadyProofs` (isolation, Ready) for
  the firmware controller, each extending the one before; `FirmwareMetricsProofs`,
  `FlasherProofs`; `DriverPolicyProofs` (types) and `DriverSafetyProofs`.

Names follow the Go code where TLA+ allows it. Definitions whose comment starts
with "Mutant:" are deliberately wrong variants of the definition after them; no
specification uses them. They are there to confirm that each checked property
notices the bug they stand for.

Abstractions: versions are numbers; a node's nodeAffinity, NFD label and
`REQUIRE_TT_PCI_LABEL` are the constant `Selector`; the drain deadline is a stamp
that goes from fresh to expired at any time; a spec's `maxParallel` does not
change; `Publish` makes the label patches and the status update in one step
(nothing but this controller reads or writes either); an image-pull reason on a
Flashing node, events and LastTransitionTime are left out. The CR is read from
the server: a stale CR is the same as a reconcile that started earlier. A node
that leaves the cluster is not modelled.

On the driver side also: the policy's affinity, NFD label and
`REQUIRE_TT_PCI_LABEL` are the constant `Matched`, and the hosts with a DKMS install
the constant `Host`; a template is the version, `forceUnload` and the order in which
a range over `matchLabels` came out (`Orders`), since nothing else of it varies; all
deploy gates of a node are one; restarts are counted up to three, where the status
stops telling them apart; both eviction passes on a node are one step; each read
succeeds and is current when it is made, though the code reads informer caches (what it
read may be out of date when it is used), and the writes that carry a resource version (DaemonSet, status) are refused
when the object changed. The node patches a reconcile makes go through the copies it
listed (`snap`, `PatchNode`). Events, summary counts and the Progressing condition
are left out. A reboot of a node is not modelled.

## Runs

| Run | Instance | Shows |
|---|---|---|
| `rollout` | 1 CR, 2 nodes, 2 versions, one edit, a budget-guarded and a bare pod, default maxParallel; flash and write failures, crashes, deadlines (about 0.6 M states) | `TypeOK`, `ParallelismBound`, `FlashIsolated`, `ReadyIsTrue` |
| `ownership` | 2 CRs, 1 node, a pod, drain switched on and off; every failure kind (about 1.6 M) | `FlasherOwnsNode`, `ClaimsAreCurrent`, `OneFlashPerNode`, `RefinesRollout` |
| `halt` | 1 CR, 3 nodes, one slot; pausing, autoUpgrade and drain switches, flash and write failures, expiry, crashes; with the event counters (about 1.2 M) | `BlastRadius`, `SlotAccounting`, `RefinesRollout`, `CountedOnce`, `HistoryIsCurrent` |
| `converge` | 1 CR, 2 nodes, a pod, all caches lagging, nothing failing, no Job expiring (about 88 k) | `Converges`, `ReadyIsTrue` |
| `flasher` | 2 chips, 3 versions, every override and none (about 81 k) | `ExitZeroIsVerified`, `NoUnforcedDowngrade`, `MixedNodeConverges` |
| `driver` | 2 nodes, one of them host-managed, 2 versions, two edits among active, paused and undrained specs (an upgrade, also through a pause, and the drain switched off after it), from a new and from a settled policy; nothing fails (about 0.76 M) | `DoneIsTrue`, `UpgradeLands` |
| `driver_faults` | 1 node with a privileged workload and a gated telemetry pod, a first install on new nodes, one over what a deleted policy left, or an upgrade of a settled policy, at once or through a pause; one failure or intervention of any of the 17 kinds (about 0.39 M) | `TypeOK`, `ReadyIsLoaded`, `DoneIsTrue`, `GateHeldByCordon`, `SwapOutOfService`, `UpgradeLands` |

Two nodes are the smallest number on which a slot has to be shared, three the
smallest on which `BlastRadius` with one slot can be exceeded; two CRs the
smallest that contend; two versions the smallest an edit needs, and the edits of
`rollout` only go forward. Symmetry is over nodes or CRs, never in the liveness
runs. In `driver` two nodes are the smallest number on which the DaemonSet rolls one
after the other, and two edits the fewest that start an upgrade and switch its drain off;
edits during a first install are in `driver`, where nothing fails. One fault at a time in
`driver_faults` is what each retry has to survive, and a set of kinds rather than a count keeps a fault
repeatable only as far as `MaxFaults` allows. `ControlView` drops the history variables and the published status, which
no step reads, in the runs whose properties do not mention them; `ReadyView` keeps
of them what `ReadyIsTrue` reads.

Five runs end in a violation of something a comment or a document says:

- `transient`: one failed Job lookup turns a node Pending, which also means
  "ready to flash": it is flashed without cordon or drain. This is why `rollout`
  has no read errors.
- `rollback`: v1, v2, v1 within a day. The first Job is still Complete, so the
  node is Done and Ready is published with v2 on the chips.
- `label_lost`: the builder labels its node and only then touches the ready marker;
  a reconcile that sees the pod not yet Ready deletes the label, and the builder
  sleeps. The node stays without a kmd-version label, though docs/driver.md tells
  workloads to select on it. Nothing has to fail for this.
- `template_hash`: two `matchLabels` and an unchanged spec. The template's affinity
  comes out of a map range in another order, its hash differs, and every node is
  cordoned, drained and rolled. The unit test compares two renderings of a policy
  that selects on no label.
- `stomped_cordon`: a firmware policy and a driver upgrade on one node. Each
  controller lifts only its own cordon, but the two share `spec.unschedulable`: the
  first to finish lets workloads back in under the other (`FlashIsolated` is lost with
  it).

Limits of what passes. `BlastRadius` is twice maxParallel and not "the moment any
node hits Failed": the Jobs already running, plus those of a reconcile that had
looked before the failure. It counts nodes that are Failed at one time; when a
failed Job expires after its day the rollout goes on. `OneFlashPerNode` is checked
for two CRs; across an edit of one CR's version it holds only while maxParallel is 1,
where it follows from `ParallelismBound`: with two slots the new version's Job starts
beside the old one. `Converges` ends "Ready for good" only where no Job expires, and
`ReadyIsTrue` speaks of that time too: a day after a flash the Job is deleted
(`job.go:97`, `:113`; docs/troubleshooting.md:388), the controller finds no Job, and the
Done node is cordoned, drained and flashed again, though nothing failed. The formula has
the expiries as its other disjunct; `converge` leaves them out. `FlashIsolated` assumes the pod cache is current and the workload does
not tolerate the cordon. `FlasherOwnsNode` assumes a current node cache: the claim
is a blind patch. `ExitZeroIsVerified` speaks of the chips tt-smi listed; one it
did not list is not noticed. `DoneIsTrue` is about unpaused specs: pausing at an
earlier version leaves the DaemonSet rolling the later one. `SwapOutOfService`
exempts a cordon that failed (the DaemonSet is updated all the same), what people
do to the node and a policy that was created over the module of a deleted one, and speaks of the version a node announces: a first install, and a
restart after a bad tag, load without a cordon. The edits of
`driver_faults` go forward; with a paused return to the old version it does not hold (see
below). `GateHeldByCordon` exempts a lost
`removeDeployGates` patch and a crash right before it. `UpgradeLands` exempts the
failures in `NotRetried`, each of which really leaves an upgrade or a gate stuck;
what remains is that failed builds, installs, pulls, DaemonSet, status, cleanup, uncordon and
label writes are recovered from. Of a node that was cordoned for an upgrade before
`drain.enable` was switched off it asks for the version only, not for the cordon and the
gates (`Stranded`): `uncordonReadyNodes` is called for a draining policy only
(`driver_policy_controller.go:176`), so both stay until somebody lifts them.
`DoneIsTrue` rests on the listings of `populateNodeStatuses` succeeding: their error is
only logged, and the node states of an earlier version would be published under the new
one. `CountedOnce` and `HistoryIsCurrent` are about one
process and about Job lookups that do not fail.

Observations. These came up while modelling and checking and have no run of their
own:

- With maxParallel 1 all matched nodes are cordoned in one reconcile; only Jobs count
  against maxParallel, though the comment at `firmware_policy_controller.go:591` says
  in-flight nodes do.
- A person's cordon that lands between the listing and the cordon patch is adopted
  and later lifted, against docs/firmware.md:135. A cordon of a firmware CR that is
  deleted, or whose drain is switched off, is lifted by nobody. The driver side is the
  same, and there the deploy gates stay shut as well.
- The drain deadline of a node runs from its first cordon stamp, which a person's
  uncordon leaves in place: cordoned again, the node may be Failed with DrainTimeout
  before an eviction is tried.
- docs/firmware.md:58 gives `flasher.homogenizeFirmwareVersions` the default false, :99
  says that a mixed node fails without it, and the section on downgrades that they need
  `forceWrite`. In the code (`job.go:69`, asserted by `job_test.go:41`) it is true when
  `spec.flasher` is missing, and false when a `spec.flasher` leaves it out: a policy
  without one takes the newer chips of a mixed node down to its version.
  `NoUnforcedDowngrade` states what the code does.
- A driver policy that is deleted and created again finds the module and the labels of
  the first. The Create path (`driver_policy_controller.go:104`) does not call
  `prepareUpgrade`: with another version the builders unload an announced module on
  nodes in service, or stay busy under the pods that hold it.
- A Job cache that trails the last Create gives its slot twice, against the comment
  at `firmware_policy_controller.go:135`; a node cache that trails a claim lets a
  second CR claim over it.
- An eviction a budget refuses in `prepareUpgrade` is logged as "will retry"
  (`driver_drain.go:253`) and is not: the DaemonSet is updated in the same reconcile,
  after which there is nothing to prepare. The builder then exits as busy until the
  pod goes away by itself. A failed cordon and a malformed `podSelectorLabel` also go
  on to the update, on nodes still in service.
- An upgrade that is taken back by setting the old version with paused: a paused
  reconcile leaves the DaemonSet alone but still calls `uncordonReadyNodes`
  (`driver_policy_controller.go:176`), which compares the pods with the spec and not
  with the DaemonSet. The nodes that still wait to be rolled have a Ready pod of the old
  version and are uncordoned; the DaemonSet goes on rolling them and unloads the module
  in service. The attempt to prove `SwapOutOfService` without a hypothesis on pauses led
  here, and TLC confirms it on one node with no failure, in 16 states, when the edits
  are version 1 to 2 and 2 to a paused 1.
- A first install does not drain: a wrong tag loads a module that running pods may
  hold, and the builder stays busy.
- The status right after an update may read AllReady, from counts of before it.
- docs/driver.md speaks of maxUnavailable 1, the code has 25%; the controller skips
  nodes whose skip label is "true", the DaemonSet those that have any; the DaemonSet
  requires the NFD label even with `REQUIRE_TT_PCI_LABEL=false`;
  `drain.timeoutSeconds` of a driver policy is never read; a kmd-version label
  outlives a pod that is gone, though the comment at
  `driver_policy_controller.go:153` has it removed.

Fairness. In `converge`, each CR comes back to the queue (a 30 s requeue while
nodes are unfinished, and node and Job events) and the queue is first come first
served: strong fairness of `Start` per CR. A reconcile that runs goes on,
informers deliver, a Job ends (activeDeadlineSeconds at the latest) and an evicted
pod goes away: weak fairness. In `driver` and `driver_faults`, the policy is requeued every 15 s
while pods are not Ready and on every event of the policy, its DaemonSet or any node,
whose kubelets report every few minutes, so a reconcile starts again and again and
runs on: weak fairness of `Reconcile`. The DaemonSet controller, the kubelets and the
builder do their work, a container that exits is restarted, and a pod being deleted
goes away: weak fairness of each. Nothing is assumed of users, and no failure is fair.

## Proofs

The theorems hold for all sets of nodes, CRs, versions, pods, specs and
edits, all selectors and maxParallel values, and all choices of `Env` and
`Lagging` (for the driver side: all choices of `Env`, `MaxFaults`, `Host` and
`Orders`), under the named assumptions of the modules: nodes, the firmware's versions
and a node's chips (`ChipsFinite`) are finite, `None` is none of the values, a Job's
name is no node's (`KeysApart`), and the constants have their types. Where a theorem of
the firmware side excludes failures or stale caches, it does so in a hypothesis with a
name, and the text below says what goes wrong without it. The theorems of the driver side
are about a specification in which reads are current (see the abstractions): stale caches
are left out there by the model, not by a hypothesis. What a driver property exempts is
in the property itself.

### Firmware controller

- `TypeCorrect`: `Spec => []TypeOK`. Inductive as it stands, because it ties the
  step of the reconcile to its locals: one that is under way has a CR and a spec,
  one that acts has a node.
- `MaxParallelHolds` and `CapacityIsTrue`: `TrueJobReads` implies
  `Spec => []ParallelismBound` and `Spec => []SlotAccounting`. The bound is
  not inductive: `Spawn` looks at `cap` and not at the Jobs. `SlotAccounting`
  closes the gap: from `CountJobs` on, running Jobs plus `cap` fit in maxParallel,
  and an action that creates a Job has `cap > 0`. `OnlySpawnStartsJobs` and the two
  lemmas on counting reduce every other step to "the Jobs only get fewer".
  `TrueJobReads` (a current Job cache, no Create that loses its reply) is needed:
  with a lagging cache TLC finds a second flash at maxParallel 1.
- `OwnerFlashes` and `ClaimsHold`: `CurrentNodeReads` implies
  `Spec => []FlasherOwnsNode` and `Spec => []ClaimsAreCurrent`.
  Ownership is not inductive, because a claim patches the label without looking at
  the server. `ClaimsAreCurrent` closes the gap: from listing to claim the label of
  every node on the reconcile's list is still the one it read, unset or its own
  name. So a claim takes a node from nobody, and nobody can be flashing or holding
  a node that has no owner. Lost replies, crashes, CR deletion and kubectl cannot
  break it; `CurrentNodeReads` (the node cache is current when listed) is needed,
  as one reconcile may otherwise miss another's claim.
- `FlashesNeverOverlap`: `CurrentNodeReads /\ NoOverlap => (Spec => []OneFlashPerNode)`.
  Ownership keeps two CRs apart. One CR's own flashes of a node are kept apart by
  `NoOverlap`: no edit changes a version, or every CR has one slot and true Job
  reads. Nothing in the code does it otherwise: Jobs are named by version, and with
  two slots an edit starts a second flash beside the first. Where versions stay, the
  invariant is that every Job of a CR is of its spec's version (`VersionInv`).
- `RolloutImplemented`: `Spec => RefinesRollout`, with `TrueJobReads` besides. The
  refinement step by step: `Claim` is the abstract claim or a stutter, `Spawn` the
  abstract begin, whose guards are what the theorems above supply (the claimant, alone
  on the node, with a slot free), a Job that ends or is dropped the abstract end, and
  all else stutters.
- `HaltBoundsDamage`: `Spec => []BlastRadius`, for every maxParallel. What is bounded
  inductively is the nodes of a version that are running or failed (`Touched`), and
  the argument is about one reconcile: while it observes, it has found a failure, or
  the nodes whose failure it can no longer find were running when it looked, and are
  no more than maxParallel; when it advances, those plus its slots fit in twice that
  (`HaltInv`). Besides true Job and node reads `NothingHidden` is needed: a Job lookup that fails, or a skip label,
  makes a Failed node look like another to the one check that stops the rollout.
- `FlashesAreIsolated`: `Spec => []FlashIsolated`. The cordon and the pods are looked
  at in `Observe`, the Job is created steps later, in a reconcile that may be
  one of several: `IsolFindings` says that what makes a node Pending stays so until the
  reconcile ends, and that a node found Uncordoning has no running Job of any
  version. `CordonsTrusted` (current Job and pod caches, lookups that succeed, nobody
  uncordons), `WorkloadsRespectCordons` and `NoOverlap` are each needed; the run
  `transient` shows it for the lookups. `EditsGoForward` is: after an edit back to
  a version whose Job is still Complete the node is uncordoned under the
  Job of the other version. The property is about specs with drain on.
- `ReadyHolds`: `Spec => []ReadyIsTrue`. Ready is a statement about chips that no step
  of the controller reads. `NewestOnChips` connects them: the chips of a node carry the
  version of its newest succeeded Job, which is why `EditsGoForward` is needed (the run
  `rollback` is the counterexample) and `JobsKept` (after its day a Job's name is free,
  and the Done node is flashed again). `StatusNotNewer` and `FindingsHold` carry it
  over reconciles that read an older spec than the one they publish under.

`EditsGoForward` asks for some partial order on the versions along which all edits
go: it excludes coming back to a version, not downgrades.

### Event counters and flasher

- `FlashesCountedOnce` and `HistoryHolds` (`FirmwareMetricsProofs`): `JobsSeen` implies
  `MSpec => []CountedOnce` and `MSpec => []HistoryIsCurrent`. Both rest on
  `MetricsInv`: what is counted is in the history and among the keys the reconcile
  under way will retain (`CountsRecorded`), what is in the history and will be retained
  is counted or its Job is gone (`HistoryCounted`), and a Job the reconcile may create is not
  among those keys (`NewJobsUnlisted`), so a Job that comes back under its old name has
  been forgotten. A stale or failing Job lookup (`JobsSeen`) breaks the last.
- `SuccessIsVerified`, `DowngradesAreAskedFor`, `MixedNodesEndAtTarget`
  (`FlasherProofs`): `ExitZeroIsVerified`, `NoUnforcedDowngrade` and
  `MixedNodeConverges` of every run of the script, for any number of chips and without a
  hypothesis. `FlasherInv` follows the script: its environment is the one rendered from
  `spec.flasher` (`Templated`),
  until tt-flash runs the chips are as they were, a readback without unknowns is of the chips it lists (so two versions in it
  mean a mixed node), `--force` has a reason, and a clean run leaves no chip out.

### Driver controller

- `DriverTypeCorrect` (`DriverPolicyProofs`): `Spec => []TypeOK` for `DriverPolicy`,
  inductive for the same reason as `TypeCorrect`.
- `ReadyMeansLoaded` (`DriverSafetyProofs`): `Spec => []ReadyIsLoaded`. The
  strengthening `LoadedAsRendered` starts at the insmod: from there to Ready the
  kernel runs the template's version, and a builder about to load finds no module.
- `DoneIsLoaded`: `Spec => []DoneIsTrue`. A status stays published while everything
  under it moves, so the invariant has to say why nothing can take a Done node away
  from its version: module, DaemonSet and builder pod are all at it
  (`DoneEverywhere`), and a reconcile under way never read an older spec than the one
  that published (`ReadInOrder`: one worker, and status writes are refused after an
  edit).
- `GatesAreHeld`: `Spec => []GateHeldByCordon`. Between the listing and each patch the
  reconcile works on copies; `CopiesAgree` says they agree with the server on who
  cordoned the node, since no one else writes that annotation, and `GivingBack` that
  the copy agrees on the gate in the step between the two patches.
- `SwapsAreOutOfService`: `PausesKeepTarget => (Spec => SwapOutOfService)`, an action
  property. `SwapInv` says why an unload finds its node cordoned: a node in service is
  at the DaemonSet's version, pod and module, or has never announced one (`InService`);
  the DaemonSet changes only after every matched node was cordoned (`Prepared`); and
  the nodes about to be given back stay at the version they were found at (`Returned`).
  The last needs that a pod of the version the reconcile read is of the DaemonSet's
  version (`TargetRolled`). Where nothing is paused the reconcile has updated the
  DaemonSet by then; where the policy is paused but versions only go forward, pods trail
  the DaemonSet and the DaemonSet the spec (`Trailing`). `PausesKeepTarget` is the
  disjunction of the two, and outside it lies the paused return described under the
  observations. The property exempts failed cordons, people, and a policy created over
  the module of a deleted one ("recreate"), whose DaemonSet is created undrained; the
  invariant is about the behaviours without them.

### Only model-checked

Liveness (`Converges`, `UpgradeLands`) stays with TLC, since TLAPS has no fairness
reasoning here. Every invariant and action property of a passing run is stated by a
theorem; two of the runs also go where its hypotheses do not: `converge` checks
`ReadyIsTrue` with all caches lagging (and nothing failing), and `ownership` checks
`RefinesRollout` with Creates that lose their reply and lookups that fail, on one node.

## Plan

1. Done: `Drain`, `FirmwarePolicy`, `FlashRollout`, `Flasher`, `FirmwareMetrics`,
   `DriverPolicy`, `Operator`, and the proofs above.
2. Next: weaker hypotheses where the code gives more than a theorem asks for
   (`ReadyHolds` with caches that trail, as `converge` checks it; isolation under
   edits that return to a version whose Job has expired), and what `Operator` keeps of
   the two controllers' theorems when both run.

## Not modelled

- Metrics gauges, histograms and events: output that no decision reads. Of
  `EventDedup`, `Forget` and the return of a deleted CR under its name.
- `main.go` beyond running the two controllers side by side; leader election.
- The files the builder copies to the host (tt-smi, the udev rule; that copying them
  fails is modelled) and its build cache.
- Stale informer caches of the driver controller, and reads of it that fail.
- Several driver policies on one node: docs/driver.md requires disjoint selectors and
  nothing enforces it. A forced unload that kills a flash under way.
- Node reboots and nodes leaving the cluster.
- The kubectl plugins, the chart, generated code, and MOCK mode of the flasher.
