--------------------------- MODULE FirmwarePolicy ---------------------------
(***************************************************************************)
(* The firmware controller: FirmwarePolicyReconciler.Reconcile, run by one *)
(* worker over all the TenstorrentFirmwarePolicy objects, against an API   *)
(* server whose objects other parties change between any two of its calls. *)
(*                                                                         *)
(* A reconcile is the steps Start (read the CR, list and partition the     *)
(* nodes), Observe (one node), CountJobs, then per advanceable node Claim  *)
(* and one of Cordon, Evict, Spawn, Uncordon, and last Publish.            *)
(***************************************************************************)
EXTENDS Drain, Integers, FiniteSets

CONSTANTS
  Nodes, Crs, Versions,
  Selector,      \* Selector[c]: the nodes c's affinity and the NFD label admit
  MaxParallel,   \* MaxParallel[c]: spec.upgradePolicy.maxParallel, 0 if unset
  Specs,         \* the CR specs a user may write
  Edits,         \* the pairs <<old, new>> of specs a user may go through
  MaxGen,        \* bound: edits of one CR's spec
  Lagging,       \* the informer caches that may trail the API server
  Env            \* the failures and outside interventions that may happen

CacheKinds == {"node", "job", "pod"}
EnvKinds == {"jobfail", "ttl", "skip", "cordon", "uncordon", "delete", "crash",
             "deadline", "readerr", "writeerr", "lostreply"}
SpecRec == [version : Versions, paused : BOOLEAN, auto : BOOLEAN,
            halt : BOOLEAN, drain : BOOLEAN, force : BOOLEAN]
PodSpecRec == [node : Nodes, operatorNs : BOOLEAN, device : BOOLEAN,
               owner : {"none", "DaemonSet", "ReplicaSet"},
               tolerates : BOOLEAN, guarded : BOOLEAN]

ASSUME NodesFinite == IsFiniteSet(Nodes)
ASSUME VersionsFinite == IsFiniteSet(Versions)
ASSUME NoneFresh == None \notin Crs /\ None \notin Nodes /\ None \notin Versions
ASSUME StampFresh == None # "fresh" /\ None # "expired"
ASSUME SelectorType == Selector \in [Crs -> SUBSET Nodes]
ASSUME MaxParallelType == MaxParallel \in [Crs -> Nat]
ASSUME SpecsType == Specs \subseteq SpecRec
ASSUME EditsType == Edits \subseteq Specs \X Specs
ASSUME MaxGenType == MaxGen \in Nat
ASSUME LaggingType == Lagging \subseteq CacheKinds
ASSUME EnvType == Env \subseteq EnvKinds
ASSUME PodSpecType == PodSpec \in [Pods -> PodSpecRec]

VARIABLES
  spec, gen, live, status,   \* the CRs on the API server
  node, job, pod,            \* the other objects on the API server
  cNode, cJob, cPod,         \* the informer caches of those three
  chip,                      \* the firmware last known to be on a node's chips
  pc, cur, rspec, rgen,      \* the reconcile: its step, CR and the CR as read
  snap,                      \* its local copies of the nodes
  ns,                        \* nodeStates
  todo, target,              \* nodes its loop has still to visit, the one it is at
  cap, halted                \* capacity, halted

crVars == <<spec, gen, live>>
cacheVars == <<cNode, cJob, cPod>>
readVars == <<cur, rspec, rgen>>
loopVars == <<todo, target, cap, halted>>
localVars == <<pc, readVars, snap, ns, loopVars>>
vars == <<crVars, status, node, job, pod, cacheVars, chip, localVars>>

NodeStates == {"Pending", "Cordoning", "Draining", "Flashing", "Uncordoning",
               "Done", "Failed"}
Reasons == {"", "NodeConflict", "ExternalCordon", "TransientAPIError",
            "FlashSucceeded", "FlashJobFailed", "Flashing", "Cordoning",
            "Draining", "DrainTimeout", "EvictionBlocked", "Uncordoning",
            "AutoUpgradeDisabled", "Paused", "RolloutHalted"}
NodeStatus == [state : NodeStates \cup {"unlisted"}, reason : Reasons]
Unlisted == [state |-> "unlisted", reason |-> ""]
Is(st, r) == [state |-> st, reason |-> r]

NodeRec == [unsched : BOOLEAN, by : Crs \cup {None}, at : Stamps,
            owner : Crs \cup {None}, skip : BOOLEAN,
            fwver : Versions \cup {None}]
JobKeys == Crs \X Nodes \X Versions
JobStates == {"none", "running", "succeeded", "failed"}
Status == [version : Versions \cup {None},
           ready : {"unset", "NodesFailed", "NodesPending", "AllUpToDate"},
           nodes : [Nodes -> NodeStatus]]

CrTypes ==
  /\ spec \in [Crs -> Specs]
  /\ gen \in [Crs -> 0..MaxGen]
  /\ live \in [Crs -> BOOLEAN]
  /\ status \in [Crs -> Status]
ObjectTypes ==
  /\ node \in [Nodes -> NodeRec]
  /\ job \in [JobKeys -> JobStates]
  /\ pod \in [Pods -> PodPhases]
  /\ chip \in [Nodes -> Versions \cup {None}]
CacheTypes ==
  /\ cNode \in [Nodes -> NodeRec]
  /\ cJob \in [JobKeys -> JobStates]
  /\ cPod \in [Pods -> PodPhases]
ReadTypes ==
  /\ pc \in {"idle", "observe", "advance", "act"}
  /\ cur \in Crs \cup {None}
  /\ rspec \in Specs \cup {None}
  /\ rgen \in 0..MaxGen
  /\ pc # "idle" => cur \in Crs /\ rspec \in Specs
LoopTypes ==
  /\ snap \in [Nodes -> NodeRec]
  /\ ns \in [Nodes -> NodeStatus]
  /\ todo \in SUBSET Nodes
  /\ target \in Nodes \cup {None}
  /\ pc = "act" => target \in Nodes
  /\ cap \in Int
  /\ halted \in BOOLEAN

\* Type correctness: in particular a reconcile under way has a CR and a spec, and
\* one that is acting on a node has that node.
TypeOK == CrTypes /\ ObjectTypes /\ CacheTypes /\ ReadTypes /\ LoopTypes

-----------------------------------------------------------------------------
(* The Go helpers. *)

\* maxParallel with its default.
maxParallel(c) == IF MaxParallel[c] = 0 THEN 1 ELSE MaxParallel[c]

isInFlight(s) == s \in {"Cordoning", "Draining", "Flashing", "Uncordoning"}

\* Mutant: a node that only has its cordon to lose is taken for finished.
AdvanceableUntilFlashed(s) == s \in {"Pending", "Cordoning", "Draining"}

isAdvanceable(s) == s \in {"Pending", "Cordoning", "Draining", "Uncordoning"}

\* What the client's reads return: the cache where it may trail, else the server.
NodeView == IF "node" \in Lagging THEN cNode ELSE node
JobView == IF "job" \in Lagging THEN cJob ELSE job
PodView == IF "pod" \in Lagging THEN cPod ELSE pod

\* The nodes a CR matches, in a listing of the nodes.
matchedNodes(c, nodes) == {n \in Selector[c] : ~nodes[n].skip}

\* Mutant: the owned-by label is not looked at.
OwnedWhateverLabel(c, nodes) == matchedNodes(c, nodes)

\* The matched nodes that no other CR has claimed.
owned(c, nodes) == {n \in matchedNodes(c, nodes) : nodes[n].owner \in {None, c}}

\* The unfinished Jobs of a CR, of any version, in a listing of the Jobs.
InFlightJobs(c, jobs) ==
  {nv \in Nodes \X Versions : jobs[<<c, nv[1], nv[2]>>] = "running"}
countInFlightJobs(c, jobs) == Cardinality(InFlightJobs(c, jobs))

\* observeNode without a Job for the desired version: the pre-flash gates.
ObservePreFlash(c, s, local, n, phase) ==
  IF ~s.drain THEN Is("Pending", "")
  ELSE IF ~local.unsched THEN Is("Cordoning", "Cordoning")
  ELSE IF local.by # c THEN Is("Pending", "ExternalCordon")
  ELSE IF ListDevicePodsOnNode(phase, n, s.force) = {} THEN Is("Pending", "")
  ELSE IF local.at = "expired" THEN Is("Failed", "DrainTimeout")
  ELSE Is("Draining", "Draining")

\* Mutant: a Job of any version counts, as if its name did not carry one.
observeAnyVersion(c, s, local, n, jobs, phase) ==
  LET Some(st) == \E v \in Versions : jobs[<<c, n, v>>] = st IN
  CASE Some("succeeded") -> IF s.drain /\ local.by = c
                            THEN Is("Uncordoning", "Uncordoning")
                            ELSE Is("Done", "FlashSucceeded")
    [] Some("failed")    -> Is("Failed", "FlashJobFailed")
    [] Some("running")   -> Is("Flashing", "Flashing")
    [] OTHER             -> ObservePreFlash(c, s, local, n, phase)

\* Mutant: a node whose flash succeeded is Done before its cordon is lifted.
observeDoneCordoned(c, s, local, n, jobs, phase) ==
  LET j == jobs[<<c, n, s.version>>] IN
  CASE j = "succeeded" -> Is("Done", "FlashSucceeded")
    [] j = "failed"    -> Is("Failed", "FlashJobFailed")
    [] j = "running"   -> Is("Flashing", "Flashing")
    [] OTHER           -> ObservePreFlash(c, s, local, n, phase)

\* observeNode: the node's position, derived from the Job for the desired
\* version, the local copy of the node and the pods on it.
observeNode(c, s, local, n, jobs, phase) ==
  LET j == jobs[<<c, n, s.version>>] IN
  CASE j = "succeeded" -> IF s.drain /\ local.by = c
                          THEN Is("Uncordoning", "Uncordoning")
                          ELSE Is("Done", "FlashSucceeded")
    [] j = "failed"    -> Is("Failed", "FlashJobFailed")
    [] j = "running"   -> Is("Flashing", "Flashing")
    [] OTHER           -> ObservePreFlash(c, s, local, n, phase)

\* What observeNode reports when one of its reads fails: the Job lookup, or the
\* pod listing it only reaches for a node it cordoned and has no Job for.
ObserveErrors(c, s, local, n, jobs) ==
  {Is("Pending", "TransientAPIError")} \cup
  IF /\ jobs[<<c, n, s.version>>] = "none"
     /\ s.drain /\ local.unsched /\ local.by = c
  THEN {Is("Draining", "TransientAPIError")} ELSE {}

\* halted: HaltOnFailure is on and some listed node is Failed.
Halted(s, states) == s.halt /\ \E n \in Nodes : states[n].state = "Failed"

\* Mutant: a Failed node does not stop the loop.
AdvanceIgnoringHalt(s, states) ==
  IF ~s.auto \/ s.paused THEN {}
  ELSE {n \in Nodes : isAdvanceable(states[n].state)
                      /\ states[n].reason \notin {"NodeConflict", "ExternalCordon"}}

\* Mutant: the loop no longer tells a foreign cordon or a foreign owner apart.
AdvanceUngated(s, states) ==
  IF ~s.auto \/ s.paused \/ Halted(s, states) THEN {}
  ELSE {n \in Nodes : isAdvanceable(states[n].state)}

\* The nodes the advance loop will call advanceNode for, capacity permitting.
ToAdvance(s, states) ==
  IF ~s.auto \/ s.paused \/ Halted(s, states) THEN {}
  ELSE {n \in Nodes : isAdvanceable(states[n].state)
                      /\ states[n].reason \notin {"NodeConflict", "ExternalCordon"}}

\* The reason of a Pending node that policy, not capacity, is holding back.
Explain(s, h, st) ==
  IF st # Is("Pending", "") THEN st
  ELSE IF ~s.auto THEN Is("Pending", "AutoUpgradeDisabled")
  ELSE IF s.paused THEN Is("Pending", "Paused")
  ELSE IF h THEN Is("Pending", "RolloutHalted")
  ELSE st

\* setTopLevelConditions: the reason of the Ready condition.  A CR that matches
\* no node is ready.
TopLevelCondition(states) ==
  LET Some(P(_)) == \E n \in Nodes : P(states[n].state)
      IsFailed(s) == s = "Failed"
      IsUnfinished(s) == s = "Pending" \/ isInFlight(s)
  IN IF Some(IsFailed) THEN "NodesFailed"
     ELSE IF Some(IsUnfinished) THEN "NodesPending"
     ELSE "AllUpToDate"

NewNode == [unsched |-> FALSE, by |-> None, at |-> None, owner |-> None,
            skip |-> FALSE, fwver |-> None]

Init ==
  /\ spec \in [Crs -> Specs]
  /\ gen = [c \in Crs |-> 0]
  /\ live = [c \in Crs |-> TRUE]
  /\ status = [c \in Crs |-> [version |-> None, ready |-> "unset",
                              nodes |-> [n \in Nodes |-> Unlisted]]]
  /\ node = [n \in Nodes |-> NewNode] /\ cNode = node
  /\ job = [k \in JobKeys |-> "none"] /\ cJob = job
  /\ pod = [p \in Pods |-> "absent"] /\ cPod = pod
  /\ chip = [n \in Nodes |-> None]
  /\ pc = "idle" /\ cur = None /\ rspec = None /\ rgen = 0
  /\ snap = [n \in Nodes |-> NewNode]
  /\ ns = [n \in Nodes |-> Unlisted]
  /\ todo = {} /\ target = None /\ cap = 0 /\ halted = FALSE

-----------------------------------------------------------------------------
(* The reconcile. *)

\* Reconcile's head: read the CR, list the matched nodes, set the conflicts
\* aside.  A CR that is gone is left alone.  The single worker is idle.
Start(c) ==
  /\ pc = "idle" /\ live[c]
  /\ pc' = "observe" /\ cur' = c /\ rspec' = spec[c] /\ rgen' = gen[c]
  /\ snap' = NodeView
  /\ todo' = owned(c, NodeView)
  /\ ns' = [n \in Nodes |->
              IF n \in matchedNodes(c, NodeView) \ owned(c, NodeView)
              THEN Is("Pending", "NodeConflict") ELSE Unlisted]
  /\ UNCHANGED <<crVars, status, node, job, pod, cacheVars, chip,
                 target, cap, halted>>

\* The first pass, one node: nothing on the server changes.
Observe(n) ==
  /\ pc = "observe" /\ n \in todo
  /\ \E st \in {observeNode(cur, rspec, snap[n], n, JobView, PodView)} \cup
               (IF "readerr" \in Env
                THEN ObserveErrors(cur, rspec, snap[n], n, JobView) ELSE {}) :
       ns' = [ns EXCEPT ![n] = st]
  /\ todo' = todo \ {n}
  /\ UNCHANGED <<crVars, status, node, job, pod, cacheVars, chip,
                 pc, readVars, snap, target, cap, halted>>

\* Mutant: capacity ignores the Jobs that are already running.
CountNoJobs ==
  /\ pc = "observe" /\ todo = {}
  /\ halted' = Halted(rspec, ns)
  /\ cap' = maxParallel(cur)
  /\ todo' = ToAdvance(rspec, ns)
  /\ pc' = "advance"
  /\ UNCHANGED <<crVars, status, node, job, pod, cacheVars, chip,
                 readVars, snap, ns, target>>

\* Between the passes: whether the rollout is halted, and how many slots the
\* CR's unfinished Jobs leave.
CountJobs ==
  /\ pc = "observe" /\ todo = {}
  /\ halted' = Halted(rspec, ns)
  /\ cap' = maxParallel(cur) - countInFlightJobs(cur, JobView)
  /\ todo' = ToAdvance(rspec, ns)
  /\ pc' = "advance"
  /\ UNCHANGED <<crVars, status, node, job, pod, cacheVars, chip,
                 readVars, snap, ns, target>>

\* A node that would take a fresh slot is passed over when none is left.
NeedsSlot(n) == ns[n].state = "Pending"
SkipFull(n) ==
  /\ pc = "advance" /\ n \in todo /\ NeedsSlot(n) /\ cap <= 0
  /\ todo' = todo \ {n}
  /\ UNCHANGED <<crVars, status, node, job, pod, cacheVars, chip,
                 pc, readVars, snap, ns, target, cap, halted>>

\* advanceNode begins: claimOwnership labels the node.  The reply to a patch
\* refreshes the local copy; a failed claim ends this node's turn.
Claim(n) ==
  /\ pc = "advance" /\ n \in todo /\ ~(NeedsSlot(n) /\ cap <= 0)
  /\ LET new == [snap[n] EXCEPT !.owner = cur]
         patched == [node EXCEPT ![n] = MergePatch(node[n], snap[n], new)]
     IN \/ /\ snap[n].owner = cur
           /\ pc' = "act" /\ target' = n
           /\ UNCHANGED <<node, snap, todo>>
        \/ /\ snap[n].owner # cur
           /\ node' = patched
           /\ snap' = [snap EXCEPT ![n] = patched[n]]
           /\ pc' = "act" /\ target' = n
           /\ UNCHANGED todo
        \/ /\ snap[n].owner # cur
           /\ \/ "writeerr" \in Env /\ UNCHANGED node
              \/ "lostreply" \in Env /\ node' = patched
           /\ snap' = [snap EXCEPT ![n] = new]
           /\ todo' = todo \ {n}
           /\ UNCHANGED <<pc, target>>
  /\ UNCHANGED <<crVars, status, job, pod, cacheVars, chip,
                 readVars, ns, cap, halted>>

\* Mutant: the loop goes on with a node it has already let go of.
NodeForgotten ==
  /\ pc' = pc /\ todo' = todo \ {target} /\ target' = None

\* The loop moves on from the node advanceNode was called for.
NodeVisited ==
  /\ pc' = "advance" /\ todo' = todo \ {target} /\ target' = None

\* advanceNode for a node that is not cordoned yet.
Cordon ==
  /\ pc = "act" /\ ns[target].state = "Cordoning"
  /\ \/ node' = [node EXCEPT ![target] =
                   MergePatch(@, snap[target], CordonNode(snap[target], cur))]
     \/ "writeerr" \in Env /\ UNCHANGED node
  /\ NodeVisited
  /\ UNCHANGED <<crVars, status, job, pod, cacheVars, chip,
                 readVars, snap, ns, cap, halted>>

\* advanceNode for a cordoned node that device pods still use.  Evictions a
\* disruption budget refuses are passed over; any other error (or failing to
\* list the pods) ends the node's turn with the earlier evictions done.
Evict ==
  /\ pc = "act" /\ ns[target].state = "Draining"
  /\ LET pods == ListDevicePodsOnNode(PodView, target, rspec.force) IN
     \E evicted \in SUBSET pods, blocked \in SUBSET {p \in pods : PodSpec[p].guarded} :
       /\ evicted \cap blocked = {}
       /\ \/ evicted \cup blocked = pods
          \/ "writeerr" \in Env \/ "readerr" \in Env
       /\ pod' = EvictPods(pod, evicted)
       /\ ns' = IF blocked = {} THEN ns
                ELSE [ns EXCEPT ![target].reason = "EvictionBlocked"]
  /\ NodeVisited
  /\ UNCHANGED <<crVars, status, node, job, cacheVars, chip,
                 readVars, snap, cap, halted>>

\* The Job spawnFlashJob creates for the node at hand.
FlashJob == <<cur, target, rspec.version>>

\* Mutant: the slot is not taken when the Job is created.
SpawnKeepingSlot ==
  /\ pc = "act" /\ ns[target].state = "Pending"
  /\ job' = [job EXCEPT ![FlashJob] = IF @ = "none" THEN "running" ELSE @]
  /\ ns' = [ns EXCEPT ![target] = Is("Flashing", "Flashing")]
  /\ cap' = cap
  /\ NodeVisited
  /\ UNCHANGED <<crVars, status, node, pod, cacheVars, chip,
                 readVars, snap, halted>>

\* advanceNode for a node that is ready: create the flash Job.  AlreadyExists
\* is a success.  Once the Create is accepted the node counts as Flashing and
\* the slot is spent, whatever becomes of the annotation and label patches that
\* follow (nothing reads those).  An error from Create leaves both as they were,
\* even when the Job was created and only the reply was lost.
Spawn ==
  /\ pc = "act" /\ ns[target].state = "Pending"
  /\ \/ /\ job' = [job EXCEPT ![FlashJob] = IF @ = "none" THEN "running" ELSE @]
        /\ ns' = [ns EXCEPT ![target] = Is("Flashing", "Flashing")]
        /\ cap' = cap - 1
     \/ "writeerr" \in Env /\ UNCHANGED <<job, ns, cap>>
     \/ /\ "lostreply" \in Env /\ job[FlashJob] = "none"
        /\ job' = [job EXCEPT ![FlashJob] = "running"]
        /\ UNCHANGED <<ns, cap>>
  /\ NodeVisited
  /\ UNCHANGED <<crVars, status, node, pod, cacheVars, chip,
                 readVars, snap, halted>>

\* advanceNode for a node whose flash succeeded while this CR holds its cordon.
Uncordon ==
  /\ pc = "act" /\ ns[target].state = "Uncordoning"
  /\ \/ node' = [node EXCEPT ![target] =
                   MergePatch(@, snap[target], UncordonNode(snap[target], cur))]
     \/ "writeerr" \in Env /\ UNCHANGED node
  /\ NodeVisited
  /\ UNCHANGED <<crVars, status, job, pod, cacheVars, chip,
                 readVars, snap, ns, cap, halted>>

\* The reconcile returns; nothing of it survives but what is on the server.
Return ==
  /\ pc' = "idle" /\ cur' = None /\ rspec' = None /\ rgen' = 0
  /\ snap' = [n \in Nodes |-> NewNode]
  /\ ns' = [n \in Nodes |-> Unlisted]
  /\ todo' = {} /\ target' = None /\ cap' = 0 /\ halted' = FALSE

\* The nodes whose fw-version label Publish rewrites.
StaleLabels == {n \in Nodes : ns[n].state = "Done" /\ snap[n].fwver # rspec.version}

\* Reconcile's tail: explain the idle nodes, label the Done ones (errors of
\* these patches are dropped) and update the CR's status.  The update is refused
\* when the CR was edited or deleted since it was read.
Publish ==
  /\ pc = "advance" /\ todo = {}
  /\ \E labelled \in (IF "writeerr" \in Env THEN SUBSET StaleLabels ELSE {StaleLabels}) :
       node' = [n \in Nodes |-> IF n \in labelled
                                THEN [node[n] EXCEPT !.fwver = rspec.version]
                                ELSE node[n]]
  /\ LET states == [n \in Nodes |-> Explain(rspec, halted, ns[n])]
         new == [version |-> rspec.version,
                 ready |-> TopLevelCondition(states), nodes |-> states]
     IN \/ /\ live[cur] /\ rgen = gen[cur]
           /\ status' = [status EXCEPT ![cur] = new]
        \/ /\ ~live[cur] \/ rgen # gen[cur] \/ "writeerr" \in Env
           /\ UNCHANGED status
  /\ Return
  /\ UNCHANGED <<crVars, job, pod, cacheVars, chip>>

\* The reconcile ends early: the manager dies and restarts, or the Job listing
\* fails.
Abandon ==
  /\ pc # "idle"
  /\ \/ "crash" \in Env
     \/ "readerr" \in Env /\ pc = "observe" /\ todo = {}
  /\ Return
  /\ UNCHANGED <<crVars, status, node, job, pod, cacheVars, chip>>

Reconcile ==
  \/ \E c \in Crs : Start(c)
  \/ \E n \in Nodes : Observe(n) \/ SkipFull(n) \/ Claim(n)
  \/ CountJobs \/ Cordon \/ Evict \/ Spawn \/ Uncordon
  \/ Publish \/ Abandon

-----------------------------------------------------------------------------
(* The rest of the cluster. *)

\* The informers deliver what happened to one kind of object.
SyncNodes ==
  /\ "node" \in Lagging /\ cNode # node /\ cNode' = node
  /\ UNCHANGED <<crVars, status, node, job, pod, cJob, cPod, chip, localVars>>
SyncJobs ==
  /\ "job" \in Lagging /\ cJob # job /\ cJob' = job
  /\ UNCHANGED <<crVars, status, node, job, pod, cNode, cPod, chip, localVars>>
SyncPods ==
  /\ "pod" \in Lagging /\ cPod # pod /\ cPod' = pod
  /\ UNCHANGED <<crVars, status, node, job, pod, cNode, cJob, chip, localVars>>

\* The Job controller records the flasher's exit.  A zero exit asserts that the
\* chips read back the Job's version; after any other they are in doubt.
JobSucceeds(c, n, v) ==
  /\ job[<<c, n, v>>] = "running"
  /\ job' = [job EXCEPT ![<<c, n, v>>] = "succeeded"]
  /\ chip' = [chip EXCEPT ![n] = v]
  /\ UNCHANGED <<crVars, status, node, pod, cacheVars, localVars>>
JobFails(c, n, v) ==
  /\ "jobfail" \in Env /\ job[<<c, n, v>>] = "running"
  /\ job' = [job EXCEPT ![<<c, n, v>>] = "failed"]
  /\ chip' = [chip EXCEPT ![n] = None]
  /\ UNCHANGED <<crVars, status, node, pod, cacheVars, localVars>>

\* ttlSecondsAfterFinished: a finished Job is deleted after a day.
JobExpires(c, n, v) ==
  /\ "ttl" \in Env /\ job[<<c, n, v>>] \in {"succeeded", "failed"}
  /\ job' = [job EXCEPT ![<<c, n, v>>] = "none"]
  /\ UNCHANGED <<crVars, status, node, pod, cacheVars, chip, localVars>>

\* A user deletes a CR; the Jobs it owns are garbage collected, running or not.
DeleteCr(c) ==
  /\ "delete" \in Env /\ live[c]
  /\ live' = [live EXCEPT ![c] = FALSE]
  /\ UNCHANGED <<spec, gen, status, node, job, pod, cacheVars, chip, localVars>>
CollectJob(c, n, v) ==
  /\ ~live[c] /\ job[<<c, n, v>>] # "none"
  /\ job' = [job EXCEPT ![<<c, n, v>>] = "none"]
  /\ chip' = [chip EXCEPT ![n] = IF job[<<c, n, v>>] = "running" THEN None ELSE @]
  /\ UNCHANGED <<crVars, status, node, pod, cacheVars, localVars>>

\* A user edits a CR's spec.
EditSpec(c) ==
  /\ live[c] /\ gen[c] < MaxGen
  /\ \E s \in Specs : <<spec[c], s>> \in Edits /\ spec' = [spec EXCEPT ![c] = s]
  /\ gen' = [gen EXCEPT ![c] = @ + 1]
  /\ UNCHANGED <<live, status, node, job, pod, cacheVars, chip, localVars>>

\* A person cordons a schedulable node, or uncordons one: kubectl touches
\* spec.unschedulable and leaves the annotations.
HumanCordon(n) ==
  /\ "cordon" \in Env /\ ~node[n].unsched
  /\ node' = [node EXCEPT ![n].unsched = TRUE]
  /\ UNCHANGED <<crVars, status, job, pod, cacheVars, chip, localVars>>
HumanUncordon(n) ==
  /\ "uncordon" \in Env /\ node[n].unsched
  /\ node' = [node EXCEPT ![n].unsched = FALSE]
  /\ UNCHANGED <<crVars, status, job, pod, cacheVars, chip, localVars>>

\* A person sets or clears the node's skip label.
ToggleSkip(n) ==
  /\ "skip" \in Env
  /\ node' = [node EXCEPT ![n].skip = ~@]
  /\ UNCHANGED <<crVars, status, job, pod, cacheVars, chip, localVars>>

\* The drain deadline of a cordoned node passes.
DrainDeadline(n) ==
  /\ "deadline" \in Env /\ node[n].at = "fresh"
  /\ node' = [node EXCEPT ![n].at = "expired"]
  /\ UNCHANGED <<crVars, status, job, pod, cacheVars, chip, localVars>>

\* A pod starts on its node (a cordoned node only takes pods that tolerate it),
\* runs to its end, and is removed.
PodStarts(p) ==
  /\ pod[p] = "absent"
  /\ ~node[PodSpec[p].node].unsched \/ PodSpec[p].tolerates
  /\ pod' = [pod EXCEPT ![p] = "running"]
  /\ UNCHANGED <<crVars, status, node, job, cacheVars, chip, localVars>>
PodFinishes(p) ==
  /\ pod[p] = "running"
  /\ pod' = [pod EXCEPT ![p] = "finished"]
  /\ UNCHANGED <<crVars, status, node, job, cacheVars, chip, localVars>>
PodRemoved(p) ==
  /\ pod[p] \in {"terminating", "finished"}
  /\ pod' = [pod EXCEPT ![p] = "absent"]
  /\ UNCHANGED <<crVars, status, node, job, cacheVars, chip, localVars>>

Environment ==
  \/ SyncNodes \/ SyncJobs \/ SyncPods
  \/ \E c \in Crs, n \in Nodes, v \in Versions :
       JobSucceeds(c, n, v) \/ JobFails(c, n, v) \/ JobExpires(c, n, v)
       \/ CollectJob(c, n, v)
  \/ \E c \in Crs : DeleteCr(c) \/ EditSpec(c)
  \/ \E n \in Nodes : HumanCordon(n) \/ HumanUncordon(n) \/ ToggleSkip(n)
                      \/ DrainDeadline(n)
  \/ \E p \in Pods : PodStarts(p) \/ PodFinishes(p) \/ PodRemoved(p)

Next == Reconcile \/ Environment

Spec == Init /\ [][Next]_vars

\* The worker queue is first come first served and every CR comes back to it (a
\* 30 s requeue while nodes are unfinished, and any node event); a reconcile that
\* began runs on; informers deliver; flashes end (activeDeadlineSeconds at the
\* latest) and a deleted pod goes away.  Nothing is assumed of users or failures.
Fairness ==
  /\ \A c \in Crs : SF_vars(Start(c))
  /\ WF_vars(\E n \in Nodes : Observe(n) \/ SkipFull(n) \/ Claim(n))
  /\ WF_vars(CountJobs \/ Cordon \/ Evict \/ Spawn \/ Uncordon \/ Publish)
  /\ WF_vars(SyncNodes) /\ WF_vars(SyncJobs) /\ WF_vars(SyncPods)
  /\ \A c \in Crs, n \in Nodes, v \in Versions :
       WF_vars(JobSucceeds(c, n, v) \/ JobFails(c, n, v))
  /\ \A p \in Pods : WF_vars(PodRemoved(p))

FairSpec == Spec /\ Fairness

-----------------------------------------------------------------------------
(* Properties. *)

\* At most maxParallel flash Jobs of a CR are unfinished, counting every
\* version: what Reconcile's capacity arithmetic is for.
ParallelismBound == \A c \in Crs : countInFlightJobs(c, job) <= maxParallel(c)

\* The capacity a reconcile works with is never optimistic: from the count on,
\* the Jobs that run and the slots it believes free fit in maxParallel together,
\* and it only goes on to create a Job while it has a slot.
SlotAccounting ==
  /\ pc \in {"advance", "act"} =>
       cap >= 0 /\ countInFlightJobs(cur, job) + cap <= maxParallel(cur)
  /\ pc = "act" /\ NeedsSlot(target) => cap > 0

\* Two flash Jobs never run on one node, whether of two CRs that match it
\* (the owned-by label) or of one CR across an edit of its version.
OneFlashPerNode ==
  \A n \in Nodes :
    Cardinality({cv \in Crs \X Versions : job[<<cv[1], n, cv[2]>>] = "running"}) <= 1

\* First write wins: a node's chips are only flashed for the CR its owned-by
\* label names, and whoever holds the firmware cordon is that CR.
FlasherOwnsNode ==
  \A n \in Nodes :
    /\ \A c \in Crs, v \in Versions : job[<<c, n, v>>] = "running" => node[n].owner = c
    /\ node[n].by # None => node[n].owner = node[n].by

\* A blind claim is safe: from the listing to the claim, the owned-by label of a
\* node the reconcile may act on is still what it read, unset or its own name, and
\* by the time it acts the label on the server is its own.
ClaimsAreCurrent ==
  /\ pc = "observe" =>
       \A n \in Nodes :
         /\ snap[n].owner = node[n].owner
         /\ n \in todo \/ (ns[n].state # "unlisted" /\ ns[n].reason # "NodeConflict")
              => snap[n].owner \in {None, cur}
  /\ pc \in {"advance", "act"} =>
       \A n \in todo : snap[n].owner = node[n].owner /\ snap[n].owner \in {None, cur}
  /\ pc = "act" => target \in todo /\ node[target].owner = cur

\* Every spec of the instance asks for a drain.
DrainAlways == \A s \in Specs : s.drain

\* While a flash Job is unfinished its node stays cordoned and no workload's
\* device pod is on it, not even one that is still terminating: the gates of
\* observeNode hold from the Job's creation to its end.
FlashIsolated ==
  DrainAlways =>
    \A c \in Crs, n \in Nodes, v \in Versions :
      job[<<c, n, v>>] = "running" =>
        /\ node[n].unsched
        /\ \A p \in Pods :
             (/\ PodSpec[p].node = n /\ PodSpec[p].device
              /\ PodSpec[p].owner = "ReplicaSet" /\ ~PodSpec[p].operatorNs)
             => pod[p] \in {"absent", "finished"}

\* Ready "All matched nodes at desired version" is true when published and stays
\* so until the version is edited or, a day on, a flash Job expires: the chips of
\* every Done node carry it, no flash of this CR is still running there, and its
\* cordon is lifted.  Checked and proved of instances without "ttl".
ReadyIsTrue ==
  \A c \in Crs :
    (live[c] /\ status[c].ready = "AllUpToDate" /\ status[c].version = spec[c].version)
    => \A n \in Nodes : status[c].nodes[n].state = "Done" =>
         /\ chip[n] = spec[c].version
         /\ \A v \in Versions : job[<<c, n, v>>] # "running"
         /\ DrainAlways => node[n].by # c

\* HaltOnFailure bounds the damage of a bad bundle: the Jobs that ran when the
\* first one failed, and those of the one reconcile that had already observed
\* its nodes, may fail too, and no more.
BlastRadius ==
  (\A s \in Specs : s.halt) =>
    \A c \in Crs, v \in Versions :
      Cardinality({n \in Nodes : job[<<c, n, v>>] = "failed"}) <= 2 * maxParallel(c)

\* The controller implements the abstract rollout: a claim is for good, and a
\* flash Job starts only for the node's claimant, alone on the node, in a slot.
Rollout == INSTANCE FlashRollout WITH
  owner <- [n \in Nodes |-> node[n].owner], flash <- job, Slots <- maxParallel
RefinesRollout == Rollout!ASpec

\* Every CR ends up ready at its last spec and stays so, unless its Jobs go on
\* expiring.  Each expiry (ttlSecondsAfterFinished, a day after the flash) takes a
\* Done node through cordon, drain and flash again, so a CR is ready for good only
\* between expiries; an instance without "ttl" checks that one such stretch ends Ready.
Converges ==
  \A c \in Crs :
    \/ <>[](status[c].ready = "AllUpToDate" /\ status[c].version = spec[c].version)
    \/ []<><<\E n \in Nodes, v \in Versions : JobExpires(c, n, v)>>_vars
=============================================================================
