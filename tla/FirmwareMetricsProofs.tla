----------------------- MODULE FirmwareMetricsProofs -----------------------
(***************************************************************************)
(* Every flash is counted once: CountedOnce and HistoryIsCurrent, for any  *)
(* nodes, CRs and versions.                                                *)
(***************************************************************************)
EXTENDS FirmwareMetrics, RolloutProofs

\* What the counting rests on: the Job reads are current and do not fail.
JobsSeen == "job" \notin Lagging /\ "readerr" \notin Env

\* The reconcile under way has listed the Jobs and not pruned the history yet.
Listed == pc \in {"advance", "act"}

HistoryTypes ==
  /\ seen \in [Crs -> SUBSET (JobKeys \cup Nodes)]
  /\ counted \in [JobKeys -> {0, 1}]
  /\ \A c \in Crs : \A k \in seen[c] \cap JobKeys : k[1] = c

\* What is counted is in the history, exists, and will be retained.
CountsRecorded ==
  \A k \in JobKeys :
    counted[k] = 1 => /\ job[k] # "none" /\ k \in seen[k[1]]
                      /\ Listed /\ k[1] = cur => k \in keys

\* What is in the history, and will be retained, is counted or gone.
HistoryCounted ==
  \A k \in JobKeys :
    /\ k \in seen[k[1]] /\ job[k] # "none"
    /\ Listed /\ k[1] = cur => k \in keys
    => counted[k] = 1

\* A Job that the reconcile may create has no key among those to retain.
NewJobsUnlisted ==
  /\ pc = "observe" =>
       \A n \in Nodes : ns[n].state = "Pending" /\ ns[n].reason # "NodeConflict"
                        => job[<<cur, n, rspec.version>>] = "none"
  /\ Listed =>
       \A n \in todo : ns[n].state = "Pending" => <<cur, n, rspec.version>> \notin keys
  /\ pc = "act" => target \in todo

\* The inductive invariant: neither theorem's property is inductive, since a history
\* is pruned by a listing that may be stale, of Jobs that may expire and come back.
MetricsInv == TypeOK /\ HistoryTypes /\ CountsRecorded /\ HistoryCounted /\ NewJobsUnlisted

\* Its parts hold at the start.
LEMMA MetricsInit == MInit => MetricsInv
<1> SUFFICES ASSUME MInit PROVE MetricsInv OBVIOUS
<1>1. TypeOK
  BY InitType DEF MInit
<1>2. HistoryTypes /\ CountsRecorded
  BY DEF MInit, HistoryTypes, CountsRecorded
<1>3. HistoryCounted /\ NewJobsUnlisted
  <2>1. \A k \in JobKeys : k[1] \in Crs
    BY DEF JobKeys
  <2> QED BY <2>1 DEF MInit, Init, HistoryCounted, NewJobsUnlisted, Listed
<1> QED BY <1>1, <1>2, <1>3 DEF MetricsInv

\* With no Job observeNode reports Pending or an earlier step; with one it does not.
LEMMA ObservePending ==
  ASSUME NEW c, NEW s, NEW l, NEW n, NEW jobs, NEW phase,
         jobs[<<c, n, s.version>>] \in JobStates,
         observeNode(c, s, l, n, jobs, phase).state = "Pending"
  PROVE  jobs[<<c, n, s.version>>] = "none"
BY DEF observeNode, Is, JobStates

\* The listing counts each finished Job that is new, and only those.
LEMMA ListingStep ==
  ASSUME JobsSeen, MetricsInv, CountJobs, recordFlashJobMetrics
  PROVE  HistoryTypes' /\ CountsRecorded' /\ HistoryCounted' /\ NewJobsUnlisted'
<1> DEFINE jobs == {k \in JobKeys : k[1] = cur /\ job[k] # "none"}
           finished == {k \in jobs : job[k] \in {"succeeded", "failed"}}
<1>1. TypeOK /\ HistoryTypes /\ CountsRecorded /\ HistoryCounted /\ NewJobsUnlisted
  BY DEF MetricsInv
<1>2. JobView = job
  BY DEF JobsSeen, JobView
<1>3. /\ pc = "observe" /\ pc' = "advance" /\ UNCHANGED <<cur, rspec, job, ns, target>>
      /\ todo' = ToAdvance(rspec, ns)
  BY DEF CountJobs, readVars
<1>4. cur \in Crs /\ \A k \in JobKeys : k[1] \in Crs
  BY <1>1, <1>3 DEF TypeOK, ReadTypes, JobKeys
<1>5. /\ counted' = [k \in JobKeys |-> IF k \in finished \ seen[cur]
                                       THEN counted[k] + 1 ELSE counted[k]]
      /\ seen' = [seen EXCEPT ![cur] = seen[cur] \cup finished]
      /\ keys' = jobs
  BY <1>2 DEF recordFlashJobMetrics, NewEvents, FirstSeen, Finished
<1>6. \A k \in finished : k \in JobKeys /\ k[1] = cur /\ job[k] # "none" /\ k \in jobs
  OBVIOUS
<1>7. \A k \in JobKeys : k \in jobs <=> k[1] = cur /\ job[k] # "none"
  OBVIOUS
<1>8. \A k \in finished \ seen[cur] : counted[k] = 0
  BY <1>1, <1>6 DEF HistoryTypes, CountsRecorded
<1> HIDE DEF jobs, finished
<1>9. \A k \in JobKeys : counted'[k] = IF k \in finished \ seen[cur] THEN 1 ELSE counted[k]
  BY <1>1, <1>5, <1>8 DEF HistoryTypes
<1>10. \A c \in Crs : seen'[c] = IF c = cur THEN seen[c] \cup finished ELSE seen[c]
  BY <1>1, <1>5 DEF HistoryTypes
<1>11. HistoryTypes'
  <2>1. counted' \in [JobKeys -> {0, 1}]
    BY <1>1, <1>5, <1>9 DEF HistoryTypes
  <2>2. seen' \in [Crs -> SUBSET (JobKeys \cup Nodes)]
    BY <1>1, <1>5, <1>6 DEF HistoryTypes
  <2>3. \A c \in Crs : \A k \in seen'[c] \cap JobKeys : k[1] = c
    BY <1>1, <1>6, <1>10 DEF HistoryTypes
  <2> QED BY <2>1, <2>2, <2>3 DEF HistoryTypes
<1>12. CountsRecorded'
  <2> SUFFICES ASSUME NEW k \in JobKeys, counted'[k] = 1
               PROVE  /\ job'[k] # "none" /\ k \in seen'[k[1]]
                      /\ k[1] = cur' => k \in keys'
    BY DEF CountsRecorded
  <2>1. CASE k \in finished \ seen[cur]
    <3>1. k[1] = cur /\ job[k] # "none" /\ k \in jobs
      BY <1>6, <2>1
    <3>2. seen'[cur] = seen[cur] \cup finished
      BY <1>4, <1>10
    <3> QED BY <1>3, <1>5, <2>1, <3>1, <3>2
  <2>2. CASE k \notin finished \ seen[cur]
    <3>1. counted[k] = 1
      BY <1>9, <2>2
    <3>2. job[k] # "none" /\ k \in seen[k[1]]
      BY <1>1, <3>1 DEF CountsRecorded
    <3> QED BY <1>3, <1>4, <1>5, <1>7, <1>10, <3>2
  <2> QED BY <2>1, <2>2
<1>13. HistoryCounted'
  <2> SUFFICES ASSUME NEW k \in JobKeys, k \in seen'[k[1]], job'[k] # "none"
               PROVE  counted'[k] = 1
    BY DEF HistoryCounted
  <2>1. CASE k \in finished \ seen[cur]
    BY <1>9, <2>1
  <2>2. CASE k \notin finished \ seen[cur]
    <3>1. k \in seen[k[1]] /\ job[k] # "none"
      BY <1>3, <1>4, <1>10, <2>2
    <3>2. counted[k] = 1
      BY <1>1, <1>3, <3>1 DEF HistoryCounted, Listed
    <3> QED BY <1>9, <2>2, <3>2
  <2> QED BY <2>1, <2>2
<1>14. NewJobsUnlisted'
  <2> SUFFICES ASSUME NEW n \in ToAdvance(rspec, ns), ns[n].state = "Pending"
               PROVE  <<cur, n, rspec.version>> \notin jobs
    BY <1>3, <1>5 DEF NewJobsUnlisted
  <2>1. n \in Nodes /\ ns[n].reason # "NodeConflict"
    BY DEF ToAdvance
  <2>2. job[<<cur, n, rspec.version>>] = "none"
    BY <1>1, <1>3, <2>1 DEF NewJobsUnlisted
  <2> QED BY <2>2 DEF jobs
<1> QED BY <1>11, <1>12, <1>13, <1>14

\* Pruning keeps the keys of what is counted, and drops those of Jobs created since.
LEMMA PruningStep ==
  ASSUME MetricsInv, Publish, PruneEvents
  PROVE  HistoryTypes' /\ CountsRecorded' /\ HistoryCounted' /\ NewJobsUnlisted'
<1> DEFINE stalled == {n \in Nodes : ns[n] = Is("Failed", "DrainTimeout")}
<1>1. TypeOK /\ HistoryTypes /\ CountsRecorded /\ HistoryCounted
  BY DEF MetricsInv
<1>2. pc = "advance" /\ pc' = "idle" /\ job' = job /\ counted' = counted
  BY DEF Publish, Return, PruneEvents
<1>3. cur \in Crs /\ \A k \in JobKeys : k[1] \in Crs
  BY <1>1, <1>2 DEF TypeOK, ReadTypes, JobKeys
<1>4. \A c \in Crs : seen'[c] = IF c = cur THEN (seen[c] \cup stalled) \cap (keys \cup stalled)
                                ELSE seen[c]
  <2>1. seen' = [FirstSeen(cur, stalled) EXCEPT ![cur] =
                   FirstSeen(cur, stalled)[cur] \cap (keys \cup stalled)]
    BY DEF PruneEvents, Retain
  <2>2. FirstSeen(cur, stalled) = [seen EXCEPT ![cur] = seen[cur] \cup stalled]
    BY DEF FirstSeen
  <2> HIDE DEF stalled
  <2>3. \A c \in Crs : FirstSeen(cur, stalled)[c] = IF c = cur THEN seen[c] \cup stalled ELSE seen[c]
    BY <1>1, <2>2 DEF HistoryTypes
  <2>4. FirstSeen(cur, stalled) \in [Crs -> SUBSET (JobKeys \cup Nodes \cup stalled)]
    BY <1>1, <1>3, <2>2 DEF HistoryTypes
  <2> QED BY <1>3, <2>1, <2>3, <2>4
<1>5. seen' \in [Crs -> SUBSET (JobKeys \cup Nodes)]
  <2>1. DOMAIN seen' = Crs /\ seen' = [c \in Crs |-> seen'[c]]
    BY <1>1 DEF PruneEvents, Retain, FirstSeen, HistoryTypes
  <2>2. \A c \in Crs : seen'[c] \subseteq JobKeys \cup Nodes
    BY <1>1, <1>4 DEF HistoryTypes
  <2> QED BY <2>1, <2>2
<1>6. \A k \in JobKeys : k \notin stalled
  BY KeysApart
<1> HIDE DEF stalled
<1>7. \A k \in JobKeys : /\ k \in seen'[k[1]] => k \in seen[k[1]] /\ (k[1] = cur => k \in keys)
                         /\ k \in seen[k[1]] /\ (k[1] = cur => k \in keys) => k \in seen'[k[1]]
  BY <1>3, <1>4, <1>6
<1>8. HistoryTypes'
  <2>1. \A c \in Crs : \A k \in seen'[c] \cap JobKeys : k[1] = c
    BY <1>1, <1>4, <1>6 DEF HistoryTypes
  <2> QED BY <1>1, <1>2, <1>5, <2>1 DEF HistoryTypes
<1>9. CountsRecorded'
  BY <1>1, <1>2, <1>7 DEF CountsRecorded, Listed
<1>10. HistoryCounted'
  BY <1>1, <1>2, <1>7 DEF HistoryCounted, Listed
<1>11. NewJobsUnlisted'
  BY <1>2 DEF NewJobsUnlisted, Listed
<1> QED BY <1>8, <1>9, <1>10, <1>11

\* A restart forgets everything.
LEMMA RestartStep ==
  ASSUME Abandon, Restarted
  PROVE  HistoryTypes' /\ CountsRecorded' /\ HistoryCounted' /\ NewJobsUnlisted'
<1>1. pc' = "idle" /\ seen' = [c \in Crs |-> {}] /\ counted' = [k \in JobKeys |-> 0]
  BY DEF Abandon, Return, Restarted
<1>2. \A k \in JobKeys : k[1] \in Crs
  BY DEF JobKeys
<1> QED BY <1>1, <1>2 DEF HistoryTypes, CountsRecorded, HistoryCounted, NewJobsUnlisted, Listed

\* The other steps move the loop on: from the observations to the listing by CountJobs
\* alone, and out of the loop by Publish or Abandon alone.
LEMMA LoopKept ==
  ASSUME TypeOK, Uncounted, Listed'
  PROVE  /\ Listed /\ UNCHANGED <<cur, rspec>> /\ todo' \subseteq todo
         /\ pc' = "act" => \/ pc = "act" /\ UNCHANGED <<target, todo>>
                           \/ target' \in todo'
<1>1. CASE \E c \in Crs : Start(c)
  BY <1>1 DEF Start, Listed
<1>2. CASE \E n \in Nodes : Observe(n)
  BY <1>2 DEF Observe, Listed
<1>3. CASE \E n \in Nodes : SkipFull(n)
  BY <1>3 DEF SkipFull, Listed, readVars
<1>4. CASE \E n \in Nodes : Claim(n)
  BY <1>4 DEF Claim, Listed, readVars
<1>5. CASE Cordon \/ Evict \/ Spawn \/ Uncordon
  BY <1>5 DEF Cordon, Evict, Spawn, Uncordon, NodeVisited, Listed, readVars
<1>6. CASE Environment
  BY <1>6, EnvironmentKeepsLocals DEF localVars, loopVars, readVars, Listed
<1> QED BY <1>1, <1>2, <1>3, <1>4, <1>5, <1>6 DEF Uncounted

\* A Job that appears is the one that Spawn creates for a node it found Pending.
LEMMA NewJobIsPending ==
  ASSUME MetricsInv, Uncounted, NEW k \in JobKeys, job[k] = "none", job'[k] # "none"
  PROVE  Listed' /\ k[1] = cur' /\ k \notin keys
<1>1. TypeOK /\ NewJobsUnlisted
  BY DEF MetricsInv
<1>2. Next
  BY DEF Uncounted, Next, Reconcile
<1>3. Spawn
  BY <1>1, <1>2, JobsOnlyEnd
<1>4. k = FlashJob /\ cur \in Crs
  BY <1>1, <1>3, SpawnsOneJob
<1>5. pc = "act" /\ pc' = "advance" /\ cur' = cur /\ ns[target].state = "Pending"
  BY <1>3 DEF Spawn, NodeVisited, readVars
<1>6. target \in todo /\ <<cur, target, rspec.version>> \notin keys
  BY <1>1, <1>5 DEF NewJobsUnlisted, Listed
<1>7. k[1] = cur
  BY <1>4 DEF FlashJob
<1> QED BY <1>4, <1>5, <1>6, <1>7 DEF FlashJob, Listed

\* A node observed Pending, by this reconcile's CR, has no Job until Spawn gives it one.
LEMMA PendingStep ==
  ASSUME JobsSeen, MetricsInv, Uncounted, pc' = "observe",
         NEW n \in Nodes, ns'[n].state = "Pending", ns'[n].reason # "NodeConflict"
  PROVE  job'[<<cur', n, rspec'.version>>] = "none"
<1>1. TypeOK /\ NewJobsUnlisted
  BY DEF MetricsInv
<1>2. ns \in [Nodes -> NodeStatus] /\ job \in [JobKeys -> JobStates]
  BY <1>1 DEF TypeOK, LoopTypes, ObjectTypes
<1>3. ASSUME NEW c \in Crs, Start(c) PROVE FALSE
  <2>1. ns'[n] = Is("Pending", "NodeConflict") \/ ns'[n] = Unlisted
    BY <1>3 DEF Start
  <2>2. Is("Pending", "NodeConflict").reason = "NodeConflict" /\ Unlisted.state = "unlisted"
    BY DEF Is, Unlisted
  <2> QED BY <2>1, <2>2
<1>4. ASSUME pc = "observe" PROVE <<cur, n, rspec.version>> \in JobKeys
  BY <1>1, <1>4, SpecsType DEF TypeOK, ReadTypes, JobKeys, SpecRec
<1>5. ASSUME NEW m \in Nodes, Observe(m) PROVE job'[<<cur', n, rspec'.version>>] = "none"
  <2>1. pc = "observe" /\ UNCHANGED <<cur, rspec, job>>
    BY <1>5 DEF Observe, readVars
  <2>2. ns' = [ns EXCEPT ![m] = observeNode(cur, rspec, snap[m], m, job, PodView)]
    BY <1>5 DEF Observe, JobsSeen, JobView
  <2>3. CASE n = m
    <3>1. observeNode(cur, rspec, snap[n], n, job, PodView).state = "Pending"
      BY <1>2, <2>2, <2>3
    <3>2. job[<<cur, n, rspec.version>>] \in JobStates
      BY <1>2, <1>4, <2>1
    <3>3. job[<<cur, n, rspec.version>>] = "none"
      BY <3>1, <3>2, ObservePending
    <3> QED BY <2>1, <3>3
  <2>4. CASE n # m
    <3>1. ns'[n] = ns[n]
      BY <1>2, <2>2, <2>4
    <3> QED BY <1>1, <2>1, <3>1 DEF NewJobsUnlisted
  <2> QED BY <2>3, <2>4
<1>6. CASE Environment
  <2>1. UNCHANGED <<pc, cur, rspec, ns>>
    BY <1>6, EnvironmentKeepsLocals DEF localVars, readVars
  <2>2. job[<<cur, n, rspec.version>>] = "none"
    BY <1>1, <2>1 DEF NewJobsUnlisted
  <2>3. Next
    BY <1>6 DEF Next
  <2>4. \A k \in JobKeys : job'[k] # "none" => job[k] # "none"
    <3>1. ~Spawn
      BY <2>1 DEF Spawn
    <3> QED BY <1>1, <2>3, <3>1, JobsOnlyEnd
  <2> QED BY <1>4, <2>1, <2>2, <2>4
<1>7. CASE (\E m \in Nodes : SkipFull(m) \/ Claim(m)) \/ Cordon \/ Evict \/ Spawn \/ Uncordon
  BY <1>7 DEF SkipFull, Claim, Cordon, Evict, Spawn, Uncordon, NodeVisited
<1> QED BY <1>3, <1>5, <1>6, <1>7 DEF Uncounted

\* The steps that count nothing keep the history in step with the Jobs.
LEMMA UncountedStep ==
  ASSUME JobsSeen, MetricsInv, Uncounted, StillCounted, UNCHANGED <<seen, keys>>
  PROVE  HistoryTypes' /\ CountsRecorded' /\ HistoryCounted' /\ NewJobsUnlisted'
<1>1. TypeOK /\ HistoryTypes /\ CountsRecorded /\ HistoryCounted /\ NewJobsUnlisted
  BY DEF MetricsInv
<1>2. \A k \in JobKeys : counted'[k] = IF job'[k] = "none" THEN 0 ELSE counted[k]
  BY DEF StillCounted
<1>3. HistoryTypes'
  <2>1. counted' \in [JobKeys -> {0, 1}]
    BY <1>1 DEF StillCounted, HistoryTypes
  <2> QED BY <1>1, <2>1 DEF HistoryTypes
<1>4. CountsRecorded'
  <2> SUFFICES ASSUME NEW k \in JobKeys, counted'[k] = 1
               PROVE  /\ job'[k] # "none" /\ k \in seen[k[1]]
                      /\ Listed' /\ k[1] = cur' => k \in keys
    BY DEF CountsRecorded
  <2>1. job'[k] # "none" /\ counted[k] = 1
    BY <1>2
  <2>2. k \in seen[k[1]] /\ (Listed /\ k[1] = cur => k \in keys)
    BY <1>1, <2>1 DEF CountsRecorded
  <2> QED BY <1>1, <2>1, <2>2, LoopKept
<1>5. HistoryCounted'
  <2> SUFFICES ASSUME NEW k \in JobKeys, k \in seen[k[1]], job'[k] # "none",
                      Listed' /\ k[1] = cur' => k \in keys
               PROVE  counted'[k] = 1
    BY DEF HistoryCounted
  <2>1. job[k] # "none"
    BY NewJobIsPending
  <2>2. ASSUME Listed, k[1] = cur PROVE k \in keys
    <3>1. ASSUME ~Listed' PROVE FALSE
      BY <2>2, <3>1, EnvironmentKeepsLocals DEF Uncounted, Start, Observe, SkipFull, Claim,
         Cordon, Evict, Spawn, Uncordon, NodeVisited, Listed, localVars
    <3> QED BY <1>1, <2>2, <3>1, LoopKept
  <2>3. counted[k] = 1
    BY <1>1, <2>1, <2>2 DEF HistoryCounted
  <2> QED BY <1>2, <2>3
<1>6. NewJobsUnlisted'
  <2>1. ASSUME Listed', NEW n \in todo', ns'[n].state = "Pending"
        PROVE  <<cur', n, rspec'.version>> \notin keys'
    <3>1. Listed /\ cur' = cur /\ rspec' = rspec /\ n \in todo
      BY <1>1, <2>1, LoopKept
    <3>2. n \in Nodes /\ pc # "idle" /\ pc # "observe" /\ pc' # "idle"
      BY <1>1, <2>1, <3>1 DEF TypeOK, LoopTypes, Listed
    <3>3. Next
      BY DEF Uncounted, Next, Reconcile
    <3>4. \/ ns'[n] = ns[n] \/ ns'[n] = Is("Flashing", "Flashing")
          \/ ns'[n].state = "Draining"
      <4>1. (\A c \in Crs : ~Start(c)) /\ \A m \in Nodes : ~Observe(m)
        BY <3>2 DEF Start, Observe
      <4> QED BY <1>1, <3>2, <3>3, <4>1, FindingsStay
    <3>5. ns[n].state = "Pending"
      BY <2>1, <3>4 DEF Is
    <3> QED BY <1>1, <3>1, <3>5 DEF NewJobsUnlisted
  <2>2. pc' = "act" => target' \in todo'
    BY <1>1, LoopKept DEF Listed, NewJobsUnlisted
  <2>3. ASSUME pc' = "observe", NEW n \in Nodes, ns'[n].state = "Pending",
               ns'[n].reason # "NodeConflict"
        PROVE  job'[<<cur', n, rspec'.version>>] = "none"
    BY <2>3, PendingStep
  <2> QED BY <2>1, <2>2, <2>3 DEF NewJobsUnlisted
<1> QED BY <1>3, <1>4, <1>5, <1>6

\* Every step of the metered controller is one of the controller.
LEMMA MetricsNext ==
  ASSUME [MNext]_<<vars, metricVars>>
  PROVE  [Next]_vars
BY DEF MNext, Uncounted, Next, Reconcile

\* The invariant holds.
LEMMA MetricsInvariant == JobsSeen => (MSpec => []MetricsInv)
<1> SUFFICES ASSUME JobsSeen PROVE MSpec => []MetricsInv
  OBVIOUS
<1>1. MetricsInv /\ [MNext]_<<vars, metricVars>> => MetricsInv'
  <2> SUFFICES ASSUME MetricsInv, [MNext]_<<vars, metricVars>> PROVE MetricsInv'
    OBVIOUS
  <2>1. TypeOK'
    <3>1. TypeOK /\ [Next]_vars
      BY MetricsNext DEF MetricsInv
    <3> QED BY <3>1, ReconcileType, EnvironmentType, StutterType DEF Next
  <2>2. HistoryTypes' /\ CountsRecorded' /\ HistoryCounted' /\ NewJobsUnlisted'
    <3>1. CASE CountJobs /\ recordFlashJobMetrics
      BY <3>1, ListingStep
    <3>2. CASE Publish /\ PruneEvents
      BY <3>2, PruningStep
    <3>3. CASE Abandon /\ Restarted
      BY <3>3, RestartStep
    <3>4. CASE Uncounted /\ StillCounted /\ UNCHANGED <<seen, keys>>
      BY <3>4, UncountedStep
    <3>5. CASE UNCHANGED <<vars, metricVars>>
      BY <3>5 DEF MetricsInv, HistoryTypes, CountsRecorded, HistoryCounted, NewJobsUnlisted,
         Listed, vars, localVars, readVars, loopVars, metricVars
    <3> QED BY <3>1, <3>2, <3>3, <3>4, <3>5 DEF MNext
  <2> QED BY <2>1, <2>2 DEF MetricsInv
<1> QED BY <1>1, MetricsInit, PTL DEF MSpec

\* No flash is counted twice by one process, for any nodes, CRs, versions and edits and
\* whatever the environment does but fail a Job read or serve an old one: Jobs expire and
\* come back under their name, CRs are edited and deleted, the manager restarts.
THEOREM FlashesCountedOnce == JobsSeen => (MSpec => []CountedOnce)
<1>1. MetricsInv => CountedOnce
  BY DEF MetricsInv, HistoryTypes, CountedOnce
<1> QED BY <1>1, MetricsInvariant, PTL

\* No flash goes uncounted because of an earlier one of the same name: between
\* reconciles the history holds no key of a Job that has since been created anew.
THEOREM HistoryHolds == JobsSeen => (MSpec => []HistoryIsCurrent)
<1>1. MetricsInv => HistoryIsCurrent
  <2> SUFFICES ASSUME MetricsInv, pc = "idle", NEW c \in Crs,
                      NEW k \in seen[c] \cap JobKeys, job[k] # "none"
               PROVE  counted[k] = 1
    BY DEF HistoryIsCurrent
  <2>1. k[1] = c
    BY DEF MetricsInv, HistoryTypes
  <2> QED BY <2>1 DEF MetricsInv, HistoryCounted, Listed
<1> QED BY <1>1, MetricsInvariant, PTL
=============================================================================
