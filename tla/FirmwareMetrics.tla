-------------------------- MODULE FirmwareMetrics --------------------------
(***************************************************************************)
(* The firmware controller's event counters.  Every reconcile finds again  *)
(* the Jobs that have finished and the drains that have run out, for as    *)
(* long as they last; firmwareEvents, a metrics.EventDedup held in memory, *)
(* makes one count of each.  Jobs are told apart by name alone, and a Job  *)
(* that expired may be created again under its name.  Forget, which drops  *)
(* the history of a deleted CR, is left out: no CR comes back.             *)
(***************************************************************************)
EXTENDS FirmwarePolicy

\* A Job's key and a node's key differ in their prefix.
ASSUME KeysApart == Nodes \cap JobKeys = {}

VARIABLES
  seen,      \* firmwareEvents.seen: the keys of each CR's scope
  keys,      \* dedupKeys, what the reconcile under way will retain
  counted    \* how often this process counted the present Job of each name

metricVars == <<seen, keys, counted>>

Finished(k) == JobView[k] \in {"succeeded", "failed"}

\* FirstSeen for each of a set of keys: those that are new, and the scope after.
NewEvents(scope, events) == events \ seen[scope]
\* Mutant: the key is not recorded.
FirstSeenForgets(scope, events) == seen
FirstSeen(scope, events) == [seen EXCEPT ![scope] = @ \cup events]
\* Mutant: keys are only dropped with their CR.
RetainAll(history, scope, keep) == history
Retain(history, scope, keep) == [history EXCEPT ![scope] = @ \cap keep]

\* recordFlashJobMetrics, on the Job listing that CountJobs has made.
recordFlashJobMetrics ==
  LET jobs == {k \in JobKeys : k[1] = cur /\ JobView[k] # "none"}
      finished == {k \in jobs : Finished(k)}
  IN /\ counted' = [k \in JobKeys |-> IF k \in NewEvents(cur, finished)
                                      THEN counted[k] + 1 ELSE counted[k]]
     /\ seen' = FirstSeen(cur, finished)
     /\ keys' = jobs

\* recordDrainTimeoutMetrics and Retain, just before the status is updated.
PruneEvents ==
  LET stalled == {n \in Nodes : ns[n] = Is("Failed", "DrainTimeout")}
  IN /\ seen' = Retain(FirstSeen(cur, stalled), cur, keys \cup stalled)
     /\ keys' = {} /\ UNCHANGED counted

\* The manager dies within a reconcile (between two is no different from the start of
\* the next) and restarts: history and counters begin again.
Restarted ==
  /\ "crash" \in Env
  /\ seen' = [c \in Crs |-> {}] /\ keys' = {} /\ counted' = [k \in JobKeys |-> 0]

\* The steps that count nothing.  With a Job goes what was known of its counts.
Uncounted ==
  \/ \E c \in Crs : Start(c)
  \/ \E n \in Nodes : Observe(n) \/ SkipFull(n) \/ Claim(n)
  \/ Cordon \/ Evict \/ Spawn \/ Uncordon \/ Environment
StillCounted ==
  counted' = [k \in JobKeys |-> IF job'[k] = "none" THEN 0 ELSE counted[k]]

MInit ==
  /\ Init
  /\ seen = [c \in Crs |-> {}] /\ keys = {} /\ counted = [k \in JobKeys |-> 0]
MNext ==
  \/ CountJobs /\ recordFlashJobMetrics
  \/ Publish /\ PruneEvents
  \/ Abandon /\ Restarted
  \/ Uncounted /\ StillCounted /\ UNCHANGED <<seen, keys>>
MSpec == MInit /\ [][MNext]_<<vars, metricVars>>

-----------------------------------------------------------------------------
\* No flash is counted twice by one process, however many reconciles find its Job
\* finished.
CountedOnce == \A k \in JobKeys : counted[k] <= 1

\* No flash goes uncounted because an earlier one had the same Job name: between
\* reconciles, a key in the history of a Job that exists belongs to that very Job.
HistoryIsCurrent ==
  pc = "idle" =>
    \A c \in Crs : \A k \in seen[c] \cap JobKeys : job[k] # "none" => counted[k] = 1
=============================================================================
