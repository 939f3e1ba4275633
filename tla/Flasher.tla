------------------------------ MODULE Flasher ------------------------------
(***************************************************************************)
(* One flash Job on one node: the pod buildFlashJob templates and the      *)
(* script images/flasher/flash.sh it runs, against chips that only tt-smi  *)
(* and tt-flash can reach.  Either tool may fail, tt-smi may miss a chip   *)
(* or not know its version, and the Job's deadline may strike at any step. *)
(***************************************************************************)
EXTENDS Integers, FiniteSets

CONSTANTS
  Chips,      \* the chips of the node
  Versions,   \* firmware versions as tt-smi reports them, ordered
  Unknown,    \* the "?" tt-smi's reader prints for a version it cannot find
  NoOverride  \* spec.flasher unset

ASSUME VersionsType == Versions \subseteq Nat /\ Unknown \notin Versions
ASSUME ChipsFinite == IsFiniteSet(Chips)

VARIABLES
  flasher,    \* spec.flasher
  env,        \* the environment of the flash container
  bundle,     \* the version in the bundle that was fetched
  fw,         \* fw[c]: the firmware of chip c
  fw0,        \* fw when the Job was created
  pc,         \* the next step of the script
  current,    \* the versions in the pre-flash readback
  force,      \* is --force on tt-flash's command line?
  listed,     \* the chips of the last successful readback
  rc,         \* the exit code: Running until the script ends
  clean       \* has no tool failed, no chip been missed, no kill happened?
fvars == <<flasher, env, bundle, fw, fw0, pc, current, force, listed, rc, clean>>

Override == [forceWrite : BOOLEAN, continueOnReadbackFailure : BOOLEAN,
             homogenize : BOOLEAN]
Running == -1   \* rc of a script that has not ended

\* buildFlashJob's environment for a spec.flasher and the expected readback.  Without
\* an override homogenizeFirmwareVersions is on; an override that leaves it out turns
\* it off.
buildFlashJob(override, readback) ==
  IF override = NoOverride
  THEN [forceWrite |-> FALSE, continueOnReadbackFailure |-> FALSE,
        homogenize |-> TRUE, flashArgs |-> FALSE, readback |-> readback]
  ELSE [forceWrite |-> override.forceWrite,
        continueOnReadbackFailure |-> override.continueOnReadbackFailure,
        homogenize |-> override.homogenize,
        flashArgs |-> override.forceWrite, readback |-> readback]

FlasherInit ==
  /\ flasher \in Override \cup {NoOverride}
  /\ \E r \in Versions : env = buildFlashJob(flasher, r)
  /\ bundle \in Versions
  /\ fw \in [Chips -> Versions] /\ fw0 = fw
  /\ pc = "fetch" /\ current = {} /\ force = env.flashArgs /\ listed = {}
  /\ rc = Running /\ clean = TRUE

Goto(l) == pc' = l /\ UNCHANGED rc
Exit(code) == pc' = "exit" /\ rc' = code

\* The init container downloads the bundle.
FetchBundle ==
  /\ pc = "fetch"
  /\ \/ Goto("pre") /\ UNCHANGED clean
     \/ Exit(1) /\ clean' = FALSE
  /\ UNCHANGED <<flasher, env, bundle, fw, fw0, current, force, listed>>

\* The output of a tt-smi -s that lists the chips in seen, knowing the versions of
\* all of them but those in dim.
Readback(seen, dim) ==
  {fw[c] : c \in seen \ dim} \cup (IF dim = {} THEN {} ELSE {Unknown})
ReadChips ==
  \E seen \in SUBSET Chips : \E dim \in SUBSET seen :
    /\ current' = Readback(seen, dim) /\ listed' = seen
    /\ clean' = (clean /\ seen = Chips /\ dim = {})

\* The pre-flash readback, before (pre) and after (heal) the one heal cycle.  Where
\* that fails too and continueOnReadbackFailure is set, what tt-smi left on stdout is
\* read all the same: versions, or something that does not parse.
PreFlash ==
  /\ pc \in {"pre", "heal"}
  /\ \/ ReadChips /\ Goto("decide")
     \/ /\ pc = "pre" /\ Goto("heal") /\ clean' = FALSE
        /\ UNCHANGED <<current, listed>>
     \/ /\ pc = "heal" /\ env.continueOnReadbackFailure /\ Goto("decide")
        /\ \/ ReadChips
           \/ current' = {Unknown} /\ clean' = FALSE /\ UNCHANGED listed
     \/ /\ pc = "heal" /\ ~env.continueOnReadbackFailure /\ Exit(1)
        /\ clean' = FALSE /\ UNCHANGED <<current, listed>>
  /\ UNCHANGED <<flasher, env, bundle, fw, fw0, force>>

\* Mutant: the short-circuit fires as soon as some chip is at the target.
SkipIfSome == ~env.forceWrite /\ env.readback \in current

\* The "already at target" short-circuit.
SkipFlash == ~env.forceWrite /\ current = {env.readback}

\* Mutant: any usable readback is forced.
HomogenizeAlways ==
  env.homogenize /\ ~env.forceWrite /\ current # {} /\ Unknown \notin current

\* HomogenizeFirmwareVersions asks for --force: the chips all report a version
\* and do not agree.
Homogenize ==
  /\ env.homogenize /\ ~env.forceWrite
  /\ Unknown \notin current /\ Cardinality(current) > 1

\* Between the readback and tt-flash.
Decide ==
  /\ pc = "decide"
  /\ \/ SkipFlash /\ Exit(0) /\ UNCHANGED force
     \/ ~SkipFlash /\ force' = (force \/ Homogenize) /\ Goto("flash")
  /\ UNCHANGED <<flasher, env, bundle, fw, fw0, current, listed, clean>>

\* tt-flash: with --force every chip is written, without it only those older
\* than the bundle.  It may stop part way, and may say so in its output only.
ToWrite == IF force THEN Chips ELSE {c \in Chips : fw[c] < bundle}
Flash ==
  /\ pc = "flash"
  /\ \E written \in SUBSET ToWrite :
       /\ fw' = [c \in Chips |-> IF c \in written THEN bundle ELSE fw[c]]
       /\ \/ Goto("post") /\ clean' = (clean /\ written = ToWrite)
          \/ Exit(1) /\ clean' = FALSE
  /\ UNCHANGED <<flasher, env, bundle, fw0, current, force, listed>>

\* Mutant: the assertion accepts any version that is at least the target.
PostFlashAtLeast(versions) == \A v \in versions : v # Unknown /\ v >= env.readback

\* The post-flash assertion on the versions that were read back.
AtReadback(versions) == versions \subseteq {env.readback}

PostFlash ==
  /\ pc = "post"
  /\ \/ \E seen \in SUBSET Chips : \E dim \in SUBSET seen :
          /\ listed' = seen
          /\ clean' = (clean /\ seen = Chips /\ dim = {})
          /\ Exit(IF AtReadback(Readback(seen, dim)) THEN 0 ELSE 1)
     \/ Exit(1) /\ clean' = FALSE /\ UNCHANGED listed
  /\ UNCHANGED <<flasher, env, bundle, fw, fw0, current, force>>

\* activeDeadlineSeconds, or the node, ends the pod.
Killed ==
  /\ pc # "exit" /\ Exit(1) /\ clean' = FALSE
  /\ UNCHANGED <<flasher, env, bundle, fw, fw0, current, force, listed>>

\* The Job is finished: backoffLimit 0, no second pod.
Finished == pc = "exit" /\ UNCHANGED fvars

FlasherNext == FetchBundle \/ PreFlash \/ Decide \/ Flash \/ PostFlash \/ Killed \/ Finished
FlasherSpec == FlasherInit /\ [][FlasherNext]_fvars

\* A Job that completes has seen the target on every chip it could list: what
\* the controller's "Done" rests on.  (It says nothing of a chip tt-smi missed.)
ExitZeroIsVerified == rc = 0 => \A c \in listed : fw[c] = env.readback

\* A chip is only ever taken to an older version when spec.flasher asks for forceWrite,
\* or the chips disagreed to begin with and spec.flasher asks for them to be homogenized
\* or is not set at all: the code's default for homogenizeFirmwareVersions is on
\* (docs/firmware.md gives it as off).
NoUnforcedDowngrade ==
  (\E c \in Chips : fw[c] < fw0[c]) =>
    \/ flasher # NoOverride /\ flasher.forceWrite
    \/ /\ flasher = NoOverride \/ flasher.homogenize
       /\ Cardinality({fw0[c] : c \in Chips}) > 1

\* A node of mixed versions ends at the target without forceWrite: with
\* homogenizeFirmwareVersions, working tools and a bundle that holds the target
\* the Job succeeds, even where some chip was ahead.
MixedNodeConverges ==
  (/\ pc = "exit" /\ clean /\ env.homogenize /\ bundle = env.readback
   /\ Cardinality({fw0[c] : c \in Chips}) > 1)
  => rc = 0 /\ \A c \in Chips : fw[c] = env.readback
=============================================================================
