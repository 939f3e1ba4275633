--------------------------- MODULE FlasherProofs ---------------------------
(***************************************************************************)
(* Theorems about Flasher, for every number of chips, every set of         *)
(* versions and every override.                                            *)
(***************************************************************************)
EXTENDS Flasher, TLAPS, FiniteSetTheorems

FlashEnv == [forceWrite : BOOLEAN, continueOnReadbackFailure : BOOLEAN,
             homogenize : BOOLEAN, flashArgs : BOOLEAN, readback : Versions]

\* The chips disagreed when the Job was created.
Mixed == Cardinality({fw0[c] : c \in Chips}) > 1

FlasherTypes ==
  /\ env \in FlashEnv
  /\ bundle \in Versions
  /\ fw \in [Chips -> Versions] /\ fw0 \in [Chips -> Versions]
  /\ pc \in {"fetch", "pre", "heal", "decide", "flash", "post", "exit"}
  /\ listed \in SUBSET Chips
  /\ force \in BOOLEAN /\ clean \in BOOLEAN

\* Until tt-flash runs the chips are as they were, and until the readback is
\* judged --force is what the environment said.
Untouched ==
  /\ pc \in {"fetch", "pre", "heal", "decide", "flash"} => fw = fw0
  /\ pc \in {"fetch", "pre", "heal", "decide"} => force = env.forceWrite
  /\ pc \in {"fetch", "pre", "heal"} => listed = {}

\* The readback that is judged, if no version in it is unknown, is of the chips
\* that were listed; it is of all of them when nothing has gone wrong.
ReadbackIsTrue ==
  pc = "decide" =>
    /\ Unknown \notin current => current = {fw0[c] : c \in listed}
    /\ clean => listed = Chips /\ Unknown \notin current

\* --force is only given for a reason, and for every clean mixed node that is to be
\* homogenised.
ForceIsJustified ==
  /\ force => env.forceWrite \/ (env.homogenize /\ Mixed)
  /\ pc = "flash" /\ clean /\ env.homogenize /\ Mixed => force

\* Without --force no chip goes back; with it a clean run leaves none out.
WritesAreOrdered ==
  /\ ~force => \A c \in Chips : fw[c] >= fw0[c]
  /\ pc = "post" /\ clean /\ env.homogenize /\ Mixed => \A c \in Chips : fw[c] = bundle

\* The inductive invariant: the three properties speak of the end of the script, the
\* other parts of how it got there.
FlasherInv ==
  /\ FlasherTypes /\ Untouched /\ ReadbackIsTrue /\ ForceIsJustified /\ WritesAreOrdered
  /\ pc # "exit" => rc = Running
  /\ ExitZeroIsVerified /\ MixedNodeConverges

\* The versions on a node are finitely many, and those of some of its chips no more
\* than those of all.
LEMMA FewerVersions ==
  ASSUME NEW f \in [Chips -> Versions], NEW S \in SUBSET Chips
  PROVE  /\ IsFiniteSet({f[c] : c \in Chips})
         /\ Cardinality({f[c] : c \in Chips}) \in Nat
         /\ Cardinality({f[c] : c \in S}) \in Nat
         /\ Cardinality({f[c] : c \in S}) <= Cardinality({f[c] : c \in Chips})
<1> DEFINE T == {f[c] : c \in Chips}
<1>1. f \in Surjection(Chips, T)
  BY DEF Surjection
<1>2. IsFiniteSet(T)
  BY <1>1, ChipsFinite, FS_Surjection
<1>3. {f[c] : c \in S} \in SUBSET T
  OBVIOUS
<1> QED BY <1>2, <1>3, FS_Subset, FS_CardinalityType

\* A readback without unknown versions is of the chips it lists.
LEMMA ReadbackOfListed ==
  ASSUME NEW seen \in SUBSET Chips, NEW dim \in SUBSET seen,
         Unknown \notin Readback(seen, dim)
  PROVE  dim = {} /\ Readback(seen, dim) = {fw[c] : c \in seen}
BY DEF Readback

\* A script that has only begun satisfies the invariant.
LEMMA FlasherInvInit == FlasherInit => FlasherInv
<1> SUFFICES ASSUME FlasherInit PROVE FlasherInv OBVIOUS
<1>1. PICK r \in Versions : env = buildFlashJob(flasher, r)
  BY DEF FlasherInit
<1>2. env \in FlashEnv /\ env.flashArgs = env.forceWrite
  <2>1. CASE flasher = NoOverride
    BY <1>1, <2>1 DEF buildFlashJob, FlashEnv
  <2>2. CASE flasher \in Override /\ flasher # NoOverride
    BY <1>1, <2>2 DEF buildFlashJob, FlashEnv, Override
  <2> QED BY <2>1, <2>2 DEF FlasherInit
<1>3. FlasherTypes
  BY <1>2 DEF FlasherInit, FlasherTypes, FlashEnv
<1>4. \A c \in Chips : fw[c] >= fw0[c]
  <2> TAKE c \in Chips
  <2>1. fw0 = fw /\ fw[c] \in Nat
    BY VersionsType DEF FlasherInit
  <2> QED BY <2>1
<1> QED BY <1>2, <1>3, <1>4 DEF FlasherInit, FlasherInv, Untouched, ReadbackIsTrue,
           ForceIsJustified, WritesAreOrdered, ExitZeroIsVerified, MixedNodeConverges, Running,
           FlashEnv

\* Fetching the bundle and reading the chips back.
LEMMA PreFlashStep ==
  ASSUME FlasherInv, FetchBundle \/ PreFlash
  PROVE  FlasherInv'
<1> USE DEF FlasherInv
<1>1. /\ pc \in {"fetch", "pre", "heal"} /\ UNCHANGED <<env, bundle, fw, fw0, force>>
      /\ fw = fw0 /\ force = env.forceWrite /\ listed = {}
  BY DEF FetchBundle, PreFlash, Untouched
<1>2. \/ pc' \in {"pre", "heal"} /\ rc' = rc /\ listed' = listed /\ clean' \in BOOLEAN
      \/ pc' = "exit" /\ rc' = 1 /\ clean' = FALSE /\ listed' = listed
      \/ pc' = "decide" /\ rc' = rc
  BY DEF FetchBundle, PreFlash, Goto, Exit, FlasherTypes
<1>3. pc' = "decide" =>
        /\ Unknown \notin current' => current' = {fw0[c] : c \in listed'}
        /\ clean' => listed' = Chips /\ Unknown \notin current'
        /\ listed' \in SUBSET Chips /\ clean' \in BOOLEAN
  <2> SUFFICES ASSUME pc' = "decide"
               PROVE  /\ Unknown \notin current' => current' = {fw0[c] : c \in listed'}
                      /\ clean' => listed' = Chips /\ Unknown \notin current'
                      /\ listed' \in SUBSET Chips /\ clean' \in BOOLEAN
    OBVIOUS
  <2>1. CASE \E seen \in SUBSET Chips : \E dim \in SUBSET seen :
               /\ current' = Readback(seen, dim) /\ listed' = seen
               /\ clean' = (clean /\ seen = Chips /\ dim = {})
    <3>1. PICK seen \in SUBSET Chips : \E dim \in SUBSET seen :
               /\ current' = Readback(seen, dim) /\ listed' = seen
               /\ clean' = (clean /\ seen = Chips /\ dim = {})
      BY <2>1
    <3>2. PICK dim \in SUBSET seen :
               /\ current' = Readback(seen, dim) /\ listed' = seen
               /\ clean' = (clean /\ seen = Chips /\ dim = {})
      BY <3>1
    <3>3. Unknown \notin current' => current' = {fw0[c] : c \in listed'}
      BY <1>1, <3>2, ReadbackOfListed
    <3>4. dim = {} => Unknown \notin current'
      <4>1. \A c \in Chips : fw[c] \in Versions
        BY DEF FlasherTypes
      <4> QED BY <3>2, <4>1, VersionsType DEF Readback
    <3> QED BY <3>2, <3>3, <3>4
  <2>2. CASE clean' = FALSE /\ current' = {Unknown} /\ listed' = listed
    BY <1>1, <2>2
  <2> QED BY <2>1, <2>2 DEF FetchBundle, PreFlash, ReadChips, Goto, Exit
<1>4. FlasherTypes'
  BY <1>1, <1>2, <1>3 DEF FlasherTypes
<1>5. Untouched' /\ ReadbackIsTrue'
  BY <1>1, <1>2, <1>3 DEF Untouched, ReadbackIsTrue
<1>6. ForceIsJustified' /\ WritesAreOrdered'
  BY <1>1, <1>2 DEF ForceIsJustified, WritesAreOrdered, Mixed
<1>7. (pc # "exit" => rc = Running)' /\ ExitZeroIsVerified' /\ MixedNodeConverges'
  BY <1>1, <1>2 DEF ExitZeroIsVerified, MixedNodeConverges, Running
<1> QED BY <1>4, <1>5, <1>6, <1>7

\* Skipping the flash, or choosing how to flash.
LEMMA DecideStep ==
  ASSUME FlasherInv, Decide
  PROVE  FlasherInv'
<1> USE DEF FlasherInv
<1>1. /\ pc = "decide" /\ UNCHANGED <<env, bundle, fw, fw0, current, listed, clean>>
      /\ fw = fw0 /\ force = env.forceWrite /\ rc = Running
  BY DEF Decide, Untouched
<1>2. \/ SkipFlash /\ pc' = "exit" /\ rc' = 0 /\ force' = force
      \/ ~SkipFlash /\ pc' = "flash" /\ rc' = rc /\ force' = (force \/ Homogenize)
  BY DEF Decide, Goto, Exit
<1>3. /\ Unknown \notin current => current = {fw0[c] : c \in listed}
      /\ clean => listed = Chips /\ Unknown \notin current
  BY <1>1 DEF ReadbackIsTrue
<1>4. Homogenize => env.homogenize /\ Mixed
  <2>1. SUFFICES ASSUME Homogenize PROVE Mixed
    BY DEF Homogenize
  <2>2. current = {fw0[c] : c \in listed} /\ Cardinality(current) > 1
    BY <1>3, <2>1 DEF Homogenize
  <2>3. /\ Cardinality({fw0[c] : c \in Chips}) \in Nat
        /\ Cardinality(current) \in Nat
        /\ Cardinality(current) <= Cardinality({fw0[c] : c \in Chips})
    BY <2>2, FewerVersions DEF FlasherTypes
  <2> QED BY <2>2, <2>3 DEF Mixed
<1>5. SkipFlash => \A c \in listed : fw[c] = env.readback
  <2> SUFFICES ASSUME SkipFlash, NEW c \in listed PROVE fw[c] = env.readback
    OBVIOUS
  <2>1. current = {env.readback} /\ env.readback \in Versions
    BY DEF SkipFlash, FlasherTypes, FlashEnv
  <2>2. current = {fw0[x] : x \in listed}
    BY <1>3, <2>1, VersionsType
  <2> QED BY <1>1, <2>1, <2>2
<1>6. clean /\ Mixed => ~SkipFlash
  <2> SUFFICES ASSUME clean, Mixed, SkipFlash PROVE FALSE
    OBVIOUS
  <2>1. {fw0[c] : c \in Chips} = {env.readback}
    BY <1>3 DEF SkipFlash
  <2>2. Cardinality({fw0[c] : c \in Chips}) = 1
    BY <2>1, FS_Singleton
  <2> QED BY <2>2 DEF Mixed
<1>7. clean /\ env.homogenize /\ Mixed => force \/ Homogenize
  <2> SUFFICES ASSUME clean, env.homogenize, Mixed, ~env.forceWrite PROVE Homogenize
    BY <1>1
  <2>1. current = {fw0[c] : c \in Chips} /\ Unknown \notin current
    BY <1>3
  <2> QED BY <2>1 DEF Homogenize, Mixed
<1>8. FlasherTypes'
  BY <1>1, <1>2 DEF FlasherTypes, Homogenize, FlashEnv
<1>9. Untouched' /\ ReadbackIsTrue'
  BY <1>1, <1>2 DEF Untouched, ReadbackIsTrue
<1>10. ForceIsJustified'
  BY <1>1, <1>2, <1>4, <1>7 DEF ForceIsJustified, Mixed
<1>11. WritesAreOrdered'
  <2>1. \A c \in Chips : fw[c] >= fw[c]
    <3> TAKE c \in Chips
    <3>1. fw[c] \in Nat
      BY VersionsType DEF FlasherTypes
    <3> QED BY <3>1
  <2> QED BY <1>1, <1>2, <2>1 DEF WritesAreOrdered
<1>12. (pc # "exit" => rc = Running)' /\ ExitZeroIsVerified'
  BY <1>1, <1>2, <1>5 DEF ExitZeroIsVerified, Running
<1>13. MixedNodeConverges'
  BY <1>1, <1>2, <1>6 DEF MixedNodeConverges, Mixed
<1> QED BY <1>8, <1>9, <1>10, <1>11, <1>12, <1>13

\* Writing the chips, all that tt-flash was to write or some.
LEMMA FlashStep ==
  ASSUME FlasherInv, Flash
  PROVE  FlasherInv'
<1> USE DEF FlasherInv
<1>1. PICK written \in SUBSET ToWrite :
        /\ fw' = [c \in Chips |-> IF c \in written THEN bundle ELSE fw[c]]
        /\ \/ pc' = "post" /\ rc' = rc /\ clean' = (clean /\ written = ToWrite)
           \/ pc' = "exit" /\ rc' = 1 /\ clean' = FALSE
  BY DEF Flash, Goto, Exit
<1>2. /\ pc = "flash" /\ UNCHANGED <<env, bundle, fw0, current, force, listed>>
      /\ fw = fw0 /\ rc = Running
  BY DEF Flash, Untouched
<1>3. FlasherTypes'
  BY <1>1, <1>2 DEF FlasherTypes
<1>4. Untouched' /\ ReadbackIsTrue'
  BY <1>1, <1>2 DEF Untouched, ReadbackIsTrue
<1>5. ForceIsJustified'
  BY <1>1, <1>2 DEF ForceIsJustified, Mixed
<1>6. ~force => \A c \in Chips : fw'[c] >= fw0[c]
  <2> SUFFICES ASSUME ~force, NEW c \in Chips PROVE fw'[c] >= fw0[c]
    OBVIOUS
  <2>1. fw[c] \in Nat /\ bundle \in Nat
    BY VersionsType DEF FlasherTypes
  <2>2. c \in written => fw[c] < bundle
    BY DEF ToWrite
  <2>3. fw'[c] = IF c \in written THEN bundle ELSE fw[c]
    BY <1>1
  <2> QED BY <1>2, <2>1, <2>2, <2>3
<1>7. pc' = "post" /\ clean' /\ env.homogenize /\ Mixed => \A c \in Chips : fw'[c] = bundle
  <2> SUFFICES ASSUME pc' = "post", clean', env.homogenize, Mixed
               PROVE  \A c \in Chips : fw'[c] = bundle
    OBVIOUS
  <2>1. clean /\ written = ToWrite
    BY <1>1
  <2>2. ToWrite = Chips
    BY <1>2, <2>1 DEF ForceIsJustified, ToWrite
  <2> QED BY <1>1, <2>1, <2>2
<1>8. WritesAreOrdered'
  BY <1>2, <1>6, <1>7 DEF WritesAreOrdered, Mixed
<1>9. (pc # "exit" => rc = Running)' /\ ExitZeroIsVerified' /\ MixedNodeConverges'
  BY <1>1, <1>2 DEF ExitZeroIsVerified, MixedNodeConverges, Running
<1> QED BY <1>3, <1>4, <1>5, <1>8, <1>9

\* The assertion on the readback after the flash.
LEMMA PostFlashStep ==
  ASSUME FlasherInv, PostFlash
  PROVE  FlasherInv'
<1> USE DEF FlasherInv
<1>1. /\ pc = "post" /\ pc' = "exit" /\ UNCHANGED <<env, bundle, fw, fw0, current, force>>
      /\ listed' \in SUBSET Chips /\ clean' \in BOOLEAN
  BY DEF PostFlash, Exit, FlasherTypes
<1>2. \/ \E seen \in SUBSET Chips : \E dim \in SUBSET seen :
           /\ listed' = seen
           /\ clean' = (clean /\ seen = Chips /\ dim = {})
           /\ rc' = IF AtReadback(Readback(seen, dim)) THEN 0 ELSE 1
      \/ rc' = 1 /\ clean' = FALSE /\ UNCHANGED listed
  BY DEF PostFlash, Exit
<1>3. rc' = 0 => \A c \in listed' : fw[c] = env.readback
  <2> SUFFICES ASSUME rc' = 0 PROVE \A c \in listed' : fw[c] = env.readback
    OBVIOUS
  <2>1. PICK seen \in SUBSET Chips : \E dim \in SUBSET seen :
           listed' = seen /\ AtReadback(Readback(seen, dim))
    BY <1>2
  <2>2. PICK dim \in SUBSET seen : listed' = seen /\ AtReadback(Readback(seen, dim))
    BY <2>1
  <2>3. env.readback # Unknown
    BY VersionsType DEF FlasherTypes, FlashEnv
  <2>4. Unknown \notin Readback(seen, dim)
    BY <2>2, <2>3 DEF AtReadback
  <2>5. Readback(seen, dim) = {fw[c] : c \in seen}
    BY <2>4, ReadbackOfListed
  <2> QED BY <2>2, <2>5 DEF AtReadback
<1>4. clean' /\ env.homogenize /\ bundle = env.readback /\ Mixed
        => rc' = 0 /\ \A c \in Chips : fw[c] = env.readback
  <2> SUFFICES ASSUME clean', env.homogenize, bundle = env.readback, Mixed
               PROVE  rc' = 0 /\ \A c \in Chips : fw[c] = env.readback
    OBVIOUS
  <2>1. clean /\ rc' = IF AtReadback(Readback(Chips, {})) THEN 0 ELSE 1
    BY <1>2
  <2>2. \A c \in Chips : fw[c] = env.readback
    BY <1>1, <2>1 DEF WritesAreOrdered
  <2>3. AtReadback(Readback(Chips, {}))
    BY <2>2 DEF AtReadback, Readback
  <2> QED BY <2>1, <2>2, <2>3
<1>5. FlasherTypes' /\ Untouched' /\ ReadbackIsTrue'
  BY <1>1 DEF FlasherTypes, Untouched, ReadbackIsTrue
<1>6. ForceIsJustified' /\ WritesAreOrdered'
  BY <1>1 DEF ForceIsJustified, WritesAreOrdered, Mixed
<1>7. (pc # "exit" => rc = Running)' /\ ExitZeroIsVerified'
  BY <1>1, <1>3 DEF ExitZeroIsVerified
<1>8. MixedNodeConverges'
  BY <1>1, <1>4 DEF MixedNodeConverges, Mixed
<1> QED BY <1>5, <1>6, <1>7, <1>8

\* The end of the pod, and nothing at all.
LEMMA KilledStep ==
  ASSUME FlasherInv, Killed \/ Finished \/ UNCHANGED fvars
  PROVE  FlasherInv'
<1> USE DEF FlasherInv
<1>1. CASE Killed
  <2>1. /\ pc' = "exit" /\ rc' = 1 /\ clean' = FALSE
        /\ UNCHANGED <<env, bundle, fw, fw0, current, force, listed>>
    BY <1>1 DEF Killed, Exit
  <2>2. FlasherTypes' /\ Untouched' /\ ReadbackIsTrue'
    BY <2>1 DEF FlasherTypes, Untouched, ReadbackIsTrue
  <2> QED BY <2>1, <2>2 DEF ForceIsJustified, WritesAreOrdered, Mixed, ExitZeroIsVerified,
             MixedNodeConverges
<1>2. CASE UNCHANGED fvars
  BY <1>2 DEF fvars, FlasherTypes, Untouched, ReadbackIsTrue, ForceIsJustified,
     WritesAreOrdered, Mixed, ExitZeroIsVerified, MixedNodeConverges
<1> QED BY <1>1, <1>2 DEF Finished

\* The invariant holds of every flash Job.
LEMMA FlasherInvariant == FlasherSpec => []FlasherInv
<1>1. FlasherInit => FlasherInv
  BY FlasherInvInit
<1>2. FlasherInv /\ [FlasherNext]_fvars => FlasherInv'
  BY PreFlashStep, DecideStep, FlashStep, PostFlashStep, KilledStep DEF FlasherNext
<1> QED BY <1>1, <1>2, PTL DEF FlasherSpec

\* The environment of the container is what buildFlashJob made of spec.flasher.
Templated == env = buildFlashJob(flasher, env.readback)
LEMMA EnvIsTemplated == FlasherSpec => []Templated
<1>1. FlasherInit => Templated
  <2> SUFFICES ASSUME FlasherInit PROVE Templated
    OBVIOUS
  <2>1. PICK r \in Versions : env = buildFlashJob(flasher, r)
    BY DEF FlasherInit
  <2>2. env.readback = r
    BY <2>1 DEF buildFlashJob
  <2> QED BY <2>1, <2>2 DEF Templated
<1>2. Templated /\ [FlasherNext]_fvars => Templated'
  BY DEF Templated, FlasherNext, FetchBundle, PreFlash, Decide, Flash, PostFlash, Killed,
         Finished, fvars
<1> QED BY <1>1, <1>2, PTL DEF FlasherSpec

\* A flash Job that completes has read the target back from every chip it listed, on
\* the short cut past tt-flash as after it, whichever tool failed on the way.
THEOREM SuccessIsVerified == FlasherSpec => []ExitZeroIsVerified
<1>1. FlasherInv => ExitZeroIsVerified
  BY DEF FlasherInv
<1> QED BY <1>1, FlasherInvariant, PTL

\* No chip goes back to an older version unless spec.flasher asks for forceWrite, or the
\* chips disagreed and spec.flasher asks for them to be homogenized or is unset: an
\* incomplete or unreadable readback never makes flash.sh pass --force.
THEOREM DowngradesAreAskedFor == FlasherSpec => []NoUnforcedDowngrade
<1>1. FlasherInv /\ Templated => NoUnforcedDowngrade
  <2> SUFFICES ASSUME FlasherInv, Templated, NEW c \in Chips, fw[c] < fw0[c]
               PROVE  \/ flasher # NoOverride /\ flasher.forceWrite
                      \/ (flasher = NoOverride \/ flasher.homogenize) /\ Mixed
    BY DEF NoUnforcedDowngrade, Mixed
  <2>1. fw[c] \in Nat /\ fw0[c] \in Nat
    BY VersionsType DEF FlasherInv, FlasherTypes
  <2>2. ~(fw[c] >= fw0[c])
    BY <2>1
  <2>3. force
    BY <2>2 DEF FlasherInv, WritesAreOrdered
  <2>4. env.forceWrite \/ (env.homogenize /\ Mixed)
    BY <2>3 DEF FlasherInv, ForceIsJustified
  <2>5. CASE flasher = NoOverride
    <3>1. ~env.forceWrite
      BY <2>5 DEF Templated, buildFlashJob
    <3> QED BY <2>4, <2>5, <3>1
  <2>6. CASE flasher # NoOverride
    <3>1. env.forceWrite = flasher.forceWrite /\ env.homogenize = flasher.homogenize
      BY <2>6 DEF Templated, buildFlashJob
    <3> QED BY <2>4, <2>6, <3>1
  <2> QED BY <2>5, <2>6
<1> QED BY <1>1, FlasherInvariant, EnvIsTemplated, PTL

\* A node of mixed versions that is homogenised with working tools and the right
\* bundle ends with every chip at the target and a Job that succeeds.
THEOREM MixedNodesEndAtTarget == FlasherSpec => []MixedNodeConverges
<1>1. FlasherInv => MixedNodeConverges
  BY DEF FlasherInv
<1> QED BY <1>1, FlasherInvariant, PTL
=============================================================================
