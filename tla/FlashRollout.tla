---------------------------- MODULE FlashRollout ----------------------------
(***************************************************************************)
(* What the firmware controller promises, without its caches, passes and   *)
(* node states: a node belongs to the first CR that claims it, for good,   *)
(* and only that CR flashes it, in one of the CR's flash slots.            *)
(***************************************************************************)
EXTENDS Integers, FiniteSets

CONSTANTS None, Nodes, Crs, Versions,
          Slots(_)   \* Slots(c): how many flashes of c may be under way

VARIABLES owner,     \* owner[n]: the CR that has claimed n, or None
          flash      \* flash[<<c, n, v>>]: how far c's flash of n to v has come

avars == <<owner, flash>>
Flashes == Crs \X Nodes \X Versions

UnderWay(c) == {nv \in Nodes \X Versions : flash[<<c, nv[1], nv[2]>>] = "running"}

AInit ==
  /\ owner = [n \in Nodes |-> None]
  /\ flash = [f \in Flashes |-> "none"]

\* An unclaimed node is claimed.
AClaim(c, n) ==
  /\ owner[n] = None
  /\ owner' = [owner EXCEPT ![n] = c]
  /\ UNCHANGED flash

\* A flash begins: of a claimed node, nobody flashing it, a slot being free.
ABegin(c, n, v) ==
  /\ owner[n] = c
  /\ flash[<<c, n, v>>] = "none"
  /\ \A f \in Flashes : f[2] = n => flash[f] # "running"
  /\ Cardinality(UnderWay(c)) < Slots(c)
  /\ flash' = [flash EXCEPT ![<<c, n, v>>] = "running"]
  /\ UNCHANGED owner

\* A flash ends, and the record of a flash is dropped.
AEnd(f) ==
  /\ flash[f] = "running"
  /\ \E r \in {"succeeded", "failed"} : flash' = [flash EXCEPT ![f] = r]
  /\ UNCHANGED owner
AForget(f) ==
  /\ flash[f] # "none"
  /\ flash' = [flash EXCEPT ![f] = "none"]
  /\ UNCHANGED owner

ANext ==
  \/ \E c \in Crs, n \in Nodes : AClaim(c, n)
  \/ \E c \in Crs, n \in Nodes, v \in Versions : ABegin(c, n, v)
  \/ \E f \in Flashes : AEnd(f) \/ AForget(f)

ASpec == AInit /\ [][ANext]_avars
=============================================================================
