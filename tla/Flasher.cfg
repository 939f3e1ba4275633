\* Two chips, three versions: a chip may be behind, at and ahead of the target.
SPECIFICATION FlasherSpec
CONSTANTS
  Chips = {x1, x2}
  Versions = {1, 2, 3}
  Unknown = Unknown
  NoOverride = NoOverride
INVARIANTS ExitZeroIsVerified NoUnforcedDowngrade MixedNodeConverges
