SPECIFICATION Spec
CONSTANTS
  Uses <- MCUses
  Saves <- MCSaves
  Touched = {4}
INVARIANTS
  BanksInPlace
  FlatIsCurrent
