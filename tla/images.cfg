SPECIFICATION Spec
CONSTANTS
  Node = {n1, n2, n3}
  Tile = {1, 2}
  Key = {"file", "udim", "builtin"}
  Builtin = {"builtin"}
  Wanted <- MCWanted
  NoKey = NoKey
  NoSlot = NoSlot
SYMMETRY Symmetry
CHECK_DEADLOCK FALSE
INVARIANTS
  UsersCounted
  HandlesValid
  LoadedOnce
  UnusedNoticed
  LoadedWhenRendering
