CONSTANTS
  Sources <- MCSources
  MaxPieces = 3
SPECIFICATION Spec
INVARIANTS
  RoutesFound
