CONSTANTS
  Sources <- ReadmeSource
  MaxPieces = 1
SPECIFICATION Spec
INVARIANT
  KeysUnique
