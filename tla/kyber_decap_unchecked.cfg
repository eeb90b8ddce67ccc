CONSTANTS
  MaxKeys = 2
  MaxEncaps = 2
SPECIFICATION Spec
INVARIANTS
  DecapValidatesLength
