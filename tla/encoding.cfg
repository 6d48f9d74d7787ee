CONSTANTS
  GroupBits = 3
  IntBits = 8
  MinBuffer = 1
  MaxBuffer = 4
  Sizes <- MCSizes
  Blocks <- MCBlocks
  Foreign <- MCForeign
  Expiry = {"soon"}
SPECIFICATION Spec
INVARIANTS TypeOK RoundTrip RefusedOnlyIfTooBig LengthIsSafe LengthIsUnderstood
CHECK_DEADLOCK FALSE
