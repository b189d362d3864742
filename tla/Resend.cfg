SPECIFICATION ResendSpec
CONSTANTS
  BITSPERLONG = 3
  Sizes = {1, 2, 3, 5, 6, 8}
  Arguments = {0, 1, 2, 3, 4, 5, 6, 7, 8, 9}
  MAXRANGES = 2
  END = 99
INVARIANTS AsksForMissing SendsTheHoles
PROPERTY ImplementsBitSet
