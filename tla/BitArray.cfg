SPECIFICATION Spec
CONSTANTS
  BITSPERLONG = 3
  Sizes = {8}
  Arguments = {0, 1, 2, 3, 4, 5, 6, 7, 8, 9}
PROPERTY SetRangeIsExact
