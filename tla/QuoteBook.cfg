CONSTANTS
  w1 = w1
  w2 = w2
  Workers = {w1, w2}
  MaxQuotes = 3
  MaxCrashes = 2
SYMMETRY MCSymmetry
SPECIFICATION Spec
INVARIANTS
  PromisesKept
  StartsAgain
  NothingReplaced
