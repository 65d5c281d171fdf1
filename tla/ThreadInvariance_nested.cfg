CONSTANTS
  MaxAxis = 2
  Functions <- NestedFunctions
SPECIFICATION Spec
INVARIANTS CoversDependences
