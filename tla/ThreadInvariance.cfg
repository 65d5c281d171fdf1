CONSTANTS
  MaxAxis = 2
  Functions <- MCFunctions
SPECIFICATION Spec
INVARIANTS TypeOK Settled CoversDependences VariantIsDependent
PROPERTIES VerdictsSink Terminates
