\* A sum over an index that steps: both go round through an alloca.
CONSTANTS
  Functions <- MCStepping
  Size = 3
SPECIFICATION Spec
INVARIANT InvariantDataAgrees
