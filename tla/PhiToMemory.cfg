\* Values modulo 3; two work-items of a group of 2 x 3 x 2 share the registers
\* of a spilled kernel.
CONSTANTS
  Given <- MCGiven
  Modulus = 3
  Functions <- MCFunctions
  LocalSize <- MCLocalSize
SPECIFICATION Spec
CONSTRAINT TwoRun
INVARIANTS
  ValuesPreserved
  PhisInFront
  NothingEscapes
