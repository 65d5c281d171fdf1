\* A 2 x 1 x 2 work-group runs a kernel with a bare region that stores to a
\* buffered alloca.
CONSTANTS
  LocalSize <- Size212
  IntMod = 32
  Regions <- MCRegions
  Vars <- MCVars
  ArgVals = {a1, a2}
  Kernels <- MCBareStore
  Exit = Exit
  Lid = Lid
  Arg = Arg
  None = None
SPECIFICATION Spec
PROPERTY
  ImplementsSpmd
