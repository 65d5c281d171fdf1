\* A fair thread on a 2 x 1 x 2 work-group, with a kernel whose work-items
\* diverge among the others.
CONSTANTS
  LocalSize <- Size212
  IntMod = 32
  Regions <- MCRegions
  Vars <- MCVars
  ArgVals = {a1, a2}
  Kernels <- MCSmall
  Exit = Exit
  Lid = Lid
  Arg = Arg
  None = None
SPECIFICATION FairSpec
PROPERTIES
  ImplementsSpmd
  RegionEnds
