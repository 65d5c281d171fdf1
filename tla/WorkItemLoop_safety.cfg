\* A 2 x 3 x 2 work-group runs each kernel.
CONSTANTS
  LocalSize <- Size232
  IntMod = 32
  Regions <- MCRegions
  Vars <- MCVars
  ArgVals = {a1, a2}
  Kernels <- MCKernels
  Exit = Exit
  Lid = Lid
  Arg = Arg
  None = None
SPECIFICATION Spec
INVARIANTS
  TypeOK
  GroupAgrees
  SlotInBounds
  ScalarAgreesWithSlots
PROPERTY
  ImplementsSpmd
