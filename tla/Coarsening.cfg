\* A group of two runs small structured kernels.
CONSTANTS
  Kernels <- MCKernelSet
  GroupSize = 2
SPECIFICATION Spec
INVARIANTS
  NoNullPredecessor
  BarriersReachable
  PreheadersExist
  PathsPreserved
  NoJoins
  MarksAreTrue
  SearchStartsAtBarriers
  EachBlockInOneRegion
  EveryRegionWrappable
PROPERTY
  StepsAreSpmd
