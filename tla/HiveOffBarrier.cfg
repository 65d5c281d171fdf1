\* All functions of one or two small blocks, in every order of BarrierSet.
CONSTANTS
  Functions <- MCFunctions
  EntryLen = 3
  SecondLen = 3
SPECIFICATION Spec
INVARIANTS
  TypeOK
  BarriersIsolated
  ResultIsCanonical
  EmptyLeadsToBarrier
  ScanEnds
