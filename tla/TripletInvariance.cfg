\* Every function of three instructions behind three allocas and an id.
CONSTANTS
  Functions <- MCFunctions
  Size = 3
SPECIFICATION Spec
INVARIANTS
  TypeOK
  AllocasEnteredOnce
  VerdictExact
