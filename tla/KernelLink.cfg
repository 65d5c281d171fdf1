CONSTANTS
  c0 = c0
  c1 = c1
  None = None
  NumKernels = 2
  NumArgs <- MCNumArgs
  ArgType <- MCArgType
  ArgOffset <- MCArgOffset
  ArgsSize = 5
  Byte <- MCByte
  Blocks <- MCBlocks
  Cores <- MCCores
  MaxGroups = 2
SPECIFICATION Spec
INVARIANTS TypeOK ReadsStayInBlock
PROPERTIES ImplementsLaunches
