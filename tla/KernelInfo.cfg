CONSTANTS
  Names <- MCNames
  Modules <- MCModules
SPECIFICATION Spec
INVARIANTS TypeOK ArgumentsRebuilt SizesRebuilt
