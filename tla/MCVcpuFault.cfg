CONSTANTS
  MaxLen = 0
  AllLen = 0
  CallLen = 0
  Programs <- MCFault
  Hooks <- MCHooks
  Vectors <- MCVectors
SPECIFICATION Spec
PROPERTY TripleFaultStops
