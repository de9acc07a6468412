CONSTANTS
  MaxLen = 3
  AllLen = 2
  CallLen = 5
  Programs <- MCAll
  Hooks <- MCHooks
  Vectors <- MCVectors
SPECIFICATION Spec
INVARIANT TypeOK
INVARIANT EntriesValid
INVARIANT OneAnswer
PROPERTY StopIsClean
PROPERTY ImplementsNative
PROPERTY Terminates
