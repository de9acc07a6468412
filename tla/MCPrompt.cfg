CONSTANTS
  MaxCalls = 4
  Ahead = 2
  Programs <- MCPrograms
  Lines <- MCLines
SPECIFICATION Spec
INVARIANT CallsPaidFor
PROPERTY Settles
