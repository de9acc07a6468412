CONSTANTS
  MaxCalls = 2
  Ahead = 2
  Programs <- MCPrograms
  Lines <- MCLines
SPECIFICATION Spec
PROPERTY PausesForInput
