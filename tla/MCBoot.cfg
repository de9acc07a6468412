CONSTANTS
  MaxArgs = 3
  MaxString = 2
  Kernels = {0, 1, 2, 3, 6}
  Commands <- MCCommands
  GdtLen = 2
  StackAddr = 9
  ArgvAddr = 11
  ArgsAddr = 15
  StartAddr = 18
  TableAddr = 20
  LowTables = 2
  AppTables = 2
  EntryGva = 500
  Residue = {0, 77}
  BootLen = 2
  TssLen = 2
SPECIFICATION BootSpec
INVARIANT TypeOK
INVARIANT NothingLeft
INVARIANT StatusTells
INVARIANT FailureVisible
INVARIANT NoDanglingCallback
INVARIANT LayoutLimits
INVARIANT StartState
INVARIANT NeverLost
PROPERTY BootReachesApp
PROPERTY ReturnEnds
