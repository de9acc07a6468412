CONSTANTS
  AddrPages = 7
  GpaPages = 5
  MaxPages = 3
  Blocks = {b1, b2, b3}
  NULL = NULL
SPECIFICATION Spec
INVARIANT TypeOK
INVARIANT RegionsOrdered
INVARIANT EptAgrees
INVARIANT HostBacked
INVARIANT FirstFit
INVARIANT AllocFits
PROPERTY ImplementsGuestPhys
