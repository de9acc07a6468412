CONSTANTS
  Fanout = 3
  GpaPages = 14
  AddrPages = 16
  InitPages = 2
  LoadPage = 9
  MaxImage = 2
  MaxFaults = 1
  Fresh <- MCZeroed
  Residue <- MCResidue
  Gdt <- MCGdt
SPECIFICATION Spec
INVARIANT SuccessIsMapped
