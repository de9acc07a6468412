CONSTANTS
  Fanout = 2
  GpaPages = 15
  AddrPages = 16
  InitPages = 2
  LoadPage = 8
  MaxImage = 3
  MaxFaults = 0
  Fresh <- MCZeroed
  Residue <- MCResidue
  Gdt <- MCGdt
  PageBytes = 2
  MaxBuffer = 5
  MaxStores = 2
SPECIFICATION BufSpec
INVARIANT BufferIsGuests
