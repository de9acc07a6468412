CONSTANTS
  Fanout = 3
  GpaPages = 26
  AddrPages = 28
  InitPages = 4
  LoadPage = 11
  MaxImage = 3
  MaxFaults = 1
  Fresh <- MCDirty
  Residue <- MCResidue
  Gdt <- MCGdt
SPECIFICATION Spec
INVARIANT TypeOK
INVARIANT TranslationMatches
INVARIANT HostWalkMatches
INVARIANT TablesPrivate
PROPERTY SetUpEnds
