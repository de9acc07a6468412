CONSTANTS
  Digit = 8
  MH_MAGIC = 57
  MH_MAGIC_64 = 58
  FAT_MAGIC = 59
  LC_SEGMENT = 1
  LC_SEGMENT_64 = 3
  LC_MAIN = 2
  Residue = {0, 58, 59}
  MaxCmds = 3
  RawWords = {0, 1, 2, 16}
  MaxRaw = 4
  Files <- MCFiles
SPECIFICATION Spec
INVARIANT FindsEntry
INVARIANT ListsAll
PROPERTY WalkEnds
