CONSTANTS
  Arenas = {p}
  SizeMod = 16
  MaxAlign = 2
  Addresses = {2, 10}
  Sizes = {0, 1, 3, 7}
  Alignments = {1, 2, 3, 4}
  Elements = {}
SPECIFICATION ArenaSpec
INVARIANTS
  BlocksAlignedAsAsked
