SPECIFICATION Spec
CONSTANTS
  W = 4
  MaxBlocks = 12
  Available <- MCAvailable
  SystemFrames = 4
  ImageFrames = 3
  PMMGR_BLOCK_SIZE = 2
  Slots = {s1, s2}
  BufferSizes = {1, 2}
  Width = 13
SYMMETRY Symmetry
INVARIANTS TypeOK SystemKept
PROPERTIES ImageStartsFree
