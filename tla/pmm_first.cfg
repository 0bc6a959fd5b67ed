SPECIFICATION Spec
CONSTANTS
  W = 4
  MaxBlocks = 24
  Available <- MCAvailable
  SystemFrames = 4
  ImageFrames = 3
  PMMGR_BLOCK_SIZE = 2
  Slots = {s1, s2, s3}
  BufferSizes = {1, 2}
  Width = 32
INVARIANTS BufferApart
