\* Align 2: cells of at least 8 bytes, a split leaves at least 10, and the
\* memory ends off alignment.  Six cells, or fewer and larger ones.
CONSTANTS
  Size = 7
  HEADSIZE = 2
  FRAME = 102
  Items <- MCItems
  Chars = {1, 2}
  BufLens = {1, 3, 5}
  Align = 2
  FullHdr = 8
  UsedHdr = 4
  MgrSize = 7
  BlockHdr = 3
  RawSize = 69
  Requests = {0, 5, 9}
SPECIFICATION MemorySpec
INVARIANT FreeCellsSound
PROPERTIES RingIsQueue MemoryIsHeap AllocateReturns
