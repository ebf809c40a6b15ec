SPECIFICATION LfsFileSpec
CONSTANTS
  FileIds = {1}
  FileBlocks = {0, 1, 2, 3}
  BlockWords = 5
  Window = 3
  InlineMax = 1
  FileMax = 11
  BadBlocks = {3}
  Data = {10}
  Lengths = {1, 5, 11}
  Sizes = {0, 1}
  MaxCalls = 6
  MaxResets = 1
INVARIANT WrittenKept
CHECK_DEADLOCK FALSE
