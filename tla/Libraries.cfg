SPECIFICATION LibrariesSpec
CONSTANTS
  FileIds = {1, 2}
  FileBlocks = {0, 1, 2, 3, 4}
  BlockWords = 5
  Window = 3
  InlineMax = 1
  FileMax = 11
  BadBlocks = {}
  Data = {10}
  Lengths = {1, 11}
  Sizes = {0, 1}
  MaxCalls = 5
  MaxResets = 1
  CacheBlocks = {0, 1}
  BlockSize = 4
  ReadSize = 2
  ProgSize = 2
  WornBlocks = {1}
  Reads <- ReadsTried
  MaxErases = 2
  Blocks = {1, 2, 3}
  Units = 3
  Worn = {2}
  BlockCycles = 1
  Revs = 8
  MaxCommits = 5
  Vectors = {1, 2}
  FirstCapacity = 2
  MaxBlocks = 3
  PageNumbers = {0, 1}
  LastColumn = 1
  Margin = 2
  Shades = {0, 1}
  Frac = 8
  Bits = 24
  IntBits = 8
  Formats <- FormatsTried
  Arguments <- ArgumentsTried
CONSTRAINT Explored
INVARIANTS FileReadsBack FileSyncedSurvives CacheSound DirAgrees DirHandleFollows CommitsSafe WearIsSpread TreeAtomic TreeCutsFlagged TextSound VectorSound PanelSound FiguresDrawn
PROPERTY ValidatedIsWritten
CHECK_DEADLOCK FALSE
