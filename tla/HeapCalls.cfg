SPECIFICATION Spec
CONSTANTS
  c1 = c1
  c2 = c2
  b1 = b1
  b2 = b2
  b3 = b3
  NoClient = NoClient
  NoBlock = NoBlock
  Clients <- Clients2
  Blocks <- Blocks3
  Sizes <- SizesTwo
  NewSizes <- SizesResize
  HEAP_START = 16
  HEAP_END = 64
  Top = 120
  AddrSpace = 65536
  KeepFirst = FALSE
CONSTRAINT NotSpoilt
INVARIANT HeapSound
PROPERTIES FirstFit ScanEnds ImplementsHeap
