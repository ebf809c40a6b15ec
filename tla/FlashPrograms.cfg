SPECIFICATION FlashSpec
CONSTANTS
  Pages = {0, 1, 2, 3}
  PerBlock = 2
  MaxResets = 0
  MaxWrites = 1
INVARIANT ProgramsRegion
CHECK_DEADLOCK FALSE
