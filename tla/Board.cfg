SPECIFICATION BoardSpec
CONSTANTS
  t1 = t1
  t2 = t2
  t3 = t3
  nullptr = nullptr
  Unknown = Unknown
  Tasks <- ThreeTasks
  Order <- MainOrder
  MaxDepth = 2
  Sleepers = {1}
  Delays = {1, 3}
  Word = 4
  MaxTicks = 12
  Pages = {0, 1, 2, 3}
  PerBlock = 2
  MaxResets = 3
  MaxWrites = 2
  N = 4
  NoByte = NoByte
  Packet = 2
  MaxOut = 6
  MaxIn = 3
  Wanted = 2
CONSTRAINT NotStruck
INVARIANTS TypeOK OwnStack NotEarly NeverFormattedAgain InOrder
PROPERTIES DelayEnds BootsEnd ImplementsBlockDevice AllPassedOn
CHECK_DEADLOCK FALSE
