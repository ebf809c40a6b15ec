SPECIFICATION PartSpec
CONSTANTS
  t1 = t1
  t2 = t2
  t3 = t3
  t4 = t4
  nullptr = nullptr
  TCBs <- Slots4
  Boot <- BootTwo
  Creators <- Slots4
  Returning <- Slots4
CONSTRAINT NotRacedOfMany
INVARIANTS TypeOK OwnContext RingIntact OneCycle NoLostContext
PROPERTIES RoundRobinSteps FewServed FewQueueGoesOn
