SPECIFICATION Spec
CONSTANTS
  t1 = t1
  t2 = t2
  t3 = t3
  nullptr = nullptr
  Unknown = Unknown
  Tasks <- ThreeTasks
  Order <- MainOrder
  MaxDepth = 2
INVARIANT EntersTaskStack
