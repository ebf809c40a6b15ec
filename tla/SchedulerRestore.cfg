SPECIFICATION Spec
CONSTANTS
  t1 = t1
  t2 = t2
  t3 = t3
  t4 = t4
  nullptr = nullptr
  TCBs <- Slots3
  Boot <- BootThree
  Creators <- Nobody
  Returning <- Slots3
INVARIANT RestoresNext
