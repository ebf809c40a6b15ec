SPECIFICATION Spec
CONSTANTS
  s1 = s1
  r1 = r1
  Line = Line
  NoByte = NoByte
  N = 4
  Senders <- OneSender
  Receivers <- Nobody
  MaxLen = 1
  MaxSent = 3
  MaxArrived = 0
PROPERTIES SendsData
CHECK_DEADLOCK FALSE
