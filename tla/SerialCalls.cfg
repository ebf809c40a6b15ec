SPECIFICATION SerialSpec
CONSTANTS
  s1 = s1
  r1 = r1
  Line = Line
  NoByte = NoByte
  N = 4
  Senders <- OneSender
  Receivers <- OneReceiver
  MaxLen = 5
  MaxSent = 8
  MaxArrived = 6
  MaxNoise = 1
INVARIANTS SentOnce ReceivedOnce EchoedInOrder
PROPERTIES Drains Delivers
CHECK_DEADLOCK FALSE
