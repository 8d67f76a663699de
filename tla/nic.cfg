SPECIFICATION Spec
CONSTANTS
  EC_MAXBUF = 5
  ETHERCAT_RX_QUEUE_SIZE = 2
  Segments = 2
  Wkcs = {0, 3}
  ExpectedWkc = 3
  WireDelay = 1
  MaxRequests = 6
INVARIANTS BuffersInUse AnswerIsForRequest RingInOrder
PROPERTY CallsReturn
CHECK_DEADLOCK FALSE
