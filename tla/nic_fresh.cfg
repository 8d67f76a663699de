SPECIFICATION Spec
CONSTANTS
  EC_MAXBUF = 4
  ETHERCAT_RX_QUEUE_SIZE = 1
  Segments = 1
  Wkcs = {0, 3}
  ExpectedWkc = 3
  WireDelay = 1
  MaxRequests = 6
PROPERTY CompleteMeansFresh
CHECK_DEADLOCK FALSE
