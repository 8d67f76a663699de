SPECIFICATION Spec
CONSTANTS
  AxisCount = 2
  ETHERCAT_LINK_STABLE_POLLS = 2
  ETHERCAT_SAFE_OP_WARMUP_CYCLES = 2
  ETHERCAT_AXIS_OP_TIMEOUT_CYCLES = 5
  ETHERCAT_AXIS_OP_STABLE_CYCLES = 2
  ETHERCAT_STATE_CHECK_INTERVAL = 2
  ETHERCAT_ZERO_WKC_LIMIT = 1
INVARIANTS
  TypeOK
  TimerWhileExchanging
PROPERTIES
  LoopStartsInOp
  StartedOnceOnStableLink
  StartupEnds
