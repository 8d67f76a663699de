SPECIFICATION LoopSpec
CONSTANTS
  INT32_MIN = 0
  INT32_MAX = 1
  UINT32_MODULUS = 2
  FloatExact = 8
  MOTION_POSITION_TOLERANCE_COUNTS = 0
  MOTION_POSITION_STABLE_CYCLES = 2
  MaxTotalCycles = 1
  PositionMm = {2}
  MmDivisor = 2
  NotFinite = NotFinite
  VelocityMmS = {1}
  ZERO_RETURN_VELOCITY_MM_S = 1
  IntervalMs = {0}
  RepeatCount = {0}
  MotorParams <- MCMotorParams
  NoParams = NoParams
  FAULT_CLEAR_CYCLES = 1
  STEP_CYCLES = 2
  CSP_PREPARE_CYCLES = 1
  Buffers = 1
  Incomplete = Incomplete
INVARIANT
  CommandOwnsTarget
PROPERTIES
  FirstEnableHolds
VIEW LiveState
