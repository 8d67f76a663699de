SPECIFICATION LiveSpec
CONSTANTS
  INT32_MIN <- MCInt32Min
  INT32_MAX = 1
  UINT32_MODULUS = 2
  FloatExact = 8
  MOTION_POSITION_TOLERANCE_COUNTS = 0
  MOTION_POSITION_STABLE_CYCLES = 2
  MaxTotalCycles = 2
  PositionMm = {2}
  MmDivisor = 2
  NotFinite = NotFinite
  VelocityMmS = {1}
  ZERO_RETURN_VELOCITY_MM_S = 1
  IntervalMs = {1}
  RepeatCount = {1}
  MotorParams <- MCMotorParams
  NoParams = NoParams
  KEY1_OFFSET_MM = 2
  KEY1_VELOCITY_MM_S = 1
  KEY1_FIRST_INTERVAL_MS = 1
  KEY1_SECOND_INTERVAL_MS = 1
  KEY_SAMPLES = 2
PROPERTIES
  Key2StopTakesEffect
  Key2Toggles
  MotionProgresses
