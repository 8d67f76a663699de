SPECIFICATION Spec
CONSTANTS
  INT32_MIN <- MCInt32Min
  INT32_MAX = 2
  UINT32_MODULUS = 4
  FloatExact = 8
  MOTION_POSITION_TOLERANCE_COUNTS = 1
  MOTION_POSITION_STABLE_CYCLES = 2
  MaxTotalCycles = 2
  PositionMm <- MCPositionMm
  MmDivisor = 2
  NotFinite = NotFinite
  VelocityMmS = {0, 1}
  ZERO_RETURN_VELOCITY_MM_S = 1
  IntervalMs = {0, 1}
  RepeatCount = {0, 2}
  MotorParams <- MCMotorParams
  NoParams = NoParams
INVARIANTS
  TypeOK
  SchedulerCoherent
  RequestStillValid
  RecipLegs
PROPERTIES
  PauseHolds
  TargetNeverJumps
  AbortNotLost
  DoneMeansArrived
  ImplementsService
VIEW LiveState
