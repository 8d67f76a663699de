SPECIFICATION DriveSpec
CONSTANTS
  Axis = {1}
  Position = {0, 1}
  FAULT_CLEAR_CYCLES = 1
  STEP_CYCLES = 2
  CSP_PREPARE_CYCLES = 2
  OP_MODE = 0
  Buffers = 2
  Incomplete = Incomplete
INVARIANT
  TypeOK
PROPERTIES
  EnabledAtReportedPosition
  EnableSettles
  PromptDriveEnabled
