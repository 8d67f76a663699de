SPECIFICATION Spec
CONSTANTS
  ETHERCAT_DC_CYCLE_NS = 2000000
  GPT_NOMINAL_PERIOD_COUNTS = 800000
  GPT_MAX_ADJUST_NS = 2000
  UnitsPerNs = 2
  UnitsPerCount = 5
  Drifts <- MCDrifts
  Buffers = 15
  Losses = {1, 15}
  Outages = {1, 5000}
  MaxOutages = 1
PROPERTIES PhaseLocks PeriodSmooth
