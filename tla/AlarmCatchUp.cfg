SPECIFICATION LogSpec
CONSTANTS
  Writers = {w1, w2}
  MaxKept = 2
  Delay = 1
  MaxEvents = 3
  MaxHour = 3
  MaxClears = 1
  MaxTroubles = 1
INVARIANT FailedWindowIsRetried
CHECK_DEADLOCK FALSE
