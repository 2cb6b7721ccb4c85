\* Does an integrity failure mean damage?
CONSTANTS
  Events = {"x"}
  Damaged = "damaged"
  MaximumPending = 2
  MaxEvents = 2
  Workers = {w1}
  BatchSize = 2
  MaxCorruptions = 0
  MaxClockSteps = 0
SPECIFICATION Spec
INVARIANT AlarmMeansDamage
