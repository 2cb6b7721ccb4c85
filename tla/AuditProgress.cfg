\* One worker: every committed event is delivered.
CONSTANTS
  Events = {"x"}
  Damaged = "damaged"
  MaximumPending = 2
  MaxEvents = 3
  Workers = {w1}
  BatchSize = 1
  MaxCorruptions = 0
  MaxClockSteps = 1
SPECIFICATION FairSpec
PROPERTIES EveryEventDelivered
