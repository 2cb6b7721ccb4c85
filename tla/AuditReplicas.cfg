\* Two service processes deliver at once; one row may be damaged.
CONSTANTS
  Events = {"x"}
  Damaged = "damaged"
  MaximumPending = 3
  MaxEvents = 4
  Workers = {w1, w2}
  BatchSize = 2
  MaxCorruptions = 1
  MaxClockSteps = 1
SPECIFICATION Spec
SYMMETRY Replicas
INVARIANTS TypeOK SinkIsPrefix AcknowledgedPrefix PendingBounded
PROPERTIES ImplementsStream
