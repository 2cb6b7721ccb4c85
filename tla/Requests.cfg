\* Every route, permitted and refused requests, a spool that fills up.
CONSTANTS
  Slots = {q1, q2}
  Inputs <- AllInputs
  MaxPending = 4
  MaxBatch = 1
  MaxRequests = 2
SPECIFICATION Spec
SYMMETRY Interchangeable
INVARIANTS ChangesAccountable HealthyMeansRecorded NoDoubleCompletion
