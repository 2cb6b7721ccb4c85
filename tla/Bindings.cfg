\* Registrations, claims, cancellations and expiry of two bindings, while the
\* credential is updated and retired.
CONSTANTS
  Runs = {"r1", "r2"}
  Dispatches = {"d1", "d2"}
  Keys = {"k1", "k2", "k3"}
  Credentials = {"c1"}
  Executors = {"e1", "e2"}
  Attempts = {"a1", "a2"}
  Stamps = {"s1", "s2"}
  MaxResolutions = 2
  MaxFutureStart = 1
  MaxBindingLifetime = 3
  BackdateGrace = 1
  AttemptRetryWindow = 2
  Registrations <- CompetingBindings
  Cancels <- OneCancel
  Claims <- ClaimMix
  Requests = {q1, q2}
  Horizon = 2
  MaxVersion = 2
SPECIFICATION Spec
SYMMETRY Slots
INVARIANTS
  TypeOK BudgetExact GrantsHonourBinding AttemptAnswersAgree AuditMatchesState
  AcknowledgedRegistrationsStand
PROPERTIES TerminalIsFinal RevocationWins SnapshotIsCurrent ImplementsLedger
