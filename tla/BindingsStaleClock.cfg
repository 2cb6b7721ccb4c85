\* docs/service-api.md: current time is verified to be within the window.
CONSTANTS
  Runs = {"r1", "r2"}
  Dispatches = {"d1", "d2"}
  Keys = {"k1", "k2", "k3"}
  Credentials = {"c1"}
  Executors = {"e1", "e2"}
  Attempts = {"a1", "a2"}
  Stamps = {"s1", "s2"}
  MaxResolutions = 2
  MaxFutureStart = 1
  MaxBindingLifetime = 2
  BackdateGrace = 1
  AttemptRetryWindow = 1
  Registrations <- OneBinding
  Cancels <- CancelFirst
  Claims <- ClaimPair
  Requests = {q1, q2}
  Horizon = 2
  MaxVersion = 1
SPECIFICATION Spec
PROPERTY GrantWithinRealWindow
