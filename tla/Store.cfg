\* Competing creations, replays and changes.
CONSTANTS
  Ids = {"c1", "c2", "c3"}
  Keys = {"k1"}
  Names = {"n1", "n2"}
  Inputs = {"i1", "i2"}
  Creates <- CreateMix
  Changes <- ChangeMix
  Requests = {q1, q2, q3}
SPECIFICATION Spec
SYMMETRY Slots
INVARIANTS CreateOnce ChangesNotLost
PROPERTIES ImplementsRegister
