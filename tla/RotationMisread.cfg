\* Does a key status without references mean that no backup needs the key?
CONSTANTS
  MasterKeys = {"k1", "k2", "k3"}
  Processes = {p1}
  Versions = {v1}
  Backups = {b1}
  KeySets <- OneRotation
  BatchSize = 1
  MaxRotations = 1
  Rollouts = {"recreate"}
SPECIFICATION Spec
INVARIANT RemovalGated
