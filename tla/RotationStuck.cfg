\* Can a resume always continue while processes are replaced one by one?
CONSTANTS
  MasterKeys = {"k1", "k2", "k3"}
  Processes = {p1, p2}
  Versions = {v1, v2, v3}
  Backups = {}
  KeySets <- OneRotation
  BatchSize = 1
  MaxRotations = 1
  Rollouts = {"rolling"}
SPECIFICATION Spec
INVARIANT ResumeContinues
