\* Rotation, status, backups and key removal over two rotation windows, without
\* overlap of two deployments.
CONSTANTS
  MasterKeys = {"k1", "k2", "k3"}
  Processes = {p1, p2}
  Versions = {v1, v2}
  Backups = {b1}
  KeySets <- TwoRotations
  BatchSize = 1
  MaxRotations = 2
  Rollouts = {"recreate"}
SPECIFICATION Spec
SYMMETRY Interchangeable
INVARIANTS NoSplice RotationsExclude ReadsAvailable BackupsRestorable ProgressTruthful
