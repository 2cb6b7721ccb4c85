\* One rotation window, with and without overlap of two deployments: what a
\* step may do to a rotation, and that a resumed one completes.
CONSTANTS
  MasterKeys = {"k1", "k2", "k3"}
  Processes = {p1, p2}
  Versions = {v1, v2}
  Backups = {}
  KeySets <- OneRotation
  BatchSize = 1
  MaxRotations = 1
  Rollouts = {"recreate", "rolling"}
SPECIFICATION FairSpec
INVARIANTS TypeOK
PROPERTIES ProgressMonotone RotationCompletes
