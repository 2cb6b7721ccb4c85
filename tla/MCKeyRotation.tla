--------------------------- MODULE MCKeyRotation ---------------------------
(* Small instances of KeyRotation.                                         *)
EXTENDS KeyRotation, TLC

Old == [current |-> "k1", previous |-> {}]
Window == [current |-> "k2", previous |-> {"k1"}]
New == [current |-> "k2", previous |-> {}]

\* One rotation window, opened and closed.
OneRotation == <<Old, Window, New>>

\* The next window opens directly on the first.
TwoRotations == <<Old, Window, [current |-> "k3", previous |-> {"k2"}]>>

\* Processes, versions and backups are interchangeable.
Interchangeable ==
  Permutations(Processes) \cup Permutations(Versions) \cup Permutations(Backups)

=============================================================================
