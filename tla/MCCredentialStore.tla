------------------------- MODULE MCCredentialStore -------------------------
(* Small instances of CredentialStore.                                     *)
EXTENDS CredentialStore, TLC

Make(key, name) == [kind |-> "create", key |-> key, name |-> name, inputs |-> "i1"]

\* One key sent with two contents.
CreateMix == { Make("k1", "n1"), Make("k1", "n2") }

ChangesOf(id) ==
  [kind : {"replace"}, credential : {id}, expected : 1 .. 2, inputs : {"i1", "i2"}]
    \cup [kind : {"rename"}, credential : {id}, expected : 1 .. 2, name : {"n2"}]
    \cup [kind : {"retire"}, credential : {id}, expected : 1 .. 2]

\* Changes of the first credential, expecting its first or second version.
ChangeMix == ChangesOf("c1")

Slots == Permutations(Requests)

=============================================================================
