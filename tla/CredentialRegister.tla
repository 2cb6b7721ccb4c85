------------------------- MODULE CredentialRegister -------------------------
(***************************************************************************)
(* What the credential API promises: a credential is a sequence of         *)
(* immutable versions; each change is applied to the newest one and adds   *)
(* one version; a retired credential changes no more.                      *)
(***************************************************************************)
EXTENDS Integers, Sequences

CONSTANTS
  Ids,       \* credential identifiers
  Creates,   \* create requests
  Changes    \* replace, rename and retire requests

VARIABLE history   \* identifier -> its versions, [name, inputs, state]

First(op) == [name |-> op.name, inputs |-> op.inputs, state |-> "active"]

\* The next version after v: the fields the operation does not name are kept.
Applied(op, v) ==
  CASE op.kind = "replace" -> [v EXCEPT !.inputs = op.inputs]
    [] op.kind = "rename"  -> [v EXCEPT !.name = op.name]
    [] op.kind = "retire"  -> [v EXCEPT !.state = "retired"]

Newest(id) == history[id][Len(history[id])]

Init == history = [id \in {} |-> << >>]

Create(id, op) ==
  /\ id \notin DOMAIN history
  /\ history' = [x \in DOMAIN history \cup {id} |->
                   IF x = id THEN <<First(op)>> ELSE history[x]]

Change(op) ==
  /\ op.credential \in DOMAIN history
  /\ Newest(op.credential).state = "active"
  /\ Len(history[op.credential]) = op.expected
  /\ history' = [history EXCEPT ![op.credential] =
                   Append(@, Applied(op, Newest(op.credential)))]

Next ==
  \/ \E id \in Ids, op \in Creates : Create(id, op)
  \/ \E op \in Changes : Change(op)

Spec == Init /\ [][Next]_history

=============================================================================
