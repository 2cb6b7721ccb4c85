--------------------------- MODULE MCRequestAudit ---------------------------
(* Small instances of RequestAudit.                                        *)
EXTENDS RequestAudit, TLC

\* Request slots are interchangeable.
Interchangeable == Permutations(Slots)

To(op, role, valid) ==
  [method |-> Routes[op][1], at |-> Routes[op][2], tail |-> Routes[op][3],
   role |-> role, valid |-> valid]

\* Every route, called by a role that may.
Permitted ==
  { in \in { To(op, role, TRUE) : op \in DOMAIN Routes, role \in Roles } :
      in.role \in RolesOf(in) }

\* Requests that are refused, among them some that requestOperation names
\* after an operation that no handler carries out for them.
Refusals ==
  { To("credential_created", "none", TRUE), To("credential_created", "api", FALSE),
    To("credential_resolved", "scheduler", TRUE), To("backup_registered", "api", TRUE),
    [method |-> "POST", at |-> "credential", tail |-> "expire", role |-> "api", valid |-> TRUE],
    [method |-> "GET", at |-> "credential", tail |-> "inputs", role |-> "api", valid |-> TRUE],
    [method |-> "POST", at |-> "other", tail |-> "retire", role |-> "executor", valid |-> TRUE] }

AllInputs == Permitted \cup Refusals

=============================================================================
