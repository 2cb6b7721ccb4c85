-------------------------- MODULE MCAuditDelivery --------------------------
(* Small instances of AuditDelivery.                                       *)
EXTENDS AuditDelivery, TLC

\* Service processes are interchangeable.
Replicas == Permutations(Workers)

=============================================================================
