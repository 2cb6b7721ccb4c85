---------------------------- MODULE AuditStream ----------------------------
(***************************************************************************)
(* What the audit pipeline promises: committed events form an append-only  *)
(* log; the sink holds a prefix of it, extended one record at a time; and  *)
(* the source counts as delivered only a prefix of what the sink holds.    *)
(***************************************************************************)
EXTENDS Integers, Sequences

CONSTANTS Events, MaximumPending

VARIABLES
  log,           \* the committed events
  replicated,    \* how many of them the sink holds
  acknowledged   \* how many of them the source knows to be there

vars == <<log, replicated, acknowledged>>

Init == log = << >> /\ replicated = 0 /\ acknowledged = 0

\* One transaction appends any number of events that the bound leaves room for.
Commit ==
  /\ Len(log') > Len(log)
  /\ Len(log') - acknowledged <= MaximumPending
  /\ log' \in Seq(Events)
  /\ \A n \in DOMAIN log : log'[n] = log[n]
  /\ UNCHANGED <<replicated, acknowledged>>

Replicate ==
  /\ replicated < Len(log)
  /\ replicated' = replicated + 1
  /\ UNCHANGED <<log, acknowledged>>

Acknowledge ==
  /\ acknowledged < replicated
  /\ acknowledged' = acknowledged + 1
  /\ UNCHANGED <<log, replicated>>

Next ==
  \/ Commit
  \/ Replicate
  \/ Acknowledge

Spec == Init /\ [][Next]_vars

=============================================================================
