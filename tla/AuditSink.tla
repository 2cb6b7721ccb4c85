----------------------------- MODULE AuditSink -----------------------------
(***************************************************************************)
(* The remote audit store of auditsink/store.go.  Append runs in one       *)
(* serializable transaction that locks the stream head, so it is one step; *)
(* last_sequence is the length of the sequence sink, whose position n      *)
(* holds the record of sequence n.  Of the time the head was last updated  *)
(* and the clock of the sink process only their order is kept: a trigger   *)
(* refuses to move updated_at back.                                        *)
(***************************************************************************)
EXTENDS Integers, Sequences

CONSTANT MaxClockSteps   \* bound: times the clock of the sink is set back

ASSUME SinkAssumption == MaxClockSteps \in Nat

VARIABLES
  sink,         \* remote_audit_records: [event, mac]
  clockBehind,  \* now() is before remote_audit_stream_head.updated_at
  clockSteps    \* times the clock was set back

sinkVars == <<sink, clockBehind, clockSteps>>

SinkInit == sink = << >> /\ clockBehind = FALSE /\ clockSteps = 0

\* The clock of the sink process is set back behind the last update.
ClockSetBack ==
  /\ clockSteps < MaxClockSteps
  /\ ~clockBehind
  /\ clockBehind' = TRUE
  /\ clockSteps' = clockSteps + 1
  /\ UNCHANGED sink

ClockCatchesUp ==
  /\ clockBehind
  /\ clockBehind' = FALSE
  /\ UNCHANGED <<sink, clockSteps>>

LastSequence == Len(sink)

\* exactReplay: the stored record is this one.
ExactReplay(r) ==
  /\ r.sequence \in 1 .. LastSequence
  /\ sink[r.sequence] = [event |-> r.event, mac |-> r.mac]

\* Mutant: a redelivered record is stored again.
NextOrOlder(r) == r.sequence <= LastSequence + 1

IsNext(r) == r.sequence = LastSequence + 1

\* The insert is followed by the update of the head, which its trigger
\* refuses when the clock is behind: rollback and ErrStore.
Storable(r) == IsNext(r) /\ ~clockBehind

\* 201 and 200 answer a committed Append, 409 and 503 anything else.
Accepted(r) == Storable(r) \/ ExactReplay(r)

\* Mutant: the answer is sent although the transaction was not committed.
SinkAppendUncommitted(r) == UNCHANGED sinkVars

SinkAppend(r) ==
  /\ sink' = IF Storable(r) THEN Append(sink, [event |-> r.event, mac |-> r.mac]) ELSE sink
  /\ UNCHANGED <<clockBehind, clockSteps>>

=============================================================================
