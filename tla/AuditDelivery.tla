--------------------------- MODULE AuditDelivery ---------------------------
(***************************************************************************)
(* The audit pipeline: transactions append to the spool, the delivery      *)
(* worker of each service process (audit/delivery.go) verifies the chain,  *)
(* reads batches and posts them in order, and the sink stores them.        *)
(*                                                                         *)
(* Verify reads the rows and then the head; Pending reads the batch, the   *)
(* head and the last row.  Each read is a statement of its own, so each is *)
(* an action and a transaction may commit between two of them.  A request  *)
(* may time out before or after the sink has stored it, and a request      *)
(* given up may still be processed later (orphans).  An ErrAudit ends the  *)
(* worker and with it the process (app/runtime.go), which is restarted.    *)
(***************************************************************************)
EXTENDS AuditSpool, AuditSink

CONSTANTS
  Workers,        \* service processes, one delivery worker each
  BatchSize,      \* config.BatchSize
  MaxCorruptions  \* bound: damaged rows in a behaviour

ASSUME DeliveryAssumption == BatchSize \in Nat \ {0} /\ MaxCorruptions \in Nat

VARIABLES
  phase,        \* where each worker is
  batch,        \* records read and not yet acknowledged: sequence -> record
  mark,         \* the first half of a two-statement comparison
  degraded,     \* worker.degraded
  orphans,      \* requests given up by their sender, still on their way
  corruptions   \* rows damaged so far

workerVars == <<phase, batch, mark, degraded>>
vars == <<spool, head, delivered, txRows, txHead, sink, clockBehind, clockSteps, phase,
          batch, mark, degraded, orphans, corruptions>>

Phases == {"verify", "verifyHead", "poll", "pollHead", "pollLast", "deliver",
           "await", "answered", "failed"}

NoBatch == [n \in {} |-> 0]
NoMark == [sequence |-> 0, mac |-> NoMac]

Init ==
  /\ SpoolInit
  /\ SinkInit
  /\ phase = [w \in Workers |-> "verify"]
  /\ batch = [w \in Workers |-> NoBatch]
  /\ mark = [w \in Workers |-> NoMark]
  /\ degraded = [w \in Workers |-> FALSE]
  /\ orphans = {}
  /\ corruptions = 0

-----------------------------------------------------------------------------
(* The service's transactions, and damage to a stored row.                 *)

Appends ==
  /\ Len(spool) + Len(txRows) < MaxEvents
  /\ \E e \in Events : AppendTx(e)
  /\ UNCHANGED <<sinkVars, workerVars, orphans, corruptions>>

Commit ==
  /\ CommitTx
  /\ UNCHANGED <<sinkVars, workerVars, orphans, corruptions>>

Rollback ==
  /\ RollbackTx
  /\ UNCHANGED <<sinkVars, workerVars, orphans, corruptions>>

Damage ==
  /\ corruptions < MaxCorruptions
  /\ corruptions' = corruptions + 1
  /\ \E n \in DOMAIN spool : Corrupt(n)
  /\ UNCHANGED <<sinkVars, workerVars, orphans>>

SinkClock ==
  /\ ClockSetBack \/ ClockCatchesUp
  /\ UNCHANGED <<spoolVars, workerVars, orphans, corruptions>>

-----------------------------------------------------------------------------
(* Where a worker goes next.                                               *)

Goto(w, p) == phase' = [phase EXCEPT ![w] = p]

\* Run returns ErrAudit.
Fail(w) ==
  /\ Goto(w, "failed")
  /\ batch' = [batch EXCEPT ![w] = NoBatch]
  /\ mark' = [mark EXCEPT ![w] = NoMark]
  /\ degraded' = [degraded EXCEPT ![w] = TRUE]

\* deliverBatch returned, with or without ErrSink; wait for the ticker.
NextPoll(w, sinkFailed) ==
  /\ Goto(w, "poll")
  /\ batch' = [batch EXCEPT ![w] = NoBatch]
  /\ degraded' = [degraded EXCEPT ![w] = sinkFailed]
  /\ UNCHANGED mark

\* The record a worker sends next: the first of its batch.
Current(w) == CHOOSE r \in {batch[w][n] : n \in DOMAIN batch[w]} :
                \A n \in DOMAIN batch[w] : r.sequence <= n

-----------------------------------------------------------------------------
(* Verify.                                                                 *)

VerifyRows(w) ==
  /\ phase[w] = "verify"
  /\ \/ /\ ChainAuthentic
        /\ Goto(w, "verifyHead")
        /\ mark' = [mark EXCEPT ![w] = LastRow]
        /\ UNCHANGED <<batch, degraded>>
     \/ ~ChainAuthentic /\ Fail(w)
  /\ UNCHANGED <<spoolVars, sinkVars, orphans, corruptions>>

VerifyHead(w) ==
  /\ phase[w] = "verifyHead"
  /\ \/ /\ head = mark[w]
        /\ Goto(w, "poll")
        /\ mark' = [mark EXCEPT ![w] = NoMark]
        /\ UNCHANGED <<batch, degraded>>
     \/ head # mark[w] /\ Fail(w)
  /\ UNCHANGED <<spoolVars, sinkVars, orphans, corruptions>>

-----------------------------------------------------------------------------
(* Pending.                                                                *)

PendingRows(w) ==
  /\ phase[w] = "poll"
  /\ LET S == FirstUndelivered(BatchSize) IN
     \/ /\ \A n \in S : RowAuthentic(n)
        /\ Goto(w, "pollHead")
        /\ batch' = [batch EXCEPT ![w] = [n \in S |-> Record(n)]]
        /\ UNCHANGED <<mark, degraded>>
     \/ ~(\A n \in S : RowAuthentic(n)) /\ Fail(w)
  /\ UNCHANGED <<spoolVars, sinkVars, orphans, corruptions>>

\* An empty chain needs no comparison.
PendingHead(w) ==
  /\ phase[w] = "pollHead"
  /\ Goto(w, IF head.sequence = 0 THEN "deliver" ELSE "pollLast")
  /\ mark' = [mark EXCEPT ![w] = head]
  /\ UNCHANGED <<spoolVars, sinkVars, batch, degraded, orphans, corruptions>>

PendingLast(w) ==
  /\ phase[w] = "pollLast"
  /\ \/ /\ LastRow = mark[w]
        /\ Goto(w, "deliver")
        /\ mark' = [mark EXCEPT ![w] = NoMark]
        /\ UNCHANGED <<batch, degraded>>
     \/ LastRow # mark[w] /\ Fail(w)
  /\ UNCHANGED <<spoolVars, sinkVars, orphans, corruptions>>

-----------------------------------------------------------------------------
(* deliverBatch and HTTPSink.Deliver.                                      *)

BatchDone(w) ==
  /\ phase[w] = "deliver"
  /\ batch[w] = NoBatch
  /\ NextPoll(w, FALSE)
  /\ UNCHANGED <<spoolVars, sinkVars, orphans, corruptions>>

Send(w) ==
  /\ phase[w] = "deliver"
  /\ batch[w] # NoBatch
  /\ Goto(w, "await")
  /\ UNCHANGED <<spoolVars, sinkVars, batch, mark, degraded, orphans, corruptions>>

\* The sink handles the request: 2xx, or 409 or 503 which is an ErrSink.
SinkAnswers(w) ==
  /\ phase[w] = "await"
  /\ SinkAppend(Current(w))
  /\ \/ /\ Accepted(Current(w))
        /\ Goto(w, "answered")
        /\ UNCHANGED <<batch, mark, degraded>>
     \/ ~Accepted(Current(w)) /\ NextPoll(w, TRUE)
  /\ UNCHANGED <<spoolVars, orphans, corruptions>>

\* A request without an answer may reach the sink later.
Orphaned(w) ==
  orphans' = IF phase[w] = "await" THEN orphans \cup {Current(w)} ELSE orphans

\* No answer in time, a 503, or an answer lost on its way.
Timeout(w) ==
  /\ phase[w] \in {"await", "answered"}
  /\ NextPoll(w, TRUE)
  /\ Orphaned(w)
  /\ UNCHANGED <<spoolVars, sinkVars, corruptions>>

\* The sink stores or drops a request whose sender no longer waits.
LateAppend(r) ==
  /\ SinkAppend(r)
  /\ orphans' = orphans \ {r}
  /\ UNCHANGED <<spoolVars, workerVars, corruptions>>

Dropped(r) ==
  /\ orphans' = orphans \ {r}
  /\ UNCHANGED <<spoolVars, sinkVars, workerVars, corruptions>>

\* MarkDelivered after a 2xx; a row another worker has marked is an ErrAudit.
Acknowledge(w) ==
  /\ phase[w] = "answered"
  /\ \/ /\ MarkDelivered(Current(w))
        /\ Goto(w, "deliver")
        /\ batch' = [batch EXCEPT ![w] =
                       [n \in DOMAIN @ \ {Current(w).sequence} |-> @[n]]]
        /\ UNCHANGED <<mark, degraded>>
     \/ ~Markable(Current(w)) /\ Fail(w) /\ UNCHANGED spoolVars
  /\ UNCHANGED <<sinkVars, orphans, corruptions>>

\* The process ends, by a failed worker or a crash, and a new one starts.
Restart(w) ==
  /\ Goto(w, "verify")
  /\ batch' = [batch EXCEPT ![w] = NoBatch]
  /\ mark' = [mark EXCEPT ![w] = NoMark]
  /\ degraded' = [degraded EXCEPT ![w] = FALSE]
  /\ Orphaned(w)
  /\ UNCHANGED <<spoolVars, sinkVars, corruptions>>

-----------------------------------------------------------------------------
Next ==
  \/ Appends \/ Commit \/ Rollback
  \/ Damage
  \/ SinkClock
  \/ \E w \in Workers :
       \/ Restart(w)
       \/ VerifyRows(w) \/ VerifyHead(w)
       \/ PendingRows(w) \/ PendingHead(w) \/ PendingLast(w)
       \/ BatchDone(w) \/ Send(w) \/ SinkAnswers(w) \/ Timeout(w) \/ Acknowledge(w)
  \/ \E r \in orphans : LateAppend(r) \/ Dropped(r)

Spec == Init /\ [][Next]_vars

\* Every goroutine step that keeps becoming possible happens, the sink
\* answers some of the requests it keeps being sent, its clock passes the time
\* of the last update, and a process whose worker failed is restarted.
FairSpec ==
  /\ Spec
  /\ WF_vars(SinkClock /\ ~clockBehind')
  /\ \A w \in Workers :
       /\ SF_vars(VerifyRows(w)) /\ SF_vars(VerifyHead(w))
       /\ SF_vars(PendingRows(w)) /\ SF_vars(PendingHead(w)) /\ SF_vars(PendingLast(w))
       /\ SF_vars(BatchDone(w)) /\ SF_vars(Send(w))
       /\ SF_vars(SinkAnswers(w)) /\ SF_vars(Acknowledge(w))
       /\ WF_vars(phase[w] = "failed" /\ Restart(w))

-----------------------------------------------------------------------------
(* Properties.                                                             *)

\* The event as it was committed: the one its MAC was computed from.
Committed(n) == spool[n].mac[3]

\* Type invariant of the spool and the workers (Spool, DeliveryWorker): the
\* chain heads count the rows they stand for, a batch holds one record per
\* sequence and a worker with a request has a record.
TypeOK ==
  /\ phase \in [Workers -> Phases]
  /\ degraded \in [Workers -> BOOLEAN]
  /\ delivered \subseteq DOMAIN spool
  /\ head.sequence = Len(spool)
  /\ txHead.sequence = Len(spool) + Len(txRows)
  /\ \A w \in Workers :
       /\ \A n \in DOMAIN batch[w] : batch[w][n].sequence = n
       /\ phase[w] \in {"await", "answered"} => batch[w] # NoBatch

\* However requests are lost, delayed or repeated, and however many workers
\* deliver at once, the sink holds an exact prefix of the committed chain
\* (Store.Append's gap and replay rules, deliverBatch's order); a row damaged
\* in the spool is never exported (Pending's MAC check).
SinkIsPrefix ==
  /\ Len(sink) <= Len(spool)
  /\ \A n \in 1 .. Len(sink) : sink[n] = [event |-> Committed(n), mac |-> spool[n].mac]

\* A record is marked delivered only when the sink has stored it, and records
\* are marked in sequence order without a gap (MarkDelivered after a 2xx).
AcknowledgedPrefix ==
  /\ delivered = 1 .. Cardinality(delivered)
  /\ Cardinality(delivered) <= Len(sink)

\* The undelivered events never exceed the configured bound, however
\* many one transaction appends while others are marked (AppendTx's count).
PendingBounded == Cardinality(Undelivered) <= MaximumPending

\* The pipeline implements the abstract stream.
Stream == INSTANCE AuditStream WITH
  log <- [n \in 1 .. Len(spool) |-> Committed(n)],
  replicated <- Len(sink),
  acknowledged <- Cardinality(delivered)

ImplementsStream == Stream!Spec

\* Every committed event is eventually stored by the sink and marked, through
\* outages, restarts, false integrity alarms and a clock of the sink set back.
EveryEventDelivered ==
  \A n \in 1 .. MaxEvents : (n <= Len(spool)) ~> (n \in delivered)

-----------------------------------------------------------------------------
(* What the comments and documents say and the code does not do.           *)

\* audit/spool.go, "Verify checks the complete chain and its durable head":
\* a worker reports a broken chain only when a row was damaged.
AlarmMeansDamage ==
  \A w \in Workers : phase[w] = "failed" => corruptions > 0

=============================================================================
