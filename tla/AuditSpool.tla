----------------------------- MODULE AuditSpool -----------------------------
(***************************************************************************)
(* The durable audit spool of audit/spool.go: the table audit_spool, whose *)
(* primary key is the position in the sequence spool, and the chain head   *)
(* audit_chain_state.                                                      *)
(*                                                                         *)
(* A MAC is modelled by what HMAC-SHA-256 guarantees: two MACs are equal   *)
(* iff sequence number, previous MAC and event are.                        *)
(***************************************************************************)
EXTENDS Integers, Sequences, FiniteSets

CONSTANTS
  Events,          \* contents of audit events
  Damaged,         \* the content of a damaged row
  MaximumPending,  \* spool.maximumPending: undelivered events allowed
  MaxEvents        \* bound: events appended in a behaviour

ASSUME SpoolAssumption ==
  MaximumPending \in Nat \ {0} /\ MaxEvents \in Nat /\ Damaged \notin Events

VARIABLES
  spool,      \* committed rows [event, previous, mac], row n has sequence n
  head,       \* audit_chain_state as committed: [sequence, mac]
  delivered,  \* sequences whose delivered_at is set
  txRows,     \* rows the open transaction has inserted
  txHead      \* audit_chain_state as that transaction sees it

txVars == <<txRows, txHead>>
spoolVars == <<spool, head, delivered, txRows, txHead>>

authenticate(sequence, previous, event) == <<sequence, previous, event>>

NoMac == << >>

SpoolInit ==
  /\ spool = << >>
  /\ head = [sequence |-> 0, mac |-> NoMac]
  /\ delivered = {}
  /\ txRows = << >>
  /\ txHead = head

Undelivered == DOMAIN spool \ delivered

-----------------------------------------------------------------------------
(* AppendTx.  A transaction appends as many events as its operation has:   *)
(* one, a transition and its completion, four for a recovery validation,   *)
(* one per row and two for a rotation batch.  It holds the chain head FOR  *)
(* UPDATE from its first append to its end, so one such transaction is     *)
(* open at a time; what it appends is seen by others when it commits.      *)

NewRow(at, event) ==
  [event |-> event, previous |-> at.mac,
   mac |-> authenticate(at.sequence + 1, at.mac, event)]

\* Mutant: the head's MAC moves on and its sequence does not.
HeadWithoutSequence(at, event) ==
  [sequence |-> at.sequence, mac |-> NewRow(at, event).mac]

HeadAfter(at, event) ==
  [sequence |-> at.sequence + 1, mac |-> NewRow(at, event).mac]

\* Mutant: the count leaves out the rows of the transaction itself.
HasRoomForOne == Cardinality(Undelivered) < MaximumPending

\* count(*) of the undelivered rows: the committed ones and its own.
HasRoom == Cardinality(Undelivered) + Len(txRows) < MaximumPending

AppendTx(e) ==
  /\ HasRoom
  /\ txRows' = Append(txRows, NewRow(txHead, e))
  /\ txHead' = HeadAfter(txHead, e)
  /\ UNCHANGED <<spool, head, delivered>>

\* The caller's transaction commits: rows and head become visible together.
CommitTx ==
  /\ txRows # << >>
  /\ spool' = spool \o txRows
  /\ head' = txHead
  /\ txRows' = << >>
  /\ UNCHANGED <<delivered, txHead>>

\* The caller's transaction rolls back: an append found no room (ErrAudit),
\* or anything else in the transaction failed.
RollbackTx ==
  /\ txRows # << >>
  /\ txRows' = << >>
  /\ txHead' = head
  /\ UNCHANGED <<spool, head, delivered>>

-----------------------------------------------------------------------------
(* Reads, each a statement of its own.                                     *)

\* Mutant: the batch is sent without recomputing its MACs.
RowUnchecked(n) == TRUE

\* The row's MAC is the one of its stored content.
RowAuthentic(n) == spool[n].mac = authenticate(n, spool[n].previous, spool[n].event)

\* Verify: the whole chain, each row resting on the one before.
ChainAuthentic ==
  \A n \in DOMAIN spool :
    /\ RowAuthentic(n)
    /\ spool[n].previous = IF n = 1 THEN NoMac ELSE spool[n - 1].mac

\* The last row, as [sequence, mac]; the empty table gives sequence 0.
LastRow ==
  [sequence |-> Len(spool),
   mac |-> IF spool = << >> THEN NoMac ELSE spool[Len(spool)].mac]

\* Mutant: ORDER BY sequence DESC.
LastUndelivered(limit) ==
  { n \in Undelivered : Cardinality({ m \in Undelivered : m > n }) < limit }

\* The first limit undelivered rows in sequence order.
FirstUndelivered(limit) ==
  { n \in Undelivered : Cardinality({ m \in Undelivered : m < n }) < limit }

\* What is sent for row n.
Record(n) == [sequence |-> n, event |-> spool[n].event, mac |-> spool[n].mac]

-----------------------------------------------------------------------------
(* MarkDelivered.                                                          *)

\* The UPDATE touches exactly one row.
Markable(r) ==
  /\ r.sequence \in Undelivered
  /\ spool[r.sequence].mac = r.mac

MarkDelivered(r) ==
  /\ Markable(r)
  /\ delivered' = delivered \cup {r.sequence}
  /\ UNCHANGED <<spool, head, txVars>>

\* Damage to a stored event that the table's triggers do not stop.
Corrupt(n) ==
  /\ spool' = [spool EXCEPT ![n].event = Damaged]
  /\ UNCHANGED <<head, delivered, txVars>>

=============================================================================
