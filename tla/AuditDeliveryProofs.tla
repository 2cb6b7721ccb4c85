------------------------ MODULE AuditDeliveryProofs ------------------------
(***************************************************************************)
(* Theorems about AuditDelivery, for any number of workers, any events,    *)
(* batches and bounds, and any loss, delay, repetition and damage.         *)
(*                                                                         *)
(* None of the properties is inductive alone.  What keeps the sink exact   *)
(* is that every record on its way, in a batch or given up by its sender,  *)
(* carries the event its row was committed with (Genuine): Pending checks  *)
(* the MAC when it reads, and a MAC never changes afterwards.  What keeps  *)
(* the acknowledgements a prefix is that a batch leaves out no undelivered *)
(* row below its last one (BatchesDense), so that the first record of a    *)
(* batch is the next one to mark or is marked already.                     *)
(***************************************************************************)
EXTENDS AuditDelivery, FiniteSetTheorems, SequenceTheorems, WellFoundedInduction, TLAPS

-----------------------------------------------------------------------------
(* The inductive invariant.                                                *)

IsSequence(s) == s \in Seq({s[n] : n \in 1 .. Len(s)})

\* A row's MAC names its position, the MAC before it and the event appended;
\* its event may have been damaged since.
SealedAt(row, n) ==
  /\ row = [event |-> row.event, previous |-> row.previous,
            mac |-> <<n, row.previous, row.mac[3]>>]
  /\ row.mac[3] \in Events

RowsSealed == \A n \in DOMAIN spool : SealedAt(spool[n], n)

\* So is the MAC of a row not yet committed, for the position it will have.
TxSealed == \A k \in DOMAIN txRows : SealedAt(txRows[k], Len(spool) + k)

\* The bound holds for what the open transaction would commit.
SpoolInv ==
  /\ IsSequence(spool) /\ IsSequence(txRows)
  /\ RowsSealed /\ TxSealed
  /\ head.sequence = Len(spool)
  /\ txHead.sequence = Len(spool) + Len(txRows)
  /\ delivered \subseteq DOMAIN spool
  /\ Cardinality(Undelivered) + Len(txRows) <= MaximumPending

\* A record that carries the event its row was committed with.
Genuine(r) ==
  /\ r.sequence \in DOMAIN spool
  /\ r.event = Committed(r.sequence)
  /\ r.mac = spool[r.sequence].mac

WorkersTyped ==
  /\ phase \in [Workers -> Phases]
  /\ degraded \in [Workers -> BOOLEAN]
  /\ DOMAIN batch = Workers

BatchesGenuine ==
  \A w \in Workers :
    /\ batch[w] = [n \in DOMAIN batch[w] |-> batch[w][n]]
    /\ \A n \in DOMAIN batch[w] : batch[w][n].sequence = n /\ Genuine(batch[w][n])

OrphansGenuine == \A r \in orphans : Genuine(r)

\* A batch leaves out no undelivered row below its last one.
BatchesDense ==
  \A w \in Workers : \A n \in DOMAIN batch[w] :
    \A k \in Undelivered : k < n => k \in DOMAIN batch[w]

\* A worker with a request has a record, and one with an answer a stored one.
RequestsHeld ==
  \A w \in Workers :
    /\ phase[w] \in {"await", "answered"} => batch[w] # NoBatch
    /\ phase[w] = "answered" => Current(w).sequence <= Len(sink)

WorkerInv ==
  /\ WorkersTyped
  /\ BatchesGenuine
  /\ OrphansGenuine
  /\ BatchesDense
  /\ RequestsHeld

SinkInv == IsSequence(sink) /\ SinkIsPrefix /\ AcknowledgedPrefix

DeliveryInv == SpoolInv /\ SinkInv /\ WorkerInv

-----------------------------------------------------------------------------
(* Sequences and numbers.                                                  *)

\* A sequence is one over its own elements.
LEMMA SequenceOfItself ==
  ASSUME NEW S, NEW s \in Seq(S)
  PROVE  IsSequence(s)
<1>1. Len(s) \in Nat /\ s \in [1 .. Len(s) -> S]
  BY LenProperties
<1>2. s \in [1 .. Len(s) -> {s[n] : n \in 1 .. Len(s)}]
  BY <1>1
<1> QED
  BY <1>1, <1>2, SeqDef DEF IsSequence

\* What Append does to a sequence (INSERT of the next row).
LEMMA AppendFacts ==
  ASSUME NEW s, IsSequence(s), NEW x
  PROVE  /\ IsSequence(Append(s, x))
         /\ Len(s) \in Nat /\ DOMAIN s = 1 .. Len(s)
         /\ Len(Append(s, x)) = Len(s) + 1
         /\ DOMAIN Append(s, x) = 1 .. Len(s) + 1
         /\ Append(s, x)[Len(s) + 1] = x
         /\ \A n \in 1 .. Len(s) : Append(s, x)[n] = s[n]
<1> DEFINE S == {s[n] : n \in 1 .. Len(s)} \cup {x}
<1>1. s \in Seq(S) /\ x \in S
  BY SeqMonotonic DEF IsSequence
<1> HIDE DEF S
<1>2. Append(s, x) \in Seq(S)
  BY <1>1
<1>3. IsSequence(Append(s, x))
  BY <1>2, SequenceOfItself
<1> QED
  BY <1>1, <1>2, <1>3

Joined(s, r, t) == t = s \o r

\* What concatenation does to two sequences (the rows a commit makes visible).
LEMMA ConcatFacts ==
  ASSUME NEW s, IsSequence(s), NEW r, IsSequence(r), NEW t, Joined(s, r, t)
  PROVE  /\ IsSequence(t)
         /\ Len(s) \in Nat /\ DOMAIN s = 1 .. Len(s)
         /\ Len(r) \in Nat /\ DOMAIN r = 1 .. Len(r)
         /\ Len(t) = Len(s) + Len(r)
         /\ DOMAIN t = 1 .. Len(s) + Len(r)
         /\ \A n \in 1 .. Len(s) : t[n] = s[n]
         /\ \A k \in 1 .. Len(r) : t[Len(s) + k] = r[k]
<1> DEFINE S == {s[n] : n \in 1 .. Len(s)} \cup {r[n] : n \in 1 .. Len(r)}
<1>1. s \in Seq(S) /\ r \in Seq(S)
  BY SeqMonotonic DEF IsSequence
<1> HIDE DEF S
<1>2. t = s \o r /\ t \in Seq(S)
  BY <1>1 DEF Joined
<1>3. IsSequence(t)
  BY <1>2, SequenceOfItself
<1>4. /\ Len(t) = Len(s) + Len(r)
      /\ \A n \in 1 .. Len(s) + Len(r) : t[n] = IF n <= Len(s) THEN s[n] ELSE r[n - Len(s)]
  BY <1>1, <1>2, ConcatProperties
<1>5. Len(s) \in Nat /\ Len(r) \in Nat /\ DOMAIN s = 1 .. Len(s) /\ DOMAIN r = 1 .. Len(r)
  BY <1>1, LenProperties
<1>6. DOMAIN t = 1 .. Len(s) + Len(r)
  BY <1>2, <1>4, LenProperties
<1>7. ASSUME NEW n \in 1 .. Len(s)
      PROVE  t[n] = s[n]
  BY <1>4, <1>5
<1>8. ASSUME NEW k \in 1 .. Len(r)
      PROVE  t[Len(s) + k] = r[k]
  <2>1. /\ Len(s) + k \in 1 .. Len(s) + Len(r) /\ ~(Len(s) + k <= Len(s))
        /\ (Len(s) + k) - Len(s) = k
    BY <1>5
  <2> QED
    BY <1>4, <2>1
<1> QED
  BY <1>3, <1>4, <1>5, <1>6, <1>7, <1>8

\* What is left of a sequence's positions without some of them.
LEMMA CountOutside ==
  ASSUME NEW s, IsSequence(s), NEW d, d \subseteq DOMAIN s
  PROVE  /\ Len(s) \in Nat /\ DOMAIN s = 1 .. Len(s)
         /\ IsFiniteSet(d) /\ Cardinality(d) \in Nat
         /\ Cardinality(DOMAIN s \ d) = Len(s) - Cardinality(d)
<1>1. Len(s) \in Nat /\ DOMAIN s = 1 .. Len(s)
  BY LenProperties DEF IsSequence
<1>2. IsFiniteSet(DOMAIN s) /\ Cardinality(DOMAIN s) = Len(s)
  <2>1. /\ IsFiniteSet(1 .. Len(s))
        /\ Cardinality(1 .. Len(s)) = IF 1 > Len(s) THEN 0 ELSE Len(s) - 1 + 1
    BY <1>1, FS_Interval
  <2> QED
    BY <1>1, <2>1
<1>3. IsFiniteSet(d) /\ DOMAIN s \cap d = d
  BY <1>2, FS_Subset
<1>4. Cardinality(DOMAIN s \ d) = Cardinality(DOMAIN s) - Cardinality(DOMAIN s \cap d)
  BY <1>2, FS_Difference
<1> QED
  BY <1>1, <1>2, <1>3, <1>4, FS_CardinalityType

\* A nonempty set of natural numbers has a least element.
LEMMA LeastElement ==
  ASSUME NEW T, T \subseteq Nat, T # {}
  PROVE  \E x \in T : \A y \in T : x <= y
<1>1. PICK x \in T : \A y \in T : ~ (<<y, x>> \in OpToRel(<, Nat))
  BY NatLessThanWellFounded, WFMin
<1>2. \A y \in T : ~(y < x)
  BY <1>1 DEF OpToRel
<1>3. \A y \in T : x <= y
  <2> TAKE y \in T
  <2> QED
    BY <1>2
<1> QED
  BY <1>3

\* The undelivered rows are finitely many, a set of natural numbers.
LEMMA UndeliveredFinite ==
  ASSUME IsSequence(spool)
  PROVE  /\ Len(spool) \in Nat /\ DOMAIN spool = 1 .. Len(spool)
         /\ Undelivered \subseteq 1 .. Len(spool)
         /\ IsFiniteSet(Undelivered)
         /\ Cardinality(Undelivered) \in Nat
<1>1. Len(spool) \in Nat /\ DOMAIN spool = 1 .. Len(spool)
  BY LenProperties DEF IsSequence
<1>2. IsFiniteSet(1 .. Len(spool)) /\ Undelivered \subseteq 1 .. Len(spool)
  BY <1>1, FS_Interval DEF Undelivered
<1>3. IsFiniteSet(Undelivered)
  BY <1>2, FS_Subset
<1> QED
  BY <1>1, <1>2, <1>3, FS_CardinalityType

-----------------------------------------------------------------------------
(* The spool.                                                              *)

\* A step appends to the open transaction, commits it or rolls it back,
\* damages a row, marks a record, or leaves the spool alone.
LEMMA SpoolWriters ==
  ASSUME [Next]_vars
  PROVE  \/ \E e \in Events : AppendTx(e)
         \/ Commit
         \/ RollbackTx
         \/ \E n \in DOMAIN spool : Corrupt(n)
         \/ \E w \in Workers : phase[w] = "answered" /\ MarkDelivered(Current(w))
         \/ UNCHANGED spoolVars
BY DEF Next, vars, spoolVars, Appends, Rollback, Damage, SinkClock, Restart, VerifyRows,
   VerifyHead, PendingRows, PendingHead, PendingLast, BatchDone, Send, SinkAnswers, Timeout,
   Acknowledge, LateAppend, Dropped

\* The MAC of a committed row, and so the event it was committed with, never
\* changes, whatever is appended, marked or damaged (the table's triggers).
LEMMA MacsStand ==
  ASSUME SpoolInv, [Next]_vars, NEW n \in DOMAIN spool
  PROVE  /\ n \in DOMAIN spool'
         /\ spool'[n].mac = spool[n].mac
         /\ spool'[n].previous = spool[n].previous
<1>0. IsSequence(spool) /\ IsSequence(txRows)
  BY DEF SpoolInv
<1>1. CASE Commit
  <2>1. Joined(spool, txRows, spool')
    BY <1>1 DEF Commit, CommitTx, Joined
  <2>2. /\ DOMAIN spool = 1 .. Len(spool) /\ Len(spool) \in Nat /\ Len(txRows) \in Nat
        /\ DOMAIN spool' = 1 .. Len(spool) + Len(txRows)
        /\ \A m \in 1 .. Len(spool) : spool'[m] = spool[m]
    BY <1>0, <2>1, ConcatFacts
  <2> QED
    BY <2>2
<1>2. ASSUME NEW m \in DOMAIN spool, Corrupt(m)
      PROVE  /\ n \in DOMAIN spool'
             /\ spool'[n].mac = spool[n].mac
             /\ spool'[n].previous = spool[n].previous
  <2>1. spool' = [spool EXCEPT ![m] = [@ EXCEPT !.event = Damaged]]
    BY <1>2 DEF Corrupt
  <2>2. spool[m] = [event |-> spool[m].event, previous |-> spool[m].previous,
                    mac |-> <<m, spool[m].previous, spool[m].mac[3]>>]
    BY DEF SpoolInv, RowsSealed, SealedAt
  <2>3. /\ [spool[m] EXCEPT !.event = Damaged].mac = spool[m].mac
        /\ [spool[m] EXCEPT !.event = Damaged].previous = spool[m].previous
    BY <2>2
  <2> QED
    BY <2>1, <2>3
<1> QED
  BY <1>1, <1>2, SpoolWriters DEF AppendTx, RollbackTx, MarkDelivered, spoolVars

\* A record that is genuine after the step.
GenuineNext(r) ==
  /\ r.sequence \in DOMAIN spool'
  /\ r.event = spool'[r.sequence].mac[3]
  /\ r.mac = spool'[r.sequence].mac

\* So a genuine record stays genuine.
LEMMA GenuineStands ==
  ASSUME SpoolInv, [Next]_vars, NEW r, Genuine(r)
  PROVE  GenuineNext(r)
BY MacsStand DEF Genuine, GenuineNext, Committed

\* An append seals its row at the position that follows the transaction's head
\* and finds room for it (AppendTx).
LEMMA AppendSpool ==
  ASSUME SpoolInv, NEW e \in Events, AppendTx(e)
  PROVE  SpoolInv'
<1>0. /\ IsSequence(spool) /\ RowsSealed /\ IsSequence(txRows) /\ TxSealed
      /\ txHead.sequence = Len(spool) + Len(txRows)
      /\ Len(spool) \in Nat /\ Cardinality(Undelivered) \in Nat
  BY UndeliveredFinite DEF SpoolInv
<1>1. /\ txRows' = Append(txRows, NewRow(txHead, e)) /\ txHead' = HeadAfter(txHead, e)
      /\ spool' = spool /\ head' = head /\ delivered' = delivered
      /\ Cardinality(Undelivered) + Len(txRows) < MaximumPending
  BY DEF AppendTx, HasRoom
<1>2. /\ IsSequence(txRows') /\ Len(txRows) \in Nat /\ DOMAIN txRows = 1 .. Len(txRows)
      /\ Len(txRows') = Len(txRows) + 1 /\ DOMAIN txRows' = 1 .. Len(txRows) + 1
      /\ txRows'[Len(txRows) + 1] = NewRow(txHead, e)
      /\ \A k \in 1 .. Len(txRows) : txRows'[k] = txRows[k]
  BY <1>0, <1>1, AppendFacts
<1>3. TxSealed'
  <2> SUFFICES ASSUME NEW k \in DOMAIN txRows'
               PROVE  SealedAt(txRows'[k], Len(spool) + k)
    BY <1>1 DEF TxSealed, SealedAt
  <2>1. CASE k \in 1 .. Len(txRows)
    BY <1>0, <1>2, <2>1 DEF TxSealed
  <2>2. CASE k = Len(txRows) + 1
    <3>1. txHead.sequence + 1 = Len(spool) + k
      BY <1>0, <1>2, <2>2
    <3>2. NewRow(txHead, e) = [event |-> e, previous |-> txHead.mac,
                               mac |-> <<Len(spool) + k, txHead.mac, e>>]
      BY <3>1 DEF NewRow, authenticate
    <3> QED
      BY <1>2, <2>2, <3>2 DEF SealedAt
  <2> QED
    BY <1>2, <2>1, <2>2
<1>4. txHead'.sequence = Len(spool') + Len(txRows')
  BY <1>0, <1>1, <1>2 DEF HeadAfter
<1>5. (Cardinality(Undelivered) + Len(txRows) <= MaximumPending)'
  <2>1. Undelivered' = Undelivered
    BY <1>1 DEF Undelivered
  <2> QED
    BY <1>0, <1>1, <1>2, <2>1, SpoolAssumption
<1>6. RowsSealed' /\ IsSequence(spool)' /\ (head.sequence = Len(spool))' /\ (delivered \subseteq DOMAIN spool)'
  BY <1>1 DEF SpoolInv, RowsSealed, SealedAt
<1> QED
  BY <1>2, <1>3, <1>4, <1>5, <1>6 DEF SpoolInv

\* A commit makes the rows of the transaction rows of the chain, at the
\* positions they were sealed at.
LEMMA CommitSpool ==
  ASSUME SpoolInv, Commit
  PROVE  SpoolInv'
<1>0. /\ IsSequence(spool) /\ RowsSealed /\ IsSequence(txRows) /\ TxSealed
      /\ txHead.sequence = Len(spool) + Len(txRows)
      /\ delivered \subseteq DOMAIN spool
      /\ Cardinality(Undelivered) + Len(txRows) <= MaximumPending
  BY DEF SpoolInv
<1>1. /\ Joined(spool, txRows, spool') /\ txRows' = << >> /\ head' = txHead /\ txHead' = txHead
      /\ delivered' = delivered
  BY DEF Commit, CommitTx, Joined
<1>2. /\ IsSequence(spool') /\ Len(spool') = Len(spool) + Len(txRows)
      /\ Len(spool) \in Nat /\ DOMAIN spool = 1 .. Len(spool)
      /\ Len(txRows) \in Nat /\ DOMAIN txRows = 1 .. Len(txRows)
      /\ DOMAIN spool' = 1 .. Len(spool) + Len(txRows)
      /\ \A n \in 1 .. Len(spool) : spool'[n] = spool[n]
      /\ \A k \in 1 .. Len(txRows) : spool'[Len(spool) + k] = txRows[k]
  BY <1>0, <1>1, ConcatFacts
<1>3. RowsSealed'
  <2> SUFFICES ASSUME NEW n \in DOMAIN spool'
               PROVE  SealedAt(spool'[n], n)
    BY DEF RowsSealed, SealedAt
  <2>1. CASE n \in 1 .. Len(spool)
    BY <1>0, <1>2, <2>1 DEF RowsSealed
  <2>2. CASE n \notin 1 .. Len(spool)
    <3>1. n - Len(spool) \in 1 .. Len(txRows) /\ Len(spool) + (n - Len(spool)) = n
      BY <1>2, <2>2
    <3>2. spool'[n] = txRows[n - Len(spool)]
      BY <1>2, <3>1
    <3>3. SealedAt(txRows[n - Len(spool)], Len(spool) + (n - Len(spool)))
      BY <1>0, <1>2, <3>1 DEF TxSealed
    <3> QED
      BY <3>1, <3>2, <3>3
  <2> QED
    BY <2>1, <2>2
<1>4. IsSequence(txRows') /\ Len(txRows') = 0 /\ DOMAIN txRows' = {}
  BY <1>1 DEF IsSequence
<1>5. TxSealed'
  BY <1>4 DEF TxSealed
<1>6. delivered' \subseteq DOMAIN spool'
  BY <1>0, <1>1, <1>2
<1>7. (Cardinality(Undelivered) + Len(txRows) <= MaximumPending)'
  <2>1. Cardinality(Undelivered) = Len(spool) - Cardinality(delivered) /\ Cardinality(delivered) \in Nat
    BY <1>0, CountOutside DEF Undelivered
  <2>2. Cardinality(Undelivered') = Len(spool') - Cardinality(delivered')
    BY <1>2, <1>6, CountOutside DEF Undelivered
  <2> QED
    BY <1>0, <1>1, <1>2, <1>4, <2>1, <2>2, SpoolAssumption
<1>8. head'.sequence = Len(spool') /\ txHead'.sequence = Len(spool') + Len(txRows')
  BY <1>0, <1>1, <1>2, <1>4
<1> QED
  BY <1>2, <1>3, <1>4, <1>5, <1>6, <1>7, <1>8 DEF SpoolInv

\* Damage leaves the seal, MarkDelivered lowers the count, and a rollback
\* leaves the chain as it was.
LEMMA SpoolStep ==
  ASSUME SpoolInv, [Next]_vars
  PROVE  SpoolInv'
<1>0. IsSequence(spool) /\ RowsSealed /\ IsSequence(txRows) /\ TxSealed /\ Len(spool) \in Nat
      /\ Len(txRows) \in Nat
  BY LenProperties DEF SpoolInv, IsSequence
<1>1. CASE Commit
  BY <1>1, CommitSpool
<1>2. ASSUME NEW m \in DOMAIN spool, Corrupt(m)
      PROVE  SpoolInv'
  <2>1. /\ spool' = [spool EXCEPT ![m] = [@ EXCEPT !.event = Damaged]]
        /\ head' = head /\ delivered' = delivered /\ txRows' = txRows /\ txHead' = txHead
    BY <1>2 DEF Corrupt, txVars
  <2>2. /\ IsSequence(spool') /\ Len(spool') = Len(spool) /\ DOMAIN spool' = DOMAIN spool
    <3> DEFINE row == [spool[m] EXCEPT !.event = Damaged]
               S == {spool[n] : n \in 1 .. Len(spool)} \cup {row}
    <3>1. spool' = [spool EXCEPT ![m] = row]
      BY <2>1
    <3>2. spool \in Seq(S) /\ row \in S
      BY <1>0, SeqMonotonic DEF IsSequence
    <3> HIDE DEF S, row
    <3>3. m \in 1 .. Len(spool)
      BY <3>2, LenProperties
    <3>4. spool' \in Seq(S) /\ Len(spool') = Len(spool)
      BY <3>1, <3>2, <3>3, ExceptSeq
    <3> QED
      BY <2>1, <3>4, SequenceOfItself
  <2>3. RowsSealed'
    <3> SUFFICES ASSUME NEW n \in DOMAIN spool'
                 PROVE  SealedAt(spool'[n], n)
      BY DEF RowsSealed, SealedAt
    <3>1. SealedAt(spool[n], n)
      BY <1>0, <2>2 DEF RowsSealed
    <3>2. CASE n = m
      <4>1. spool'[n] = [spool[n] EXCEPT !.event = Damaged]
        BY <2>1, <3>2
      <4> QED
        BY <3>1, <4>1 DEF SealedAt
    <3>3. CASE n # m
      BY <2>1, <2>2, <3>1, <3>3
    <3> QED
      BY <3>2, <3>3
  <2>4. TxSealed'
    BY <1>0, <2>1, <2>2 DEF TxSealed, SealedAt
  <2> QED
    BY <2>1, <2>2, <2>3, <2>4 DEF SpoolInv, Undelivered
<1>3. ASSUME NEW w \in Workers, MarkDelivered(Current(w))
      PROVE  SpoolInv'
  <2>1. spool' = spool /\ head' = head /\ txRows' = txRows /\ txHead' = txHead
    BY <1>3 DEF MarkDelivered, txVars
  <2>2. delivered' \subseteq DOMAIN spool /\ Undelivered' \subseteq Undelivered
    BY <1>3 DEF MarkDelivered, Markable, Undelivered, SpoolInv
  <2>3. IsFiniteSet(Undelivered) /\ Cardinality(Undelivered) \in Nat
    BY <1>0, UndeliveredFinite
  <2>4. IsFiniteSet(Undelivered') /\ Cardinality(Undelivered') <= Cardinality(Undelivered)
    BY <2>2, <2>3, FS_Subset
  <2>5. (Cardinality(Undelivered) + Len(txRows) <= MaximumPending)'
    <3>1. Cardinality(Undelivered') \in Nat
      BY <2>4, FS_CardinalityType
    <3>2. Cardinality(Undelivered) + Len(txRows) <= MaximumPending
      BY DEF SpoolInv
    <3> QED
      BY <1>0, <2>1, <2>3, <2>4, <3>1, <3>2, SpoolAssumption
  <2> QED
    BY <2>1, <2>2, <2>5 DEF SpoolInv, RowsSealed, TxSealed, SealedAt
<1>4. CASE RollbackTx
  <2>1. /\ spool' = spool /\ head' = head /\ delivered' = delivered
        /\ txRows' = << >> /\ txHead' = head
    BY <1>4 DEF RollbackTx
  <2>2. IsSequence(txRows') /\ Len(txRows') = 0 /\ DOMAIN txRows' = {}
    BY <2>1 DEF IsSequence
  <2>3. RowsSealed' /\ TxSealed'
    BY <1>0, <2>1, <2>2 DEF RowsSealed, TxSealed, SealedAt
  <2>4. (Cardinality(Undelivered) + Len(txRows) <= MaximumPending)'
    <3>1. Undelivered' = Undelivered /\ Cardinality(Undelivered) \in Nat
      BY <1>0, <2>1, UndeliveredFinite DEF Undelivered
    <3>2. Cardinality(Undelivered) + Len(txRows) <= MaximumPending
      BY DEF SpoolInv
    <3> QED
      BY <1>0, <2>2, <3>1, <3>2, SpoolAssumption
  <2>5. head.sequence = Len(spool) /\ delivered \subseteq DOMAIN spool
    BY DEF SpoolInv
  <2>6. txHead'.sequence = Len(spool') + Len(txRows')
    BY <1>0, <2>1, <2>2, <2>5
  <2> QED
    BY <1>0, <2>1, <2>2, <2>3, <2>4, <2>5, <2>6 DEF SpoolInv
<1>5. CASE UNCHANGED spoolVars
  BY <1>5 DEF spoolVars, SpoolInv, RowsSealed, TxSealed, SealedAt, Undelivered
<1> QED
  BY <1>1, <1>2, <1>3, <1>4, <1>5, AppendSpool, SpoolWriters

\* The bound on what is undelivered follows.
LEMMA BoundedPending ==
  ASSUME SpoolInv
  PROVE  PendingBounded
<1>1. Len(txRows) \in Nat /\ Cardinality(Undelivered) \in Nat
  BY UndeliveredFinite, LenProperties DEF SpoolInv, IsSequence
<1>2. Cardinality(Undelivered) + Len(txRows) <= MaximumPending
  BY DEF SpoolInv
<1> QED
  BY <1>1, <1>2, SpoolAssumption DEF PendingBounded

-----------------------------------------------------------------------------
(* Batches.                                                                *)

FirstOf(b) == CHOOSE r \in {b[n] : n \in DOMAIN b} : \A n \in DOMAIN b : r.sequence <= n

\* The record a worker sends is a function of its batch alone.
LEMMA CurrentOfBatch ==
  ASSUME NEW w
  PROVE  Current(w) = FirstOf(batch[w]) /\ Current(w)' = FirstOf(batch'[w])
BY DEF Current, FirstOf

\* The first record of a batch: genuine, and of the least sequence.
LEMMA CurrentFirst ==
  ASSUME SpoolInv, BatchesGenuine, NEW w \in Workers, batch[w] # NoBatch
  PROVE  /\ Current(w).sequence \in DOMAIN batch[w]
         /\ Genuine(Current(w))
         /\ \A n \in DOMAIN batch[w] : Current(w).sequence <= n
<1>1. /\ batch[w] = [n \in DOMAIN batch[w] |-> batch[w][n]]
      /\ \A n \in DOMAIN batch[w] : batch[w][n].sequence = n /\ Genuine(batch[w][n])
  BY DEF BatchesGenuine
<1>2. DOMAIN batch[w] # {}
  BY <1>1 DEF NoBatch
<1>3. DOMAIN batch[w] \subseteq Nat
  <2>1. Len(spool) \in Nat /\ DOMAIN spool = 1 .. Len(spool)
    BY UndeliveredFinite DEF SpoolInv
  <2> QED
    BY <1>1, <2>1 DEF Genuine
<1>4. PICK x \in DOMAIN batch[w] : \A n \in DOMAIN batch[w] : x <= n
  BY <1>2, <1>3, LeastElement
<1>5. batch[w][x] \in {batch[w][n] : n \in DOMAIN batch[w]}
      /\ \A n \in DOMAIN batch[w] : batch[w][x].sequence <= n
  BY <1>1, <1>4
<1>6. /\ Current(w) \in {batch[w][n] : n \in DOMAIN batch[w]}
      /\ \A n \in DOMAIN batch[w] : Current(w).sequence <= n
  BY <1>5, Zenon DEF Current
<1> QED
  BY <1>1, <1>6

\* What a step does to the batch of a worker: nothing, empty it, fill it from
\* authentic rows, or remove the record just marked.
LEMMA BatchWriters ==
  ASSUME WorkersTyped, [Next]_vars, NEW w \in Workers
  PROVE  \/ batch'[w] = batch[w]
         \/ batch'[w] = NoBatch
         \/ /\ batch'[w] = [n \in FirstUndelivered(BatchSize) |-> Record(n)]
            /\ \A n \in FirstUndelivered(BatchSize) : RowAuthentic(n)
            /\ UNCHANGED spoolVars
         \/ /\ MarkDelivered(Current(w))
            /\ batch'[w] = [n \in DOMAIN batch[w] \ {Current(w).sequence} |-> batch[w][n]]
<1>0. DOMAIN batch = Workers
  BY DEF WorkersTyped
<1> DEFINE Goal == \/ batch'[w] = batch[w]
                   \/ batch'[w] = NoBatch
                   \/ /\ batch'[w] = [n \in FirstUndelivered(BatchSize) |-> Record(n)]
                      /\ \A n \in FirstUndelivered(BatchSize) : RowAuthentic(n)
                      /\ UNCHANGED spoolVars
                   \/ /\ MarkDelivered(Current(w))
                      /\ batch'[w] = [n \in DOMAIN batch[w] \ {Current(w).sequence} |-> batch[w][n]]
<1>1. CASE batch' = batch
  BY <1>1
<1>2. ASSUME NEW v \in Workers, batch' = [batch EXCEPT ![v] = NoBatch]
      PROVE  Goal
  BY <1>0, <1>2
<1>3. ASSUME NEW v \in Workers, PendingRows(v)
      PROVE  Goal
  <2>1. CASE Fail(v)
    BY <1>2, <2>1 DEF Fail
  <2>2. CASE /\ batch' = [batch EXCEPT ![v] = [n \in FirstUndelivered(BatchSize) |-> Record(n)]]
             /\ \A n \in FirstUndelivered(BatchSize) : RowAuthentic(n)
    <3>1. UNCHANGED spoolVars
      BY <1>3 DEF PendingRows
    <3> QED
      BY <1>0, <2>2, <3>1
  <2> QED
    BY <1>3, <2>1, <2>2 DEF PendingRows
<1>4. ASSUME NEW v \in Workers, Acknowledge(v)
      PROVE  Goal
  <2>1. CASE Fail(v)
    BY <1>2, <2>1 DEF Fail
  <2>2. CASE /\ MarkDelivered(Current(v))
             /\ batch' = [batch EXCEPT ![v] = [n \in DOMAIN @ \ {Current(v).sequence} |-> @[n]]]
    BY <1>0, <2>2
  <2> QED
    BY <1>4, <2>1, <2>2 DEF Acknowledge
<1>5. ASSUME NEW v \in Workers,
             \/ Restart(v) \/ VerifyRows(v) \/ VerifyHead(v) \/ PendingHead(v) \/ PendingLast(v)
             \/ BatchDone(v) \/ Send(v) \/ SinkAnswers(v) \/ Timeout(v)
      PROVE  batch' = batch \/ batch' = [batch EXCEPT ![v] = NoBatch]
  BY <1>5 DEF Restart, VerifyRows, VerifyHead, PendingHead, PendingLast, BatchDone, Send,
     SinkAnswers, Timeout, Fail, NextPoll
<1>6. ASSUME \/ Appends \/ Commit \/ Rollback \/ Damage \/ SinkClock
             \/ \E r \in orphans : LateAppend(r) \/ Dropped(r)
             \/ UNCHANGED vars
      PROVE  batch' = batch
  BY <1>6 DEF Appends, Commit, Rollback, Damage, SinkClock, LateAppend, Dropped, workerVars,
     vars
<1>7. Goal
  <2> HIDE DEF Goal
  <2>1. CASE batch' = batch
    BY <1>1, <2>1 DEF Goal
  <2> QED
    BY <1>2, <1>3, <1>4, <1>5, <1>6, <2>1 DEF Next
<1> QED
  BY <1>7

\* The rows read by Pending are the first undelivered ones, without a gap.
LEMMA FirstUndeliveredDense ==
  ASSUME IsSequence(spool), NEW limit \in Nat, NEW n \in FirstUndelivered(limit),
         NEW k \in Undelivered, k < n
  PROVE  k \in FirstUndelivered(limit)
<1>1. Undelivered \subseteq Nat /\ IsFiniteSet(Undelivered)
  BY UndeliveredFinite
<1>2. n \in Nat /\ k \in Nat
  BY <1>1 DEF FirstUndelivered
<1> DEFINE A == { m \in Undelivered : m < k }
           B == { m \in Undelivered : m < n }
<1>3. A \subseteq B /\ B \subseteq Undelivered
  <2>1. ASSUME NEW m \in Undelivered, m < k
        PROVE  m < n
    BY <1>1, <1>2, <2>1
  <2> QED
    BY <2>1
<1>4. IsFiniteSet(B)
  BY <1>1, <1>3, FS_Subset
<1>5. IsFiniteSet(A) /\ Cardinality(A) <= Cardinality(B)
  BY <1>3, <1>4, FS_Subset
<1>6. Cardinality(A) \in Nat /\ Cardinality(B) \in Nat
  BY <1>4, <1>5, FS_CardinalityType
<1>7. Cardinality(B) < limit
  BY DEF FirstUndelivered
<1>8. Cardinality(A) < limit
  BY <1>5, <1>6, <1>7
<1> QED
  BY <1>8 DEF FirstUndelivered

\* A row below a committed one that is undelivered after a step was before it.
LEMMA UndeliveredBelow ==
  ASSUME SpoolInv, [Next]_vars, NEW n \in DOMAIN spool, NEW k \in Undelivered', k < n
  PROVE  k \in Undelivered
<1>1. /\ IsSequence(spool) /\ IsSequence(spool')
  BY SpoolStep DEF SpoolInv
<1>2. /\ Len(spool) \in Nat /\ DOMAIN spool = 1 .. Len(spool)
      /\ Len(spool') \in Nat /\ DOMAIN spool' = 1 .. Len(spool')
  BY <1>1, LenProperties DEF IsSequence
<1>3. delivered \subseteq delivered'
  BY SpoolWriters DEF Commit, CommitTx, AppendTx, RollbackTx, Corrupt, MarkDelivered, spoolVars
<1> QED
  BY <1>2, <1>3 DEF Undelivered

\* What batches hold stays genuine: a batch is filled from rows whose MAC was
\* recomputed (Pending), and MACs stand.
LEMMA BatchesStep ==
  ASSUME SpoolInv, WorkersTyped, BatchesGenuine, [Next]_vars
  PROVE  BatchesGenuine'
<1> SUFFICES ASSUME NEW w \in Workers
             PROVE  /\ batch'[w] = [n \in DOMAIN batch'[w] |-> batch'[w][n]]
                    /\ \A n \in DOMAIN batch'[w] : batch'[w][n].sequence = n /\ GenuineNext(batch'[w][n])
  BY DEF BatchesGenuine, Genuine, GenuineNext, Committed
<1>1. /\ batch[w] = [n \in DOMAIN batch[w] |-> batch[w][n]]
      /\ \A n \in DOMAIN batch[w] : batch[w][n].sequence = n /\ Genuine(batch[w][n])
  BY DEF BatchesGenuine
<1>2. \A n \in DOMAIN batch[w] : GenuineNext(batch[w][n])
  BY <1>1, GenuineStands
<1>3. CASE batch'[w] = batch[w]
  BY <1>1, <1>2, <1>3
<1>4. CASE batch'[w] = NoBatch
  BY <1>4 DEF NoBatch
<1>5. CASE /\ batch'[w] = [n \in FirstUndelivered(BatchSize) |-> Record(n)]
           /\ \A n \in FirstUndelivered(BatchSize) : RowAuthentic(n)
           /\ UNCHANGED spoolVars
  <2>1. ASSUME NEW n \in FirstUndelivered(BatchSize)
        PROVE  Record(n).sequence = n /\ Genuine(Record(n))
    <3>1. n \in DOMAIN spool
      BY DEF FirstUndelivered, Undelivered
    <3>2. spool[n].event = Committed(n)
      BY <1>5 DEF RowAuthentic, authenticate, Committed
    <3> QED
      BY <3>1, <3>2 DEF Record, Genuine
  <2>2. \A n \in FirstUndelivered(BatchSize) : GenuineNext(Record(n))
    BY <2>1, GenuineStands
  <2> QED
    BY <1>5, <2>1, <2>2
<1>6. CASE batch'[w] = [n \in DOMAIN batch[w] \ {Current(w).sequence} |-> batch[w][n]]
  BY <1>1, <1>2, <1>6
<1> QED
  BY <1>3, <1>4, <1>5, <1>6, BatchWriters

\* A batch stays dense: the record that leaves it is the one marked.
LEMMA DenseStep ==
  ASSUME SpoolInv, WorkersTyped, BatchesGenuine, BatchesDense, [Next]_vars
  PROVE  BatchesDense'
<1> SUFFICES ASSUME NEW w \in Workers, NEW n \in DOMAIN batch'[w], NEW k \in Undelivered', k < n
             PROVE  k \in DOMAIN batch'[w]
  BY DEF BatchesDense
<1>1. ASSUME NEW m \in DOMAIN batch[w]
      PROVE  m \in DOMAIN spool
  <2>1. batch[w][m].sequence = m /\ Genuine(batch[w][m])
    BY DEF BatchesGenuine
  <2> QED
    BY <2>1 DEF Genuine
<1>2. n \in DOMAIN batch[w] => k \in DOMAIN batch[w]
  BY <1>1, UndeliveredBelow DEF BatchesDense
<1>3. CASE batch'[w] = batch[w]
  BY <1>2, <1>3
<1>4. CASE batch'[w] = NoBatch
  BY <1>4 DEF NoBatch
<1>5. CASE /\ batch'[w] = [m \in FirstUndelivered(BatchSize) |-> Record(m)]
           /\ UNCHANGED spoolVars
  <2>1. k \in Undelivered /\ n \in FirstUndelivered(BatchSize)
    BY <1>5 DEF spoolVars, Undelivered
  <2>2. k \in FirstUndelivered(BatchSize)
    BY <2>1, FirstUndeliveredDense, DeliveryAssumption DEF SpoolInv
  <2> QED
    BY <1>5, <2>2
<1>6. CASE /\ MarkDelivered(Current(w))
           /\ batch'[w] = [m \in DOMAIN batch[w] \ {Current(w).sequence} |-> batch[w][m]]
  <2>1. k # Current(w).sequence
    BY <1>6 DEF MarkDelivered, Undelivered
  <2> QED
    BY <1>2, <1>6, <2>1
<1> QED
  BY <1>3, <1>4, <1>5, <1>6, BatchWriters

-----------------------------------------------------------------------------
(* Requests and the sink.                                                  *)

\* A worker has a request or an answer after a step only if its batch is left
\* alone and it sends, is answered 2xx, or was there before.
LEMMA RequestWriters ==
  ASSUME WorkersTyped, [Next]_vars, NEW w \in Workers, phase'[w] \in {"await", "answered"}
  PROVE  /\ batch'[w] = batch[w]
         /\ \/ phase'[w] = phase[w]
            \/ Send(w) /\ phase'[w] = "await"
            \/ SinkAnswers(w) /\ Accepted(Current(w)) /\ phase[w] = "await"
<1>0. DOMAIN batch = Workers /\ DOMAIN phase = Workers
  BY DEF WorkersTyped
<1>1. CASE UNCHANGED <<phase, batch>>
  BY <1>1
<1>2. ASSUME NEW v \in Workers, NEW p, p \notin {"await", "answered"}, Goto(v, p),
             \A u \in Workers \ {v} : batch'[u] = batch[u]
      PROVE  batch'[w] = batch[w] /\ phase'[w] = phase[w]
  BY <1>0, <1>2 DEF Goto
<1>3. ASSUME NEW v \in Workers,
             \/ Restart(v) \/ VerifyRows(v) \/ VerifyHead(v) \/ PendingRows(v) \/ PendingHead(v)
             \/ PendingLast(v) \/ BatchDone(v) \/ Timeout(v) \/ Acknowledge(v)
      PROVE  batch'[w] = batch[w] /\ phase'[w] = phase[w]
  <2>1. \E p : p \notin {"await", "answered"} /\ Goto(v, p)
    BY <1>3 DEF Restart, VerifyRows, VerifyHead, PendingRows, PendingHead, PendingLast, BatchDone,
       Timeout, Acknowledge, Fail, NextPoll
  <2>2. \A u \in Workers \ {v} : batch'[u] = batch[u]
    BY <1>0, <1>3 DEF Restart, VerifyRows, VerifyHead, PendingRows, PendingHead, PendingLast,
       BatchDone, Timeout, Acknowledge, Fail, NextPoll
  <2> QED
    BY <1>2, <2>1, <2>2
<1>4. ASSUME NEW v \in Workers, Send(v)
      PROVE  batch'[w] = batch[w] /\ (phase'[w] = phase[w] \/ (Send(w) /\ phase'[w] = "await"))
  BY <1>0, <1>4 DEF Send, Goto
<1>5. ASSUME NEW v \in Workers, SinkAnswers(v)
      PROVE  /\ batch'[w] = batch[w]
             /\ \/ phase'[w] = phase[w]
                \/ SinkAnswers(w) /\ Accepted(Current(w)) /\ phase[w] = "await"
  <2>1. CASE NextPoll(v, TRUE)
    BY <1>0, <2>1 DEF NextPoll, Goto
  <2>2. CASE Accepted(Current(v)) /\ Goto(v, "answered") /\ UNCHANGED batch
    BY <1>0, <1>5, <2>2 DEF Goto, SinkAnswers
  <2> QED
    BY <1>5, <2>1, <2>2 DEF SinkAnswers
<1>6. ASSUME \/ Appends \/ Commit \/ Rollback \/ Damage \/ SinkClock
             \/ \E r \in orphans : LateAppend(r) \/ Dropped(r)
             \/ UNCHANGED vars
      PROVE  UNCHANGED <<phase, batch>>
  BY <1>6 DEF Appends, Commit, Rollback, Damage, SinkClock, LateAppend, Dropped, workerVars,
     vars
<1> QED
  BY <1>1, <1>3, <1>4, <1>5, <1>6 DEF Next

\* Only genuine records reach the sink, from workers or late.
LEMMA SinkWriters ==
  ASSUME SpoolInv, WorkerInv, [Next]_vars
  PROVE  sink' = sink \/ \E r : Genuine(r) /\ SinkAppend(r)
<1>1. ASSUME NEW w \in Workers, SinkAnswers(w)
      PROVE  \E r : Genuine(r) /\ SinkAppend(r)
  <2>1. Genuine(Current(w))
    BY <1>1, CurrentFirst DEF SinkAnswers, WorkerInv, RequestsHeld
  <2> QED
    BY <1>1, <2>1 DEF SinkAnswers
<1>2. ASSUME NEW r \in orphans, LateAppend(r)
      PROVE  \E x : Genuine(x) /\ SinkAppend(x)
  BY <1>2 DEF LateAppend, WorkerInv, OrphansGenuine
<1>3. ASSUME SinkClock
      PROVE  sink' = sink
  BY <1>3 DEF SinkClock, ClockSetBack, ClockCatchesUp
<1>4. \/ sink' = sink \/ SinkClock
      \/ \E w \in Workers : SinkAnswers(w)
      \/ \E r \in orphans : LateAppend(r)
  BY DEF Next, vars, sinkVars, Appends, Commit, Rollback, Damage, Restart, VerifyRows, VerifyHead, PendingRows,
     PendingHead, PendingLast, BatchDone, Send, Timeout, Acknowledge, Dropped
<1> QED
  BY <1>1, <1>2, <1>3, <1>4

\* Requests given up by their sender were genuine when they were sent.
LEMMA OrphansStep ==
  ASSUME SpoolInv, WorkerInv, [Next]_vars
  PROVE  OrphansGenuine'
<1>1. ASSUME NEW r \in orphans'
      PROVE  Genuine(r)
  <2>1. CASE r \in orphans
    BY <2>1 DEF WorkerInv, OrphansGenuine
  <2>2. ASSUME NEW w \in Workers, phase[w] = "await", r = Current(w)
        PROVE  Genuine(r)
    BY <2>2, CurrentFirst DEF WorkerInv, RequestsHeld
  <2>3. r \in orphans \/ \E w \in Workers : phase[w] = "await" /\ r = Current(w)
    BY DEF Next, vars, Appends, Commit, Rollback, Damage, SinkClock, Restart, VerifyRows, VerifyHead, PendingRows,
       PendingHead, PendingLast, BatchDone, Send, SinkAnswers, Timeout, Acknowledge, LateAppend,
       Dropped, Orphaned
  <2> QED
    BY <2>1, <2>2, <2>3
<1>2. \A r \in orphans' : GenuineNext(r)
  BY <1>1, GenuineStands
<1> QED
  BY <1>2 DEF OrphansGenuine, Genuine, GenuineNext, Committed

\* A step keeps the types of the worker's state.
LEMMA WorkersStep ==
  ASSUME WorkersTyped, [Next]_vars
  PROVE  WorkersTyped'
<1>1. ASSUME NEW w \in Workers, NEW p \in Phases, Goto(w, p)
      PROVE  phase' \in [Workers -> Phases]
  BY <1>1 DEF Goto, WorkersTyped
<1>2. ASSUME NEW w \in Workers, NEW b \in BOOLEAN, degraded' = [degraded EXCEPT ![w] = b]
      PROVE  degraded' \in [Workers -> BOOLEAN]
  BY <1>2 DEF WorkersTyped
<1>3. ASSUME NEW w \in Workers,
             \/ Restart(w) \/ VerifyRows(w) \/ VerifyHead(w) \/ PendingRows(w) \/ PendingHead(w)
             \/ PendingLast(w) \/ BatchDone(w) \/ Send(w) \/ SinkAnswers(w) \/ Timeout(w)
             \/ Acknowledge(w)
      PROVE  /\ \E p \in Phases : Goto(w, p)
             /\ UNCHANGED degraded \/ \E b \in BOOLEAN : degraded' = [degraded EXCEPT ![w] = b]
             /\ DOMAIN batch' = DOMAIN batch
  BY <1>3 DEF Restart, VerifyRows, VerifyHead, PendingRows, PendingHead, PendingLast, BatchDone,
     Send, SinkAnswers, Timeout, Acknowledge, Fail, NextPoll, Phases
<1>4. ASSUME \/ Appends \/ Commit \/ Rollback \/ Damage \/ SinkClock
             \/ \E r \in orphans : LateAppend(r) \/ Dropped(r)
             \/ UNCHANGED vars
      PROVE  UNCHANGED <<phase, batch, degraded>>
  BY <1>4 DEF Appends, Commit, Rollback, Damage, SinkClock, LateAppend, Dropped, workerVars,
     vars
<1> QED
  BY <1>1, <1>2, <1>3, <1>4 DEF Next, WorkersTyped

\* The sink grows by the next record only, as it was committed.
LEMMA SinkStep ==
  ASSUME SpoolInv, WorkerInv, IsSequence(sink), SinkIsPrefix, [Next]_vars
  PROVE  IsSequence(sink)' /\ SinkIsPrefix' /\ Len(sink) <= Len(sink')
<1>1. /\ Len(spool) \in Nat /\ DOMAIN spool = 1 .. Len(spool)
      /\ Len(spool') \in Nat /\ DOMAIN spool' = 1 .. Len(spool')
      /\ Len(sink) \in Nat
  BY SpoolStep, LenProperties DEF SpoolInv, IsSequence
<1>2. /\ Len(spool) <= Len(spool')
      /\ \A n \in 1 .. Len(spool) : spool'[n].mac = spool[n].mac
  <2>1. \A n \in DOMAIN spool : n \in DOMAIN spool' /\ spool'[n].mac = spool[n].mac
    BY MacsStand
  <2> QED
    BY <1>1, <2>1
<1>3. CASE sink' = sink
  BY <1>1, <1>2, <1>3 DEF SinkIsPrefix, Committed
<1>4. ASSUME NEW r, Genuine(r), SinkAppend(r), sink' # sink
      PROVE  IsSequence(sink)' /\ SinkIsPrefix' /\ Len(sink) <= Len(sink')
  <2>1. /\ sink' = Append(sink, [event |-> r.event, mac |-> r.mac])
        /\ r.sequence = Len(sink) + 1
    BY <1>4 DEF SinkAppend, Storable, IsNext, LastSequence
  <2>2. /\ IsSequence(sink') /\ Len(sink') = Len(sink) + 1
        /\ sink'[Len(sink) + 1] = [event |-> r.event, mac |-> r.mac]
        /\ \A n \in 1 .. Len(sink) : sink'[n] = sink[n]
    BY <2>1, AppendFacts
  <2>3. /\ Len(sink) + 1 \in 1 .. Len(spool)
        /\ r.event = spool[Len(sink) + 1].mac[3] /\ r.mac = spool[Len(sink) + 1].mac
    BY <1>1, <1>4, <2>1 DEF Genuine, Committed
  <2>4. SinkIsPrefix'
    <3> SUFFICES ASSUME NEW n \in 1 .. Len(sink')
                 PROVE  sink'[n] = [event |-> spool'[n].mac[3], mac |-> spool'[n].mac]
      BY <1>1, <1>2, <2>2, <2>3 DEF SinkIsPrefix, Committed
    <3>1. CASE n = Len(sink) + 1
      BY <1>2, <2>2, <2>3, <3>1
    <3>2. CASE n \in 1 .. Len(sink)
      <4>1. sink[n] = [event |-> spool[n].mac[3], mac |-> spool[n].mac]
        BY <3>2 DEF SinkIsPrefix, Committed
      <4>2. n \in 1 .. Len(spool)
        BY <1>1, <3>2 DEF SinkIsPrefix
      <4>3. spool'[n].mac = spool[n].mac /\ sink'[n] = sink[n]
        BY <1>2, <2>2, <3>2, <4>2
      <4> QED
        BY <4>1, <4>3
    <3> QED
      BY <1>1, <2>2, <3>1, <3>2
  <2> QED
    BY <1>1, <2>2, <2>4
<1> QED
  BY <1>3, <1>4, SinkWriters

\* A 2xx means that the sink holds the record (Store.Append).
LEMMA HeldStep ==
  ASSUME SpoolInv, WorkerInv, IsSequence(sink), SinkIsPrefix, [Next]_vars
  PROVE  RequestsHeld'
<1>0. WorkersTyped /\ RequestsHeld /\ BatchesGenuine
  BY DEF WorkerInv
<1>1. Len(sink) \in Nat /\ Len(sink') \in Nat /\ Len(sink) <= Len(sink')
  BY SinkStep, LenProperties DEF IsSequence
<1> SUFFICES ASSUME NEW w \in Workers, phase'[w] \in {"await", "answered"}
             PROVE  /\ batch'[w] # NoBatch
                    /\ phase'[w] = "answered" => Current(w)'.sequence <= Len(sink')
  BY DEF RequestsHeld
<1>2. /\ batch'[w] = batch[w]
      /\ \/ phase'[w] = phase[w]
         \/ Send(w) /\ phase'[w] = "await"
         \/ SinkAnswers(w) /\ Accepted(Current(w)) /\ phase[w] = "await"
  BY <1>0, RequestWriters
<1>3. batch[w] # NoBatch
  BY <1>0, <1>2 DEF RequestsHeld, Send
<1>4. Current(w)' = Current(w)
  BY <1>2, CurrentOfBatch
<1>5. Current(w).sequence \in Nat
  <2>1. Len(spool) \in Nat /\ DOMAIN spool = 1 .. Len(spool)
    BY UndeliveredFinite DEF SpoolInv
  <2> QED
    BY <1>0, <1>3, <2>1, CurrentFirst DEF Genuine
<1>6. ASSUME phase'[w] = "answered"
      PROVE  Current(w).sequence <= Len(sink')
  <2>1. CASE phase[w] = "answered"
    BY <1>0, <1>1, <1>5, <2>1 DEF RequestsHeld
  <2>2. CASE SinkAnswers(w) /\ Accepted(Current(w))
    <3>1. CASE Storable(Current(w))
      <4>1. sink' = Append(sink, [event |-> Current(w).event, mac |-> Current(w).mac])
        BY <2>2, <3>1 DEF SinkAnswers, SinkAppend
      <4>2. Len(sink') = Len(sink) + 1
        BY <4>1, AppendFacts
      <4> QED
        BY <1>1, <3>1, <4>2 DEF Storable, IsNext, LastSequence
    <3>2. CASE ExactReplay(Current(w))
      BY <1>1, <1>5, <3>2 DEF ExactReplay, LastSequence
    <3> QED
      BY <2>2, <3>1, <3>2 DEF Accepted
  <2> QED
    BY <1>2, <1>6, <2>1, <2>2
<1> QED
  BY <1>2, <1>3, <1>4, <1>6

\* The record a worker marks is the next one in sequence order.
LEMMA MarksNext ==
  ASSUME DeliveryInv, NEW w \in Workers, phase[w] = "answered", MarkDelivered(Current(w))
  PROVE  /\ Cardinality(delivered) \in Nat
         /\ Current(w).sequence = Cardinality(delivered) + 1
         /\ Current(w).sequence <= Len(sink)
         /\ delivered' = 1 .. Cardinality(delivered) + 1
         /\ Cardinality(delivered') = Cardinality(delivered) + 1
<1>0. SpoolInv /\ SinkInv /\ WorkerInv
  BY DEF DeliveryInv
<1> DEFINE d == Cardinality(delivered)
           c == Current(w).sequence
<1>1. Len(spool) \in Nat /\ DOMAIN spool = 1 .. Len(spool)
  BY <1>0, UndeliveredFinite DEF SpoolInv
<1>2. d \in Nat /\ delivered = 1 .. d
  <2>1. IsFiniteSet(DOMAIN spool)
    BY <1>1, FS_Interval
  <2>2. IsFiniteSet(delivered)
    BY <1>0, <2>1, FS_Subset DEF SpoolInv
  <2> QED
    BY <1>0, <2>2, FS_CardinalityType DEF SinkInv, AcknowledgedPrefix
<1>3. /\ batch[w] # NoBatch /\ c <= Len(sink)
  BY <1>0 DEF WorkerInv, RequestsHeld
<1>4. c \in DOMAIN batch[w] /\ \A n \in DOMAIN batch[w] : c <= n
  BY <1>0, <1>3, CurrentFirst DEF WorkerInv
<1>5. c \in Undelivered /\ delivered' = delivered \cup {c}
  BY DEF MarkDelivered, Markable
<1>6. c \in 1 .. Len(spool) /\ c > d
  BY <1>1, <1>2, <1>5 DEF Undelivered
<1> HIDE DEF c, d
<1>7. c = d + 1
  <2> SUFFICES ASSUME c > d + 1
               PROVE  FALSE
    BY <1>2, <1>6
  <2>1. d + 1 \in Undelivered /\ d + 1 < c
    BY <1>1, <1>2, <1>6 DEF Undelivered
  <2>2. d + 1 \in DOMAIN batch[w]
    BY <1>0, <1>4, <2>1 DEF WorkerInv, BatchesDense
  <2> QED
    BY <1>2, <1>4, <1>6, <2>2
<1>8. delivered' = 1 .. d + 1
  BY <1>2, <1>5, <1>7
<1>9. Cardinality(1 .. d + 1) = d + 1
  BY <1>2, FS_Interval
<1> QED
  BY <1>2, <1>3, <1>7, <1>8, <1>9 DEF c, d

\* Records are marked in order and only when stored.
LEMMA AcknowledgedStep ==
  ASSUME DeliveryInv, [Next]_vars
  PROVE  AcknowledgedPrefix'
<1>0. SpoolInv /\ SinkInv /\ WorkerInv
  BY DEF DeliveryInv
<1>1. Len(sink) \in Nat /\ Len(sink') \in Nat /\ Len(sink) <= Len(sink')
  BY <1>0, SinkStep, LenProperties DEF SinkInv, IsSequence
<1>2. CASE delivered' = delivered
  <2>1. Cardinality(delivered) \in Nat
    <3>1. IsFiniteSet(DOMAIN spool)
      BY <1>0, UndeliveredFinite, FS_Interval DEF SpoolInv
    <3> QED
      BY <1>0, <3>1, FS_Subset, FS_CardinalityType DEF SpoolInv
  <2> QED
    BY <1>0, <1>1, <1>2, <2>1 DEF SinkInv, AcknowledgedPrefix
<1>3. ASSUME NEW w \in Workers, phase[w] = "answered", MarkDelivered(Current(w))
      PROVE  AcknowledgedPrefix'
  BY <1>1, <1>3, MarksNext DEF AcknowledgedPrefix
<1> QED
  BY <1>2, <1>3, SpoolWriters DEF Commit, CommitTx, AppendTx, RollbackTx, Corrupt, spoolVars

\* DeliveryInv holds initially.
LEMMA DeliveryInit ==
  ASSUME Init
  PROVE  DeliveryInv
<1>1. /\ spool = << >> /\ sink = << >> /\ delivered = {} /\ head.sequence = 0 /\ orphans = {}
      /\ phase = [w \in Workers |-> "verify"] /\ batch = [w \in Workers |-> NoBatch]
      /\ degraded = [w \in Workers |-> FALSE]
      /\ txRows = << >> /\ txHead.sequence = 0
  BY DEF Init, SpoolInit, SinkInit
<1>2. Cardinality({}) = 0 /\ DOMAIN spool = {} /\ Len(spool) = 0 /\ Len(sink) = 0
  BY <1>1, FS_EmptySet
<1>3. IsSequence(spool) /\ IsSequence(sink) /\ IsSequence(txRows) /\ DOMAIN txRows = {} /\ Len(txRows) = 0
  BY <1>1 DEF IsSequence
<1>4. SpoolInv
  <2>1. Cardinality(Undelivered) + Len(txRows) <= MaximumPending
    BY <1>1, <1>2, <1>3, SpoolAssumption DEF Undelivered
  <2> QED
    BY <1>1, <1>2, <1>3, <2>1 DEF SpoolInv, RowsSealed, TxSealed
<1>5. SinkInv
  BY <1>1, <1>2, <1>3 DEF SinkInv, SinkIsPrefix, AcknowledgedPrefix
<1>6. WorkersTyped
  BY <1>1 DEF WorkersTyped, Phases
<1>7. BatchesGenuine /\ BatchesDense /\ RequestsHeld /\ OrphansGenuine
  BY <1>1 DEF BatchesGenuine, BatchesDense, RequestsHeld, OrphansGenuine, NoBatch
<1> QED
  BY <1>4, <1>5, <1>6, <1>7 DEF DeliveryInv, WorkerInv

\* Every reachable state satisfies DeliveryInv.
LEMMA DeliveryInductive == Spec => []DeliveryInv
<1>1. Init => DeliveryInv
  BY DeliveryInit
<1>2. ASSUME DeliveryInv, [Next]_vars
      PROVE  DeliveryInv'
  <2>0. SpoolInv /\ SinkInv /\ WorkerInv
    BY <1>2 DEF DeliveryInv
  <2>1. SpoolInv'
    BY <1>2, <2>0, SpoolStep
  <2>2. SinkInv'
    BY <1>2, <2>0, SinkStep, AcknowledgedStep DEF SinkInv
  <2>3. WorkerInv'
    BY <1>2, <2>0, WorkersStep, BatchesStep, OrphansStep, DenseStep, HeldStep DEF WorkerInv, SinkInv
  <2> QED
    BY <2>1, <2>2, <2>3 DEF DeliveryInv
<1> QED
  BY <1>1, <1>2, PTL DEF Spec

-----------------------------------------------------------------------------
(* The theorems.                                                           *)

\* The worker's state keeps its type: no request without a record
\* (DeliveryWorker).
THEOREM TypeCorrect == Spec => []TypeOK
<1>1. DeliveryInv => TypeOK
  BY DEF DeliveryInv, SpoolInv, WorkerInv, WorkersTyped, BatchesGenuine, RequestsHeld, TypeOK
<1> QED
  BY <1>1, DeliveryInductive, PTL

\* Whatever is lost, delayed, repeated or damaged, and however many workers
\* deliver, the sink holds an exact prefix of the committed chain
\* (Pending's MAC check, Store.Append's gap and replay rules).
THEOREM SinkCorrect == Spec => []SinkIsPrefix
<1>1. DeliveryInv => SinkIsPrefix
  BY DEF DeliveryInv, SinkInv
<1> QED
  BY <1>1, DeliveryInductive, PTL

\* Records are marked delivered in sequence order, without a gap, and only
\* when the sink holds them (MarkDelivered after a 2xx).
THEOREM AcknowledgedCorrect == Spec => []AcknowledgedPrefix
<1>1. DeliveryInv => AcknowledgedPrefix
  BY DEF DeliveryInv, SinkInv
<1> QED
  BY <1>1, DeliveryInductive, PTL

\* The undelivered events never exceed maximumPending, however many
\* one transaction appends (AppendTx).
THEOREM PendingCorrect == Spec => []PendingBounded
<1>1. DeliveryInv => PendingBounded
  BY BoundedPending DEF DeliveryInv
<1> QED
  BY <1>1, DeliveryInductive, PTL

-----------------------------------------------------------------------------
(* Refinement of AuditStream.                                              *)

\* The committed events, the log of the abstract stream.
Log == [n \in 1 .. Len(spool) |-> Committed(n)]

LogOf(s) == [n \in 1 .. Len(s) |-> s[n].mac[3]]

\* The log is a sequence of events as long as the spool.
LEMMA LogSequence ==
  ASSUME NEW s, IsSequence(s), \A n \in DOMAIN s : SealedAt(s[n], n)
  PROVE  /\ LogOf(s) \in Seq(Events) /\ Len(LogOf(s)) = Len(s) /\ DOMAIN LogOf(s) = 1 .. Len(s)
         /\ Len(s) \in Nat
<1>1. Len(s) \in Nat /\ DOMAIN s = 1 .. Len(s)
  BY LenProperties DEF IsSequence
<1>2. \A n \in 1 .. Len(s) : s[n].mac[3] \in Events
  BY <1>1 DEF SealedAt
<1>3. LogOf(s) \in [1 .. Len(s) -> Events]
  BY <1>2 DEF LogOf
<1>4. LogOf(s) \in Seq(Events)
  BY <1>1, <1>3, SeqDef
<1> QED
  BY <1>1, <1>3, <1>4, LenProperties

\* The commit of a transaction, whatever it has appended, is a Commit step of
\* the stream.
LEMMA CommitRefines ==
  ASSUME DeliveryInv, DeliveryInv', Commit
  PROVE  Stream!Commit
<1>0. /\ SpoolInv /\ SpoolInv'
      /\ IsSequence(spool) /\ IsSequence(txRows) /\ delivered \subseteq DOMAIN spool
  BY DEF DeliveryInv, SpoolInv
<1>1. /\ Joined(spool, txRows, spool') /\ delivered' = delivered /\ txRows # << >>
      /\ txRows' = << >> /\ sink' = sink
  BY DEF Commit, CommitTx, sinkVars, Joined
<1>2. /\ Len(spool') = Len(spool) + Len(txRows) /\ Len(txRows) \in Nat /\ Len(spool) \in Nat
      /\ DOMAIN spool' = 1 .. Len(spool) + Len(txRows)
      /\ \A n \in 1 .. Len(spool) : spool'[n] = spool[n]
  BY <1>0, <1>1, ConcatFacts
<1>3. Len(txRows) > 0
  <2>1. Len(txRows) # 0
    BY <1>0, <1>1, EmptySeq DEF IsSequence
  <2> QED
    BY <1>2, <2>1
<1>4. Log \in Seq(Events) /\ Len(Log) = Len(spool) /\ DOMAIN Log = 1 .. Len(spool)
  <2>1. Log = LogOf(spool)
    BY DEF Log, LogOf, Committed
  <2> QED
    BY <1>0, <2>1, LogSequence DEF SpoolInv, RowsSealed
<1>5. Log' \in Seq(Events) /\ Len(Log') = Len(spool')
  <2>1. Log' = LogOf(spool')
    BY DEF Log, LogOf, Committed
  <2>2. IsSequence(spool') /\ \A n \in DOMAIN spool' : SealedAt(spool'[n], n)
    BY <1>0 DEF SpoolInv, RowsSealed, SealedAt
  <2> QED
    BY <2>1, <2>2, LogSequence
<1>6. Len(Log') - Cardinality(delivered) <= MaximumPending
  <2>1. /\ delivered' \subseteq DOMAIN spool' /\ IsSequence(spool')
        /\ Cardinality(Undelivered') + Len(txRows') <= MaximumPending
    BY <1>0 DEF SpoolInv
  <2>2. /\ Cardinality(Undelivered') = Len(spool') - Cardinality(delivered')
        /\ Len(spool') \in Nat /\ Cardinality(delivered') \in Nat
    BY <2>1, CountOutside DEF Undelivered
  <2>3. Len(txRows') = 0
    BY <1>1
  <2> QED
    BY <1>1, <1>5, <2>1, <2>2, <2>3
<1>7. \A n \in DOMAIN Log : Log'[n] = Log[n]
  BY <1>2, <1>4 DEF Log, Committed
<1>8. Len(Log') > Len(Log)
  BY <1>2, <1>3, <1>4, <1>5
<1> QED
  BY <1>1, <1>5, <1>6, <1>7, <1>8 DEF Stream!Commit, Log

\* Damage, and every step that does not commit, leaves the log alone.
LEMMA LogStands ==
  ASSUME SpoolInv, [Next]_vars, ~Commit
  PROVE  Log' = Log /\ Len(spool') = Len(spool)
<1>1. Len(spool') = Len(spool)
  <2>1. ASSUME NEW n \in DOMAIN spool, Corrupt(n)
        PROVE  Len(spool') = Len(spool)
    <3>1. /\ IsSequence(spool) /\ IsSequence(spool') /\ DOMAIN spool' = DOMAIN spool
      BY <2>1, SpoolStep DEF Corrupt, SpoolInv
    <3>2. /\ Len(spool) \in Nat /\ DOMAIN spool = 1 .. Len(spool)
          /\ Len(spool') \in Nat /\ DOMAIN spool' = 1 .. Len(spool')
      BY <3>1, LenProperties DEF IsSequence
    <3> QED
      BY <3>1, <3>2
  <2> QED
    BY <2>1, SpoolWriters DEF AppendTx, RollbackTx, MarkDelivered, spoolVars
<1>2. \A n \in 1 .. Len(spool) : spool'[n].mac = spool[n].mac
  <2>1. DOMAIN spool = 1 .. Len(spool)
    BY UndeliveredFinite DEF SpoolInv
  <2> QED
    BY <2>1, MacsStand
<1> QED
  BY <1>1, <1>2 DEF Log, Committed

\* Every step of the pipeline is a step of the stream or leaves it alone.
LEMMA StreamStep ==
  ASSUME DeliveryInv, DeliveryInv', [Next]_vars
  PROVE  [Stream!Next]_(Stream!vars)
<1>0. SpoolInv /\ SinkInv /\ WorkerInv
  BY DEF DeliveryInv
<1>1. CASE Commit
  <2>1. Stream!Commit
    BY <1>1, CommitRefines
  <2> QED
    BY <2>1 DEF Stream!Next
<1>2. CASE ~Commit /\ delivered' = delivered /\ sink' # sink
  <2>1. PICK r : Genuine(r) /\ SinkAppend(r)
    BY <1>0, <1>2, SinkWriters
  <2>2. Len(sink') = Len(sink) + 1 /\ Len(sink) \in Nat
    BY <1>0, <1>2, <2>1, AppendFacts DEF SinkAppend, SinkInv
  <2>3. Len(sink) < Len(Log)
    <3>1. Len(sink') <= Len(spool') /\ Len(spool') = Len(spool)
      BY <1>0, <1>2, SinkStep, LogStands DEF SinkInv, SinkIsPrefix
    <3>2. Len(Log) = Len(spool) /\ Len(spool) \in Nat
      <4>1. Log = LogOf(spool)
        BY DEF Log, LogOf, Committed
      <4> QED
        BY <1>0, <4>1, LogSequence DEF SpoolInv, RowsSealed
    <3> QED
      BY <2>2, <3>1, <3>2
  <2>4. Log' = Log
    BY <1>0, <1>2, LogStands
  <2> QED
    BY <1>2, <2>2, <2>3, <2>4 DEF Stream!Next, Stream!Replicate, Log
<1>3. CASE ~Commit /\ delivered' = delivered /\ sink' = sink
  <2>1. Log' = Log
    BY <1>0, <1>3, LogStands
  <2> QED
    BY <1>3, <2>1 DEF Stream!vars, Log
<1>4. CASE ~Commit /\ delivered' # delivered
  <2>1. PICK w \in Workers : phase[w] = "answered" /\ MarkDelivered(Current(w)) /\ sink' = sink
    <3>1. \E w \in Workers : Acknowledge(w) /\ MarkDelivered(Current(w))
      BY <1>4 DEF Next, vars, spoolVars, Appends, AppendTx, Rollback, RollbackTx, Damage, Corrupt, SinkClock, Restart, VerifyRows, VerifyHead,
         PendingRows, PendingHead, PendingLast, BatchDone, Send, SinkAnswers, Timeout, Acknowledge,
         LateAppend, Dropped
    <3> QED
      BY <3>1 DEF Acknowledge, sinkVars
  <2>2. /\ Cardinality(delivered) \in Nat
        /\ Cardinality(delivered) + 1 <= Len(sink)
        /\ Cardinality(delivered') = Cardinality(delivered) + 1
    BY <2>1, MarksNext
  <2>3. Log' = Log /\ Len(sink) \in Nat
    BY <1>0, <1>4, LogStands, LenProperties DEF SinkInv, IsSequence
  <2> QED
    BY <2>1, <2>2, <2>3 DEF Stream!Next, Stream!Acknowledge, Log
<1> QED
  BY <1>1, <1>2, <1>3, <1>4

\* The spool, the workers and the sink implement the abstract stream: an
\* append-only log, a prefix of it replicated, a prefix of that acknowledged.
THEOREM StreamRefinement == Spec => ImplementsStream
<1>1. Init => Stream!Init
  <2> SUFFICES ASSUME Init
               PROVE  Stream!Init
    OBVIOUS
  <2>1. spool = << >> /\ sink = << >> /\ delivered = {}
    BY DEF Init, SpoolInit, SinkInit
  <2>2. Len(spool) = 0 /\ Len(sink) = 0 /\ Cardinality(delivered) = 0
    BY <2>1, FS_EmptySet
  <2>3. [n \in 1 .. 0 |-> Committed(n)] = << >>
    OBVIOUS
  <2> QED
    BY <2>2, <2>3 DEF Stream!Init
<1>2. DeliveryInv /\ DeliveryInv' /\ [Next]_vars => [Stream!Next]_(Stream!vars)
  BY StreamStep
<1> QED
  BY <1>1, <1>2, DeliveryInductive, PTL DEF Spec, ImplementsStream, Stream!Spec

=============================================================================
