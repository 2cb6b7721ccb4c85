----------------------- MODULE CredentialStoreProofs -----------------------
(***************************************************************************)
(* Theorems about CredentialStore, for any number of requests,             *)
(* credentials, idempotency keys and inputs.                               *)
(*                                                                         *)
(* A request works on a row it read earlier.  What makes that harmless is  *)
(* that the versions up to the current one are never written again (Kept): *)
(* the row a request keeps is one of the stored versions (ReadFits), so    *)
(* that the comparison of Update makes it the newest, and what an answer   *)
(* acknowledged is found in the version it names for ever (AnswerFits).    *)
(* Every stored record was encrypted for its own version (VersionFits),    *)
(* which makes rename and retire readable.                                 *)
(***************************************************************************)
EXTENDS CredentialStore, EnvelopeProofs, FiniteSetTheorems, SequenceTheorems

-----------------------------------------------------------------------------
(* The inductive invariant.                                                *)

CredentialStates == {"active", "retired"}

RecordsOf(id, n) == {Encrypted(id, n, inputs) : inputs \in Inputs}

IsRow(row) ==
  /\ row = [name |-> row.name, record |-> row.record, state |-> row.state, version |-> row.version]
  /\ row.name \in Names
  /\ row.state \in CredentialStates
  /\ row.version \in Nat \ {0}

\* A stored version is named, and its record was encrypted for it.
VersionFits(id, n) ==
  /\ <<id, n>> \in DOMAIN versions
  /\ versions[<<id, n>>].name \in Names
  /\ versions[<<id, n>>].record \in RecordsOf(id, n)
  /\ versions[<<id, n>>].state \in CredentialStates

TablesInv ==
  /\ DOMAIN current \subseteq Ids
  /\ DOMAIN versions = UNION { {id} \X (1 .. current[id].version) : id \in DOMAIN current }
  /\ \A id \in DOMAIN current :
       /\ IsRow(current[id])
       /\ versions[<<id, current[id].version>>] = Content(current[id])
       /\ \A n \in 1 .. current[id].version : VersionFits(id, n)

\* One credential for each key.
KeysInv ==
  /\ IsFiniteSet(DOMAIN current) /\ IsFiniteSet(DOMAIN idempotency)
  /\ Cardinality(DOMAIN current) = Cardinality(DOMAIN idempotency)
  /\ \A k \in DOMAIN idempotency :
       idempotency[k].id \in DOMAIN current /\ idempotency[k].request \in Creates

\* The row a request keeps is the version it expects, of the history.
ReadFits(q) ==
  /\ q \in DOMAIN read
  /\ Id(q) \in DOMAIN current
  /\ IsRow(read[q])
  /\ read[q].state = "active"
  /\ read[q].version = Op(q).expected
  /\ read[q].version <= current[Id(q)].version
  /\ versions[<<Id(q), read[q].version>>] = Content(read[q])

RequestFits(q) ==
  /\ requests[q] \in [phase : {"issued", "inserting", "prepared"}, op : Creates \cup Changes, id : Ids]
  /\ IsCreate(q) => Id(q) \notin DOMAIN current /\ ~At(q, "prepared")
  /\ ~IsCreate(q) => Op(q).credential = Id(q) /\ ~At(q, "inserting")
  /\ At(q, "inserting") => Op(q).key \notin DOMAIN idempotency
  /\ At(q, "prepared") => ReadFits(q)

RequestsInv ==
  /\ DOMAIN read \subseteq DOMAIN requests
  /\ \A q \in DOMAIN requests : RequestFits(q)
  /\ \A p, q \in DOMAIN requests :
       /\ IsCreate(p) /\ IsCreate(q) /\ Id(p) = Id(q) => p = q
       /\ At(p, "inserting") /\ At(q, "inserting") /\ Op(p).key = Op(q).key => p = q

\* What was acknowledged is there.
AnswerFits(a) ==
  /\ a.op \in Creates \cup Changes
  /\ a.id \in DOMAIN current
  /\ a.version \in 1 .. current[a.id].version
  /\ a.op.kind = "create" =>
       /\ a.op.key \in DOMAIN idempotency
       /\ idempotency[a.op.key].request = a.op
       /\ idempotency[a.op.key].id = a.id
  /\ LET made == versions[<<a.id, a.version>>] IN
     /\ a.op.kind = "replace" =>
          /\ made.record = Encrypted(a.id, a.version, a.op.inputs)
          /\ a.version = a.op.expected + 1
     /\ a.op.kind = "rename" => made.name = a.op.name
     /\ a.op.kind = "retire" => made.state = "retired"

AnswersInv == \A a \in answers : AnswerFits(a)

StoreInv == TablesInv /\ KeysInv /\ RequestsInv /\ AnswersInv

-----------------------------------------------------------------------------
(* Tables and requests.                                                    *)

\* A row is added to a table or taken from it.
LEMMA WithRow ==
  ASSUME NEW table, NEW k, NEW row
  PROVE  /\ DOMAIN With(table, k, row) = DOMAIN table \cup {k}
         /\ With(table, k, row)[k] = row
         /\ \A x \in DOMAIN table \ {k} : With(table, k, row)[x] = table[x]
         /\ DOMAIN Without(table, k) = DOMAIN table \ {k}
         /\ \A x \in DOMAIN table \ {k} : Without(table, k)[x] = table[x]
  BY DEF With, Without

\* The fields of a request by its kind.
LEMMA OpFields ==
  ASSUME NEW op \in Creates \cup Changes
  PROVE  /\ op.kind = "create" => op \in Creates /\ op.name \in Names /\ op.inputs \in Inputs
         /\ op.kind # "create" =>
              /\ op \in Changes /\ op.kind \in {"replace", "rename", "retire"}
              /\ op.expected \in Nat \ {0}
         /\ op.kind = "replace" => op.inputs \in Inputs
         /\ op.kind = "rename" => op.name \in Names
  BY StoreAssumption DEF Create, Change

\* The versions of a credential are in the table.
LEMMA VersionKeys ==
  ASSUME TablesInv, NEW id, NEW n
  PROVE  <<id, n>> \in DOMAIN versions <=> id \in DOMAIN current /\ n \in 1 .. current[id].version
  BY DEF TablesInv

\* No step writes a version that exists, or an idempotency row.
Kept ==
  /\ \A id \in DOMAIN current :
       /\ id \in DOMAIN current'
       /\ current'[id].version \in Nat /\ current[id].version <= current'[id].version
       /\ \A n \in 1 .. current[id].version : versions'[<<id, n>>] = versions[<<id, n>>]
  /\ \A k \in DOMAIN idempotency :
       k \in DOMAIN idempotency' /\ idempotency'[k] = idempotency[k]

\* So what was acknowledged stays.
LEMMA AnswersKept ==
  ASSUME TablesInv, AnswersInv, Kept, NEW new, answers' \subseteq answers \cup {new},
         AnswerFits(new)'
  PROVE  AnswersInv'
<1> SUFFICES ASSUME NEW a \in answers PROVE AnswerFits(a)'
  BY DEF AnswersInv
<1>1. AnswerFits(a)
  BY DEF AnswersInv
<1>2. a.id \in DOMAIN current /\ a.version \in 1 .. current[a.id].version
  BY <1>1 DEF AnswerFits
<1>3. current[a.id].version \in Nat
  BY <1>2 DEF TablesInv, IsRow
<1>4. /\ a.id \in DOMAIN current' /\ a.version \in 1 .. current'[a.id].version
      /\ versions'[<<a.id, a.version>>] = versions[<<a.id, a.version>>]
  BY <1>2, <1>3 DEF Kept
<1>5. a.op.kind = "create" =>
       /\ a.op.key \in DOMAIN idempotency'
       /\ idempotency'[a.op.key].request = a.op
       /\ idempotency'[a.op.key].id = a.id
  BY <1>1 DEF AnswerFits, Kept
<1> QED
  BY <1>1, <1>4, <1>5 DEF AnswerFits

\* And the row a request keeps stays one of the history.
LEMMA ReadKept ==
  ASSUME TablesInv, Kept, NEW q, ReadFits(q), q \in DOMAIN requests, q \in DOMAIN requests',
         requests'[q].id = requests[q].id, requests'[q].op = requests[q].op,
         q \in DOMAIN read', read'[q] = read[q]
  PROVE  ReadFits(q)'
<1>1. /\ Id(q) \in DOMAIN current /\ read[q].version \in Nat \ {0}
      /\ read[q].version <= current[Id(q)].version /\ current[Id(q)].version \in Nat
  BY DEF ReadFits, IsRow, TablesInv
<1>2. read[q].version \in 1 .. current[Id(q)].version
  BY <1>1
<1>3. /\ Id(q) \in DOMAIN current' /\ read[q].version <= current'[Id(q)].version
      /\ versions'[<<Id(q), read[q].version>>] = versions[<<Id(q), read[q].version>>]
  BY <1>1, <1>2 DEF Kept
<1>4. Id(q)' = Id(q) /\ Op(q)' = Op(q)
  BY DEF Id, Op
<1> QED
  BY <1>3, <1>4 DEF ReadFits, Content, IsRow

\* A request ends; those that go on have neither created the identifier of
\* another nor inserted its key.
LEMMA RequestEnds ==
  ASSUME TablesInv, RequestsInv, Kept, NEW q \in DOMAIN requests, End(q),
         \A p \in DOMAIN requests \ {q} :
           /\ IsCreate(p) => Id(p) \notin DOMAIN current'
           /\ At(p, "inserting") => Op(p).key \notin DOMAIN idempotency'
  PROVE  RequestsInv'
<1>1. /\ DOMAIN requests' = DOMAIN requests \ {q} /\ DOMAIN read' = DOMAIN read \ {q}
      /\ \A p \in DOMAIN requests \ {q} : requests'[p] = requests[p]
      /\ \A p \in DOMAIN read \ {q} : read'[p] = read[p]
  BY DEF End, Without
<1>2. ASSUME NEW p \in DOMAIN requests'
      PROVE  RequestFits(p)'
  <2>1. /\ p \in DOMAIN requests \ {q} /\ requests'[p] = requests[p] /\ RequestFits(p)
    BY <1>1 DEF RequestsInv
  <2>2. At(p, "prepared") => ReadFits(p)'
    <3> SUFFICES ASSUME At(p, "prepared") PROVE ReadFits(p)'
      OBVIOUS
    <3>1. ReadFits(p) /\ p \in DOMAIN read
      BY <2>1 DEF RequestFits, ReadFits
    <3>2. p \in DOMAIN read' /\ read'[p] = read[p]
      BY <1>1, <2>1, <3>1
    <3> QED
      BY <1>2, <2>1, <3>1, <3>2, ReadKept
  <2>3. /\ IsCreate(p)' = IsCreate(p) /\ Id(p)' = Id(p) /\ Op(p)' = Op(p)
        /\ \A phase : At(p, phase)' = At(p, phase)
    BY <1>2, <2>1 DEF IsCreate, Id, Op, At
  <2> QED
    BY <2>1, <2>2, <2>3 DEF RequestFits
<1>3. \A p \in DOMAIN requests' :
        /\ p \in DOMAIN requests /\ IsCreate(p)' = IsCreate(p) /\ Id(p)' = Id(p) /\ Op(p)' = Op(p)
        /\ \A phase : At(p, phase)' = At(p, phase)
  BY <1>1 DEF IsCreate, Id, Op, At
<1> QED
  BY <1>1, <1>2, <1>3 DEF RequestsInv

\* Tables that stay the same stay right.
LEMMA TablesSame ==
  ASSUME StoreInv, UNCHANGED <<current, versions, idempotency>>
  PROVE  TablesInv' /\ KeysInv' /\ Kept
<1>1. \A id \in DOMAIN current : current[id].version \in Nat
  BY DEF StoreInv, TablesInv, IsRow
<1> QED
  BY <1>1 DEF StoreInv, TablesInv, KeysInv, Kept, IsRow, VersionFits, Content

\* A request that ends without writing keeps the invariant.
LEMMA EndStep ==
  ASSUME StoreInv, NEW q \in DOMAIN requests, End(q),
         UNCHANGED <<current, versions, idempotency>>, AnswersInv'
  PROVE  StoreInv'
<1>1. TablesInv' /\ KeysInv' /\ Kept
  BY TablesSame
<1>2. \A p \in DOMAIN requests \ {q} :
        /\ IsCreate(p) => Id(p) \notin DOMAIN current'
        /\ At(p, "inserting") => Op(p).key \notin DOMAIN idempotency'
  BY DEF StoreInv, RequestsInv, RequestFits
<1> QED
  BY <1>1, <1>2, RequestEnds DEF StoreInv

\* An error answer or a crash.
LEMMA FailStep ==
  ASSUME StoreInv, NEW q \in DOMAIN requests, Fail(q)
  PROVE  StoreInv'
<1>1. End(q) /\ UNCHANGED <<current, versions, idempotency, answers>>
  BY DEF Fail
<1>2. AnswersInv'
  BY <1>1 DEF StoreInv, AnswersInv, AnswerFits
<1> QED
  BY <1>1, <1>2, EndStep

\* An answer from the tables as they are.
LEMMA AnswerStep ==
  ASSUME StoreInv, NEW q \in DOMAIN requests, NEW id, NEW version, Answer(q, id, version),
         AnswerFits([op |-> Op(q), id |-> id, version |-> version])
  PROVE  StoreInv'
<1> DEFINE new == [op |-> Op(q), id |-> id, version |-> version]
<1>1. /\ End(q) /\ UNCHANGED <<current, versions, idempotency>>
      /\ answers' = answers \cup {new}
  BY DEF Answer
<1>2. \A a : AnswerFits(a) => AnswerFits(a)'
  BY <1>1 DEF AnswerFits
<1>3. AnswersInv'
  BY <1>1, <1>2 DEF StoreInv, AnswersInv
<1> QED
  BY <1>1, <1>3, EndStep

\* A new request takes an identifier nobody has.
LEMMA IssueStep ==
  ASSUME StoreInv, NEW q, NEW op \in Creates \cup Changes, NEW id \in Ids, Issue(q, op, id)
  PROVE  StoreInv'
<1>1. /\ q \notin DOMAIN requests /\ UNCHANGED <<current, versions, idempotency, read, answers>>
      /\ requests' = With(requests, q, [phase |-> "issued", op |-> op, id |-> id])
      /\ op.kind = "create" => id \notin Taken
      /\ op.kind # "create" => id = op.credential
  BY DEF Issue
<1>2. TablesInv' /\ KeysInv' /\ Kept
  BY <1>1, TablesSame
<1>3. AnswersInv'
  BY <1>1 DEF StoreInv, AnswersInv, AnswerFits
<1>4. /\ DOMAIN requests' = DOMAIN requests \cup {q}
      /\ requests'[q] = [phase |-> "issued", op |-> op, id |-> id]
      /\ \A p \in DOMAIN requests : requests'[p] = requests[p] /\ p # q
  BY <1>1 DEF With
<1>5. \A p \in DOMAIN requests :
        /\ IsCreate(p)' = IsCreate(p) /\ Id(p)' = Id(p) /\ Op(p)' = Op(p)
        /\ \A phase : At(p, phase)' = At(p, phase)
  BY <1>4 DEF IsCreate, Id, Op, At
<1>6. /\ IsCreate(q)' = (op.kind = "create") /\ Id(q)' = id /\ Op(q)' = op
      /\ ~At(q, "inserting")' /\ ~At(q, "prepared")'
  BY <1>4 DEF IsCreate, Id, Op, At
<1>7. ASSUME NEW p \in DOMAIN requests PROVE RequestFits(p)'
  <2>1. RequestFits(p) /\ requests'[p] = requests[p]
    BY <1>4 DEF StoreInv, RequestsInv
  <2>2. At(p, "prepared") => ReadFits(p)'
    BY <1>1, <1>2, <1>4, <2>1, ReadKept DEF RequestFits, StoreInv, ReadFits
  <2> QED
    BY <1>1, <1>5, <2>1, <2>2 DEF RequestFits
<1>8. RequestFits(q)'
  <2>1. op.kind = "create" => id \notin DOMAIN current
    BY <1>1 DEF Taken
  <2>2. requests'[q] \in
          [phase : {"issued", "inserting", "prepared"}, op : Creates \cup Changes, id : Ids]
    BY <1>4
  <2> QED
    BY <1>1, <1>6, <2>1, <2>2 DEF RequestFits
<1>9. op.kind = "create" => \A p \in DOMAIN requests : IsCreate(p) => Id(p) # id
  BY <1>1 DEF Taken
<1>10. RequestsInv'
  <2>1. DOMAIN read' \subseteq DOMAIN requests'
    BY <1>1, <1>4 DEF StoreInv, RequestsInv
  <2>2. \A p \in DOMAIN requests' : RequestFits(p)'
    BY <1>4, <1>7, <1>8
  <2>3. ASSUME NEW p \in DOMAIN requests', NEW r \in DOMAIN requests'
        PROVE  /\ IsCreate(p)' /\ IsCreate(r)' /\ Id(p)' = Id(r)' => p = r
               /\ At(p, "inserting")' /\ At(r, "inserting")' /\ Op(p)'.key = Op(r)'.key => p = r
    <3>1. CASE p # q /\ r # q
      BY <1>4, <1>5, <3>1 DEF StoreInv, RequestsInv
    <3>2. CASE p = q \/ r = q
      BY <1>4, <1>5, <1>6, <1>9, <3>2
    <3> QED
      BY <3>1, <3>2
  <2> QED
    BY <2>1, <2>2, <2>3 DEF RequestsInv
<1> QED
  BY <1>2, <1>3, <1>10 DEF StoreInv

\* A request goes on to its next phase, which fits it, and holds its key alone.
LEMMA PhaseStep ==
  ASSUME StoreInv, NEW q \in DOMAIN requests, NEW phase, Goto(q, phase),
         UNCHANGED <<current, versions, idempotency, answers>>,
         DOMAIN read' \subseteq DOMAIN read \cup {q},
         \A p \in DOMAIN read \ {q} : p \in DOMAIN read' /\ read'[p] = read[p],
         RequestFits(q)', phase = "inserting" => KeyFree(q)
  PROVE  StoreInv'
<1>1. TablesInv' /\ KeysInv' /\ Kept
  BY TablesSame
<1>2. AnswersInv'
  BY DEF StoreInv, AnswersInv, AnswerFits
<1>3. /\ DOMAIN requests' = DOMAIN requests
      /\ \A p \in DOMAIN requests \ {q} : requests'[p] = requests[p]
      /\ requests'[q] = [requests[q] EXCEPT !.phase = phase]
  BY DEF Goto
<1>4. /\ requests[q] \in [phase : {"issued", "inserting", "prepared"}, op : Creates \cup Changes, id : Ids]
  BY DEF StoreInv, RequestsInv, RequestFits
<1>5. requests'[q].op = requests[q].op /\ requests'[q].id = requests[q].id /\ requests'[q].phase = phase
  BY <1>3, <1>4
<1>6. \A p \in DOMAIN requests \ {q} :
        /\ IsCreate(p)' = IsCreate(p) /\ Id(p)' = Id(p) /\ Op(p)' = Op(p)
        /\ \A ph : At(p, ph)' = At(p, ph)
  BY <1>3 DEF IsCreate, Id, Op, At
<1>7. /\ IsCreate(q)' = IsCreate(q) /\ Id(q)' = Id(q) /\ Op(q)' = Op(q)
      /\ At(q, "inserting")' => phase = "inserting"
  BY <1>5 DEF IsCreate, Id, Op, At
<1>8. ASSUME NEW p \in DOMAIN requests PROVE RequestFits(p)'
  <2>1. CASE p = q
    BY <2>1
  <2>2. CASE p # q
    <3>1. RequestFits(p) /\ requests'[p] = requests[p]
      BY <1>3, <2>2 DEF StoreInv, RequestsInv
    <3>2. At(p, "prepared") => ReadFits(p)'
      <4> SUFFICES ASSUME At(p, "prepared") PROVE ReadFits(p)'
        OBVIOUS
      <4>1. ReadFits(p) /\ p \in DOMAIN read
        BY <3>1 DEF RequestFits, ReadFits
      <4>2. p \in DOMAIN read' /\ read'[p] = read[p]
        BY <2>2, <4>1
      <4> QED
        BY <1>1, <1>3, <3>1, <4>1, <4>2, ReadKept DEF StoreInv
    <3> QED
      BY <1>6, <2>2, <3>1, <3>2 DEF RequestFits
  <2> QED
    BY <2>1, <2>2
<1>9. RequestsInv'
  <2>1. DOMAIN read' \subseteq DOMAIN requests'
    BY <1>3 DEF StoreInv, RequestsInv
  <2>2. ASSUME NEW p \in DOMAIN requests, NEW r \in DOMAIN requests
        PROVE  IsCreate(p)' /\ IsCreate(r)' /\ Id(p)' = Id(r)' => p = r
    BY <1>6, <1>7 DEF StoreInv, RequestsInv
  <2>3. ASSUME NEW p \in DOMAIN requests, NEW r \in DOMAIN requests,
               At(p, "inserting")', At(r, "inserting")', Op(p)'.key = Op(r)'.key
        PROVE  p = r
    <3>1. CASE p # q /\ r # q
      BY <1>6, <2>3, <3>1 DEF StoreInv, RequestsInv
    <3>2. CASE p = q /\ r # q
      BY <1>6, <1>7, <2>3, <3>2 DEF KeyFree
    <3>3. CASE r = q /\ p # q
      BY <1>6, <1>7, <2>3, <3>3 DEF KeyFree
    <3> QED
      BY <3>1, <3>2, <3>3
  <2> QED
    BY <1>3, <1>8, <2>1, <2>2, <2>3 DEF RequestsInv
<1> QED
  BY <1>1, <1>2, <1>9 DEF StoreInv

\* A request in progress, in detail.
LEMMA RequestFacts ==
  ASSUME StoreInv, NEW q \in DOMAIN requests
  PROVE  /\ RequestFits(q) /\ Op(q) \in Creates \cup Changes /\ Id(q) \in Ids
         /\ Op(q) = requests[q].op /\ Id(q) = requests[q].id
         /\ IsCreate(q) <=> Op(q).kind = "create"
  BY DEF StoreInv, RequestsInv, RequestFits, Op, Id, IsCreate

\* Create under a known key: the stored response, or a conflict.
LEMMA CreateReplayStep ==
  ASSUME StoreInv, NEW q, CreateReplay(q)
  PROVE  StoreInv'
<1> DEFINE stored == idempotency[Op(q).key]
<1>1. /\ q \in DOMAIN requests /\ IsCreate(q) /\ Op(q).key \in DOMAIN idempotency
      /\ \/ SameRequest(stored, Op(q)) /\ Answer(q, stored.id, 1)
         \/ Fail(q)
  BY DEF CreateReplay, At
<1>2. CASE Fail(q)
  BY <1>1, <1>2, FailStep
<1>3. CASE SameRequest(stored, Op(q)) /\ Answer(q, stored.id, 1)
  <2> DEFINE new == [op |-> Op(q), id |-> stored.id, version |-> 1]
  <2>1. /\ Op(q).kind = "create" /\ Op(q) \in Creates \cup Changes
        /\ stored.id \in DOMAIN current /\ stored.request = Op(q)
    BY <1>1, <1>3, RequestFacts DEF StoreInv, KeysInv, SameRequest
  <2>2. 1 \in 1 .. current[stored.id].version
    <3>1. current[stored.id].version \in Nat \ {0}
      BY <2>1 DEF StoreInv, TablesInv, IsRow
    <3> QED
      BY <3>1
  <2>3. new.op = Op(q) /\ new.id = stored.id /\ new.version = 1
    OBVIOUS
  <2> HIDE DEF new
  <2>4. AnswerFits(new)
    BY <1>1, <2>1, <2>2, <2>3 DEF AnswerFits
  <2> QED
    BY <1>1, <1>3, <2>4, AnswerStep DEF new
<1> QED
  BY <1>1, <1>2, <1>3

\* Create under a new key takes it.
LEMMA CreateMissStep ==
  ASSUME StoreInv, NEW q, CreateMiss(q)
  PROVE  StoreInv'
<1>1. /\ q \in DOMAIN requests /\ IsCreate(q) /\ KeyFree(q) /\ Op(q).key \notin DOMAIN idempotency
      /\ Goto(q, "inserting") /\ UNCHANGED <<current, versions, idempotency, read, answers>>
  BY DEF CreateMiss, At
<1>2. RequestFits(q)
  BY <1>1, RequestFacts
<1>3. /\ requests'[q] \in
           [phase : {"issued", "inserting", "prepared"}, op : Creates \cup Changes, id : Ids]
      /\ requests'[q].op = requests[q].op /\ requests'[q].id = requests[q].id
      /\ requests'[q].phase = "inserting"
  BY <1>1, <1>2 DEF RequestFits, Goto
<1>4. /\ Op(q)' = Op(q) /\ Id(q)' = Id(q) /\ IsCreate(q)' /\ ~At(q, "prepared")'
  BY <1>1, <1>3 DEF Op, Id, IsCreate, At
<1>5. RequestFits(q)'
  BY <1>1, <1>2, <1>3, <1>4 DEF RequestFits
<1> QED
  BY <1>1, <1>5, PhaseStep

\* A change that finds nothing to do is answered with the current version.
LEMMA NoChangeStep ==
  ASSUME StoreInv, NEW q, NoChange(q)
  PROVE  StoreInv'
<1> DEFINE n == current[Id(q)].version
<1> DEFINE new == [op |-> Op(q), id |-> Id(q), version |-> n]
<1>1. /\ q \in DOMAIN requests /\ ~IsCreate(q) /\ Id(q) \in DOMAIN current /\ Answer(q, Id(q), n)
      /\ \/ Op(q).kind = "retire" /\ current[Id(q)].state = "retired"
         \/ Op(q).kind = "rename" /\ Op(q).name = current[Id(q)].name
  BY DEF NoChange, Reading, At, Retired
<1>2. Op(q).kind # "create" /\ Op(q) \in Creates \cup Changes
  BY <1>1, RequestFacts
<1>3. /\ n \in 1 .. n
      /\ versions[<<Id(q), n>>].name = current[Id(q)].name
      /\ versions[<<Id(q), n>>].state = current[Id(q)].state
  <2>1. /\ n \in Nat \ {0}
        /\ versions[<<Id(q), n>>] = Content(current[Id(q)])
    BY <1>1 DEF StoreInv, TablesInv, IsRow
  <2> QED
    BY <2>1 DEF Content
<1>4. new.op = Op(q) /\ new.id = Id(q) /\ new.version = n
  OBVIOUS
<1>5. AnswerFits(new)
  <2> HIDE DEF new
  <2> QED
    BY <1>1, <1>2, <1>3, <1>4 DEF AnswerFits
<1> QED
  BY <1>1, <1>5, AnswerStep

\* A change keeps the row it read while it prepares the next version.
LEMMA PrepareStep ==
  ASSUME StoreInv, NEW q, Prepare(q)
  PROVE  StoreInv'
<1>1. /\ q \in DOMAIN requests /\ ~IsCreate(q) /\ Id(q) \in DOMAIN current /\ ~Retired(q)
      /\ Op(q).expected = current[Id(q)].version /\ read' = With(read, q, current[Id(q)])
      /\ Goto(q, "prepared") /\ UNCHANGED <<current, versions, idempotency, answers>>
  BY DEF Prepare, Reading, At
<1>2. RequestFits(q)
  BY <1>1, RequestFacts
<1>3. /\ requests'[q] \in
           [phase : {"issued", "inserting", "prepared"}, op : Creates \cup Changes, id : Ids]
      /\ requests'[q].op = requests[q].op /\ requests'[q].id = requests[q].id
      /\ requests'[q].phase = "prepared"
  BY <1>1, <1>2 DEF RequestFits, Goto
<1>4. /\ Op(q)' = Op(q) /\ Id(q)' = Id(q) /\ ~IsCreate(q)' /\ ~At(q, "inserting")'
  BY <1>1, <1>3 DEF Op, Id, IsCreate, At
<1>5. /\ DOMAIN read' = DOMAIN read \cup {q} /\ read'[q] = current[Id(q)]
      /\ \A p \in DOMAIN read \ {q} : read'[p] = read[p]
  BY <1>1 DEF With
<1>6. /\ IsRow(current[Id(q)]) /\ current[Id(q)].state = "active"
      /\ versions[<<Id(q), current[Id(q)].version>>] = Content(current[Id(q)])
  BY <1>1 DEF StoreInv, TablesInv, IsRow, Retired, CredentialStates
<1>7. ReadFits(q)'
  <2>1. current[Id(q)].version <= current[Id(q)].version
    BY <1>6 DEF IsRow
  <2> QED
    BY <1>1, <1>4, <1>5, <1>6, <2>1 DEF ReadFits, IsRow, Content
<1>8. RequestFits(q)'
  BY <1>1, <1>2, <1>3, <1>4, <1>7 DEF RequestFits
<1> QED
  BY <1>1, <1>5, <1>8, PhaseStep

-----------------------------------------------------------------------------
(* New versions.                                                           *)

\* A version is added after the newest one: the tables stay right and what is
\* there is kept.
LEMMA VersionAdded ==
  ASSUME TablesInv, NEW id \in Ids, NEW row, IsRow(row), row.record \in RecordsOf(id, row.version),
         DOMAIN current' = DOMAIN current \cup {id}, current'[id] = row,
         \A x \in DOMAIN current \ {id} : current'[x] = current[x],
         versions' = With(versions, <<id, row.version>>, Content(row)),
         id \in DOMAIN current => row.version = current[id].version + 1,
         id \notin DOMAIN current => row.version = 1,
         \A k \in DOMAIN idempotency : k \in DOMAIN idempotency' /\ idempotency'[k] = idempotency[k]
  PROVE  TablesInv' /\ Kept
<1> DEFINE n == row.version
<1>1. /\ n \in Nat \ {0} /\ row.name \in Names /\ row.state \in CredentialStates
      /\ \A x \in DOMAIN current : current[x].version \in Nat \ {0}
  BY DEF IsRow, TablesInv
<1>2. /\ DOMAIN versions' = DOMAIN versions \cup {<<id, n>>} /\ versions'[<<id, n>>] = Content(row)
      /\ \A x \in DOMAIN versions \ {<<id, n>>} : versions'[x] = versions[x]
  BY DEF With
<1>3. \A x \in DOMAIN current : \A m \in 1 .. current[x].version :
        <<x, m>> \in DOMAIN versions /\ <<x, m>> # <<id, n>>
  <2> SUFFICES ASSUME NEW x \in DOMAIN current, NEW m \in 1 .. current[x].version
               PROVE  <<x, m>> \in DOMAIN versions /\ ~(x = id /\ m = n)
    OBVIOUS
  <2>1. <<x, m>> \in DOMAIN versions
    BY VersionKeys
  <2>2. x = id => m # n
    BY <1>1
  <2> QED
    BY <2>1, <2>2
<1>4. \A x \in DOMAIN current : \A m \in 1 .. current[x].version :
        versions'[<<x, m>>] = versions[<<x, m>>]
  BY <1>2, <1>3
<1>5. Kept
  <2>1. ASSUME NEW x \in DOMAIN current
        PROVE  /\ x \in DOMAIN current' /\ current'[x].version \in Nat
               /\ current[x].version <= current'[x].version
    BY <1>1
  <2> QED
    BY <1>4, <2>1 DEF Kept
<1>6. ASSUME NEW x \in DOMAIN current'
      PROVE  /\ IsRow(current'[x])
             /\ versions'[<<x, current'[x].version>>] = Content(current'[x])
             /\ \A m \in 1 .. current'[x].version :
                  /\ <<x, m>> \in DOMAIN versions'
                  /\ versions'[<<x, m>>].name \in Names
                  /\ versions'[<<x, m>>].record \in RecordsOf(x, m)
                  /\ versions'[<<x, m>>].state \in CredentialStates
  <2>1. CASE x = id
    <3>1. \A m \in 1 .. n : m = n \/ (id \in DOMAIN current /\ m \in 1 .. current[id].version)
      BY <1>1
    <3>2. ASSUME NEW m \in 1 .. n
          PROVE  /\ <<id, m>> \in DOMAIN versions'
                 /\ versions'[<<id, m>>].name \in Names
                 /\ versions'[<<id, m>>].record \in RecordsOf(id, m)
                 /\ versions'[<<id, m>>].state \in CredentialStates
      <4>1. CASE m = n
        BY <1>1, <1>2, <4>1 DEF Content
      <4>2. CASE id \in DOMAIN current /\ m \in 1 .. current[id].version
        <5>1. VersionFits(id, m)
          BY <4>2 DEF TablesInv
        <5> QED
          BY <1>2, <1>4, <4>2, <5>1 DEF VersionFits
      <4> QED
        BY <3>1, <4>1, <4>2
    <3> QED
      BY <1>2, <2>1, <3>2
  <2>2. CASE x # id
    <3>1. x \in DOMAIN current /\ current'[x] = current[x]
      BY <2>2
    <3>2. /\ IsRow(current[x]) /\ versions[<<x, current[x].version>>] = Content(current[x])
          /\ \A m \in 1 .. current[x].version : VersionFits(x, m)
      BY <3>1 DEF TablesInv
    <3>3. current[x].version \in 1 .. current[x].version
      BY <1>1, <3>1
    <3> QED
      BY <1>2, <1>3, <1>4, <3>1, <3>2, <3>3 DEF VersionFits
  <2> QED
    BY <2>1, <2>2
<1>7. DOMAIN versions' = UNION { {x} \X (1 .. current'[x].version) : x \in DOMAIN current' }
  <2>1. ASSUME NEW k \in DOMAIN versions
        PROVE  k \in UNION { {x} \X (1 .. current'[x].version) : x \in DOMAIN current' }
    <3>1. PICK x \in DOMAIN current : k \in {x} \X (1 .. current[x].version)
      BY DEF TablesInv
    <3>2. x \in DOMAIN current' /\ current'[x].version \in Nat /\ current[x].version <= current'[x].version
      BY <1>5, <3>1 DEF Kept
    <3>3. k \in {x} \X (1 .. current'[x].version)
      BY <1>1, <3>1, <3>2
    <3> QED
      BY <3>2, <3>3
  <2>2. <<id, n>> \in UNION { {x} \X (1 .. current'[x].version) : x \in DOMAIN current' }
    BY <1>1
  <2>3. ASSUME NEW x \in DOMAIN current', NEW k \in {x} \X (1 .. current'[x].version)
        PROVE  k \in DOMAIN versions'
    <3>1. PICK m \in 1 .. current'[x].version : k = <<x, m>>
      OBVIOUS
    <3> QED
      BY <1>6, <3>1
  <2> DEFINE all == UNION { {x} \X (1 .. current'[x].version) : x \in DOMAIN current' }
  <2>4. all \subseteq DOMAIN versions'
    BY <2>3
  <2>5. DOMAIN versions' \subseteq all
    <3> HIDE DEF all
    <3>1. \A k \in DOMAIN versions : k \in all
      BY <2>1 DEF all
    <3>2. <<id, n>> \in all
      BY <2>2 DEF all
    <3> QED
      BY <1>2, <3>1, <3>2
  <2> HIDE DEF all
  <2>6. DOMAIN versions' = all
    BY <2>4, <2>5
  <2> QED
    BY <2>6 DEF all
<1>8. DOMAIN current' \subseteq Ids
  BY DEF TablesInv
<1>9. TablesInv'
  <2>1. \A x \in DOMAIN current' : IsRow(current[x])' /\ Content(current[x])' = Content(current'[x])
    BY <1>6 DEF IsRow, Content
  <2>2. ASSUME NEW x \in DOMAIN current', NEW m \in 1 .. current'[x].version
        PROVE  VersionFits(x, m)'
    BY <1>6 DEF VersionFits
  <2>3. ASSUME NEW x \in DOMAIN current'
        PROVE  /\ IsRow(current[x])'
               /\ versions'[<<x, current'[x].version>>] = Content(current[x])'
               /\ \A m \in 1 .. current'[x].version : VersionFits(x, m)'
    BY <1>6, <2>1, <2>2
  <2> QED
    BY <1>7, <1>8, <2>3 DEF TablesInv
<1> QED
  BY <1>5, <1>9

\* The end of a request whose version was added: no other creation has its
\* identifier, none that inserts has its key.
LEMMA CommitEnds ==
  ASSUME StoreInv, NEW q \in DOMAIN requests, End(q), TablesInv', Kept,
         DOMAIN current' = DOMAIN current \cup {Id(q)}, IsCreate(q) \/ Id(q) \in DOMAIN current,
         \/ UNCHANGED idempotency
         \/ At(q, "inserting") /\ DOMAIN idempotency' = DOMAIN idempotency \cup {Op(q).key}
  PROVE  RequestsInv'
<1>1. ASSUME NEW p \in DOMAIN requests \ {q}
      PROVE  /\ IsCreate(p) => Id(p) \notin DOMAIN current'
             /\ At(p, "inserting") => Op(p).key \notin DOMAIN idempotency'
  <2>1. RequestFits(p) /\ RequestFits(q) /\ p # q
    BY DEF StoreInv, RequestsInv
  <2>2. IsCreate(p) => Id(p) \notin DOMAIN current /\ Id(p) # Id(q)
    BY <2>1 DEF StoreInv, RequestsInv, RequestFits
  <2>3. At(p, "inserting") => Op(p).key \notin DOMAIN idempotency'
    BY <2>1 DEF StoreInv, RequestsInv, RequestFits
  <2> QED
    BY <2>2, <2>3
<1> QED
  BY <1>1, RequestEnds DEF StoreInv

\* A record encrypted for a version decrypts to its inputs.
LEMMA DecryptedInputs ==
  ASSUME NEW id, NEW n, NEW inputs
  PROVE  Decrypted(id, n, Encrypted(id, n, inputs)) = {inputs}
<1>1. "current" \in {"current"}
  OBVIOUS
<1> QED
  BY <1>1, DecryptEncrypted DEF Decrypted, Encrypted

\* CreateCommit adds the first version of a credential and the row of its key.
LEMMA CreateCommitStep ==
  ASSUME StoreInv, NEW q, CreateCommit(q)
  PROVE  StoreInv'
<1> DEFINE id == Id(q)
<1> DEFINE op == Op(q)
<1> DEFINE row == FirstRow(id, op)
<1>0. PICK new : new = [op |-> op, id |-> id, version |-> 1]
  OBVIOUS
<1>1. /\ q \in DOMAIN requests /\ At(q, "inserting") /\ End(q)
      /\ current' = With(current, id, row)
      /\ versions' = With(versions, <<id, 1>>, Content(row))
      /\ idempotency' = With(idempotency, op.key, [request |-> op, id |-> id])
      /\ answers' = answers \cup {new}
  BY <1>0 DEF CreateCommit, At
<1>2. /\ RequestFits(q) /\ op \in Creates \cup Changes /\ id \in Ids
  BY <1>1, RequestFacts
<1>3. /\ IsCreate(q) /\ op.kind = "create" /\ id \notin DOMAIN current
      /\ op.key \notin DOMAIN idempotency
  BY <1>1, <1>2, RequestFacts DEF RequestFits
<1>4. op \in Creates /\ op.name \in Names /\ op.inputs \in Inputs
  BY <1>2, <1>3, OpFields
<1>5. /\ row.name = op.name /\ row.record = Encrypted(id, 1, op.inputs) /\ row.state = "active"
      /\ row.version = 1 /\ IsRow(row)
  BY <1>4 DEF FirstRow, IsRow, CredentialStates
<1>6. new.op = op /\ new.id = id /\ new.version = 1
  BY <1>0
<1> HIDE DEF row
<1>7. row.record \in RecordsOf(id, row.version)
  BY <1>4, <1>5 DEF RecordsOf
<1>8. /\ DOMAIN current' = DOMAIN current \cup {id} /\ current'[id] = row
      /\ \A x \in DOMAIN current \ {id} : current'[x] = current[x]
  BY <1>1 DEF With
<1>9. /\ DOMAIN idempotency' = DOMAIN idempotency \cup {op.key}
      /\ idempotency'[op.key] = [request |-> op, id |-> id]
      /\ \A k \in DOMAIN idempotency : idempotency'[k] = idempotency[k]
  BY <1>1, <1>3 DEF With
<1>10. TablesInv' /\ Kept
  <2>1. versions' = With(versions, <<id, row.version>>, Content(row))
    BY <1>1, <1>5
  <2>2. \A k \in DOMAIN idempotency : k \in DOMAIN idempotency' /\ idempotency'[k] = idempotency[k]
    BY <1>9
  <2>3. TablesInv /\ id \in Ids
    BY <1>2 DEF StoreInv
  <2> HIDE DEF id, op
  <2> QED
    BY <1>3, <1>5, <1>7, <1>8, <2>1, <2>2, <2>3, VersionAdded
<1>11. KeysInv'
  <2>1. /\ IsFiniteSet(DOMAIN current) /\ IsFiniteSet(DOMAIN idempotency)
        /\ Cardinality(DOMAIN current) = Cardinality(DOMAIN idempotency)
    BY DEF StoreInv, KeysInv
  <2>2. /\ IsFiniteSet(DOMAIN current') /\ Cardinality(DOMAIN current') = Cardinality(DOMAIN current) + 1
    BY <1>3, <1>8, <2>1, FS_AddElement
  <2>3. /\ IsFiniteSet(DOMAIN idempotency')
        /\ Cardinality(DOMAIN idempotency') = Cardinality(DOMAIN idempotency) + 1
    BY <1>3, <1>9, <2>1, FS_AddElement
  <2>4. ASSUME NEW k \in DOMAIN idempotency'
        PROVE  idempotency'[k].id \in DOMAIN current' /\ idempotency'[k].request \in Creates
    <3>1. CASE k = op.key
      BY <1>4, <1>8, <1>9, <3>1
    <3>2. CASE k \in DOMAIN idempotency
      BY <1>8, <1>9, <3>2 DEF StoreInv, KeysInv
    <3> QED
      BY <1>9, <3>1, <3>2
  <2> QED
    BY <2>1, <2>2, <2>3, <2>4 DEF KeysInv
<1>12. RequestsInv'
  BY <1>1, <1>3, <1>8, <1>9, <1>10, CommitEnds
<1>13. AnswerFits(new)'
  <2>1. /\ new.id \in DOMAIN current' /\ new.version \in 1 .. current'[new.id].version
    BY <1>5, <1>6, <1>8
  <2>2. /\ new.op.key \in DOMAIN idempotency' /\ idempotency'[new.op.key].request = new.op
        /\ idempotency'[new.op.key].id = new.id
    BY <1>6, <1>9
  <2> QED
    BY <1>2, <1>3, <1>6, <2>1, <2>2 DEF AnswerFits
<1>14. AnswersInv'
  BY <1>1, <1>10, <1>13, AnswersKept DEF StoreInv
<1> QED
  BY <1>10, <1>11, <1>12, <1>14 DEF StoreInv

\* The row Update writes: the newest version, changed as the request asks.
LEMMA NextRowFields ==
  ASSUME NEW q, NEW record, IsRow(read[q]), Op(q) \in Changes
  PROVE  LET next == NextRow(q, record)
         IN  /\ next = [name |-> next.name, record |-> next.record, state |-> next.state,
                        version |-> next.version]
             /\ next.version = read[q].version + 1 /\ next.record = record
             /\ next.name = IF Op(q).kind = "rename" THEN Op(q).name ELSE read[q].name
             /\ next.state = IF Op(q).kind = "retire" THEN "retired" ELSE read[q].state
<1> DEFINE a == [read[q] EXCEPT !.version = @ + 1, !.record = record]
<1> DEFINE base == [name |-> read[q].name, record |-> record, state |-> read[q].state,
                    version |-> read[q].version + 1]
<1>1. Op(q).kind \in {"replace", "rename", "retire"}
  BY StoreAssumption DEF Change
<1>2. a = base
  <2> DEFINE b == [read[q] EXCEPT !.version = @ + 1]
  <2>1. b = [name |-> read[q].name, record |-> read[q].record, state |-> read[q].state,
             version |-> read[q].version + 1]
    BY DEF IsRow
  <2>2. a = [b EXCEPT !.record = record]
    OBVIOUS
  <2> HIDE DEF b, a
  <2> QED
    BY <2>1, <2>2
<1>3. NextRow(q, record) = CASE Op(q).kind = "replace" -> base
                             [] Op(q).kind = "rename"  -> [base EXCEPT !.name = Op(q).name]
                             [] Op(q).kind = "retire"  -> [base EXCEPT !.state = "retired"]
  <2> HIDE DEF base
  <2> QED
    BY <1>2 DEF NextRow
<1>4. CASE Op(q).kind = "replace"
  BY <1>3, <1>4
<1>5. CASE Op(q).kind = "rename"
  BY <1>3, <1>5
<1>6. CASE Op(q).kind = "retire"
  BY <1>3, <1>6
<1> QED
  BY <1>1, <1>4, <1>5, <1>6

\* UpdateCommit finds the row it read to be the newest version, and writes the
\* next one from it.
LEMMA UpdateFacts ==
  ASSUME StoreInv, NEW q, At(q, "prepared"), VersionMatches(q), NEW record \in NextRecords(q)
  PROVE  /\ q \in DOMAIN requests /\ ~IsCreate(q) /\ Op(q) \in Changes /\ Op(q).credential = Id(q)
         /\ Op(q) \in Creates \cup Changes /\ Id(q) \in Ids /\ Id(q) \in DOMAIN current
         /\ current[Id(q)].version \in Nat \ {0} /\ Op(q).expected = current[Id(q)].version
         /\ current[Id(q)].state = "active"
         /\ LET next == NextRow(q, record) IN
            /\ IsRow(next) /\ next.version = current[Id(q)].version + 1
            /\ next.name = IF Op(q).kind = "rename" THEN Op(q).name ELSE current[Id(q)].name
            /\ next.state = IF Op(q).kind = "retire" THEN "retired" ELSE "active"
            /\ \E i, j \in Inputs :
                 /\ current[Id(q)].record = Encrypted(Id(q), current[Id(q)].version, i)
                 /\ next.record = Encrypted(Id(q), next.version, j)
                 /\ j = IF Op(q).kind = "replace" THEN Op(q).inputs ELSE i
<1> DEFINE row == current[Id(q)]
<1> DEFINE next == NextRow(q, record)
<1>1. q \in DOMAIN requests /\ RequestFits(q) /\ Op(q) \in Creates \cup Changes /\ Id(q) \in Ids
  BY RequestFacts DEF At
<1>2. ~IsCreate(q) /\ Op(q).kind # "create" /\ Op(q).credential = Id(q) /\ ReadFits(q)
  BY <1>1, RequestFacts DEF RequestFits
<1>3. /\ Op(q) \in Changes /\ Op(q).expected \in Nat \ {0}
      /\ Op(q).kind = "replace" => Op(q).inputs \in Inputs
      /\ Op(q).kind = "rename" => Op(q).name \in Names
  BY <1>1, <1>2, OpFields
<1>4. /\ IsRow(read[q]) /\ read[q].state = "active" /\ read[q].version = row.version
      /\ Id(q) \in DOMAIN current /\ Op(q).expected = row.version
      /\ versions[<<Id(q), row.version>>] = Content(read[q])
  BY <1>2 DEF ReadFits, VersionMatches
<1>5. /\ IsRow(row) /\ versions[<<Id(q), row.version>>] = Content(row)
      /\ \A n \in 1 .. row.version : VersionFits(Id(q), n)
  BY <1>4 DEF StoreInv, TablesInv
<1>6. read[q].name = row.name /\ read[q].record = row.record /\ read[q].state = row.state
  BY <1>4, <1>5 DEF Content
<1>7. row.version \in Nat \ {0}
  BY <1>5 DEF IsRow
<1>8. PICK i \in Inputs : row.record = Encrypted(Id(q), row.version, i)
  <2>1. VersionFits(Id(q), row.version)
    BY <1>5, <1>7
  <2>2. row.record \in RecordsOf(Id(q), row.version)
    BY <1>5, <2>1 DEF VersionFits, Content
  <2> QED
    BY <2>2 DEF RecordsOf
<1>9. Decrypted(Id(q), read[q].version, read[q].record) = {i}
  BY <1>4, <1>6, <1>8, DecryptedInputs
<1>10. PICK j \in Inputs : /\ record = Encrypted(Id(q), read[q].version + 1, j)
                           /\ j = IF Op(q).kind = "replace" THEN Op(q).inputs ELSE i
  <2>1. PICK j \in (IF Op(q).kind = "replace" THEN {Op(q).inputs}
                    ELSE Decrypted(Id(q), read[q].version, read[q].record)) :
          record = Encrypted(Id(q), read[q].version + 1, j)
    BY DEF NextRecords
  <2> QED
    BY <1>3, <1>9, <2>1
<1>11. /\ next = [name |-> next.name, record |-> next.record, state |-> next.state,
                  version |-> next.version]
       /\ next.version = read[q].version + 1 /\ next.record = record
       /\ next.name = IF Op(q).kind = "rename" THEN Op(q).name ELSE read[q].name
       /\ next.state = IF Op(q).kind = "retire" THEN "retired" ELSE read[q].state
  BY <1>3, <1>4, NextRowFields
<1> HIDE DEF next
<1>12. IsRow(next)
  BY <1>3, <1>4, <1>7, <1>11 DEF IsRow, CredentialStates
<1>13. \E x, y \in Inputs :
         /\ row.record = Encrypted(Id(q), row.version, x)
         /\ next.record = Encrypted(Id(q), next.version, y)
         /\ y = IF Op(q).kind = "replace" THEN Op(q).inputs ELSE x
  BY <1>8, <1>10, <1>11
<1>14. /\ IsRow(next) /\ next.version = row.version + 1
       /\ next.name = IF Op(q).kind = "rename" THEN Op(q).name ELSE row.name
       /\ next.state = IF Op(q).kind = "retire" THEN "retired" ELSE "active"
  BY <1>4, <1>6, <1>11, <1>12
<1> QED
  BY <1>1, <1>2, <1>3, <1>4, <1>6, <1>7, <1>13, <1>14 DEF next

\* UpdateCommit adds a version and keeps the invariant.
LEMMA UpdateCommitStep ==
  ASSUME StoreInv, NEW q, UpdateCommit(q)
  PROVE  StoreInv'
<1> DEFINE id == Id(q)
<1> DEFINE op == Op(q)
<1>1. PICK record \in NextRecords(q) :
        LET row == NextRow(q, record) IN
        /\ current' = [current EXCEPT ![id] = row]
        /\ versions' = With(versions, <<id, row.version>>, Content(row))
        /\ answers' = answers \cup {[op |-> op, id |-> id, version |-> row.version]}
  BY DEF UpdateCommit
<1>2. At(q, "prepared") /\ VersionMatches(q) /\ End(q) /\ UNCHANGED idempotency
  BY DEF UpdateCommit
<1> DEFINE row == NextRow(q, record)
<1>3. PICK new : new = [op |-> op, id |-> id, version |-> row.version]
  OBVIOUS
<1>4. /\ q \in DOMAIN requests /\ ~IsCreate(q) /\ op \in Creates \cup Changes
      /\ id \in Ids /\ id \in DOMAIN current /\ op.kind # "create"
      /\ current[id].version \in Nat \ {0} /\ op.expected = current[id].version
      /\ IsRow(row) /\ row.version = current[id].version + 1
      /\ op.kind = "rename" => row.name = op.name
      /\ op.kind = "retire" => row.state = "retired"
      /\ \E j \in Inputs : /\ row.record = Encrypted(id, row.version, j)
                           /\ op.kind = "replace" => j = op.inputs
  BY <1>2, UpdateFacts, RequestFacts
<1>5. new.op = op /\ new.id = id /\ new.version = row.version
  BY <1>3
<1>6. answers' = answers \cup {new}
  BY <1>1, <1>3
<1>7. current' = [current EXCEPT ![id] = row] /\ versions' = With(versions, <<id, row.version>>, Content(row))
  BY <1>1
<1> HIDE DEF row, id, op
<1>8. row.record \in RecordsOf(id, row.version)
  BY <1>4 DEF RecordsOf
<1>9. /\ DOMAIN current' = DOMAIN current \cup {id} /\ current'[id] = row
      /\ \A x \in DOMAIN current \ {id} : current'[x] = current[x]
  BY <1>4, <1>7
<1>10. TablesInv' /\ Kept
  <2>1. \A k \in DOMAIN idempotency : k \in DOMAIN idempotency' /\ idempotency'[k] = idempotency[k]
    BY <1>2
  <2>2. TablesInv
    BY DEF StoreInv
  <2> QED
    BY <1>4, <1>7, <1>8, <1>9, <2>1, <2>2, VersionAdded
<1>11. KeysInv'
  <2>1. DOMAIN current' = DOMAIN current
    BY <1>4, <1>9
  <2> QED
    BY <1>2, <2>1 DEF StoreInv, KeysInv
<1>12. RequestsInv'
  BY <1>2, <1>4, <1>9, <1>10, CommitEnds DEF id
<1>13. AnswerFits(new)'
  <2>1. /\ new.id \in DOMAIN current' /\ new.version \in 1 .. current'[new.id].version
    BY <1>4, <1>5, <1>9
  <2>2. versions'[<<new.id, new.version>>] = Content(row)
    BY <1>5, <1>7 DEF With
  <2>3. Content(row).name = row.name /\ Content(row).record = row.record /\ Content(row).state = row.state
    BY DEF Content
  <2> QED
    BY <1>4, <1>5, <2>1, <2>2, <2>3 DEF AnswerFits
<1>14. AnswersInv'
  BY <1>6, <1>10, <1>13, AnswersKept DEF StoreInv
<1> QED
  BY <1>10, <1>11, <1>12, <1>14 DEF StoreInv

\* Every step keeps the invariant.
LEMMA StoreStep ==
  ASSUME StoreInv, [Next]_vars
  PROVE  StoreInv'
<1>1. CASE UNCHANGED vars
  <2>1. UNCHANGED <<current, versions, idempotency, requests, read, answers>>
    BY <1>1 DEF vars
  <2>2. TablesInv'
    BY <2>1 DEF StoreInv, TablesInv, IsRow, VersionFits
  <2>3. KeysInv'
    BY <2>1 DEF StoreInv, KeysInv
  <2>4. RequestsInv'
    BY <2>1 DEF StoreInv, RequestsInv, RequestFits, ReadFits, At, Op, Id, IsCreate
  <2>5. AnswersInv'
    BY <2>1 DEF StoreInv, AnswersInv, AnswerFits
  <2> QED
    BY <2>2, <2>3, <2>4, <2>5 DEF StoreInv
<1>2. ASSUME NEW q \in Requests, NEW op \in Creates \cup Changes, NEW id \in Ids, Issue(q, op, id)
      PROVE  StoreInv'
  BY <1>2, IssueStep
<1>3. ASSUME NEW q, Abort(q) \/ Missing(q) \/ Refused(q) \/ UpdateConflict(q)
      PROVE  StoreInv'
  <2>1. q \in DOMAIN requests /\ Fail(q)
    BY <1>3 DEF Abort, Missing, Refused, UpdateConflict, Reading, At
  <2> QED
    BY <2>1, FailStep
<1> QED
  BY <1>1, <1>2, <1>3, CreateReplayStep, CreateMissStep, CreateCommitStep, NoChangeStep, PrepareStep,
     UpdateCommitStep DEF Next, Step

\* The invariant holds of every behaviour.
THEOREM StoreInvariant == Spec => []StoreInv
<1>1. Init => StoreInv
  <2> SUFFICES ASSUME Init PROVE StoreInv
    OBVIOUS
  <2>1. /\ DOMAIN current = {} /\ DOMAIN versions = {} /\ DOMAIN idempotency = {}
        /\ DOMAIN requests = {} /\ DOMAIN read = {} /\ answers = {}
    BY DEF Init, NoRows
  <2>2. TablesInv
    BY <2>1 DEF TablesInv
  <2>3. KeysInv
    BY <2>1, FS_EmptySet DEF KeysInv
  <2> QED
    BY <2>1, <2>2, <2>3 DEF StoreInv, RequestsInv, AnswersInv
<1>2. StoreInv /\ [Next]_vars => StoreInv'
  BY StoreStep
<1> QED
  BY <1>1, <1>2, PTL DEF Spec

-----------------------------------------------------------------------------
(* The properties, for every value of the constants.                       *)

\* Every credential has its versions up to the current one, of which the
\* newest is the current row (Create, Update).
THEOREM TypeCorrect == Spec => []TypeOK
<1>1. StoreInv => TypeOK
  BY DEF StoreInv, TablesInv, KeysInv, RequestsInv, TypeOK
<1> QED
  BY <1>1, StoreInvariant, PTL

\* A key creates one credential, every success names it, and a request with
\* other content never succeeds (Create, credential_idempotency).
THEOREM CreatedOnce == Spec => []CreateOnce
<1>1. StoreInv => CreateOnce
  BY DEF StoreInv, KeysInv, AnswersInv, AnswerFits, CreateOnce
<1> QED
  BY <1>1, StoreInvariant, PTL

\* An acknowledged change is in the version its answer names, for ever, and
\* is readable there (Update).
THEOREM ChangesKept == Spec => []ChangesNotLost
<1>1. StoreInv => ChangesNotLost
  <2> SUFFICES ASSUME StoreInv, NEW a \in answers
               PROVE  LET made == versions[<<a.id, a.version>>] IN
                      /\ a.op.kind = "replace" =>
                           Decrypted(a.id, a.version, made.record) = {a.op.inputs}
                      /\ a.op.kind = "rename" => made.name = a.op.name
                      /\ a.op.kind = "retire" => made.state = "retired"
                      /\ a.op.kind = "replace" => a.version = a.op.expected + 1
    BY DEF ChangesNotLost
  <2>1. AnswerFits(a)
    BY DEF StoreInv, AnswersInv
  <2>2. Decrypted(a.id, a.version, Encrypted(a.id, a.version, a.op.inputs)) = {a.op.inputs}
    BY DecryptedInputs
  <2> QED
    BY <2>1, <2>2 DEF AnswerFits
<1> QED
  BY <1>1, StoreInvariant, PTL

-----------------------------------------------------------------------------
(* The history of versions in the clear.                                   *)

Past(id) == [n \in 1 .. current[id].version |-> Readable(id, n)]

History == [id \in DOMAIN current |-> Past(id)]

\* Readable of a version with this content.
Clear(id, n, made) ==
  LET inputs == Decrypted(id, n, made.record)
  IN [name |-> made.name, state |-> made.state,
      inputs |-> IF inputs = {} THEN "unreadable" ELSE CHOOSE i \in inputs : TRUE]

\* What a stored version reads as depends on its content alone.
LEMMA ReadableContent ==
  ASSUME NEW id, NEW n
  PROVE  /\ Readable(id, n) = Clear(id, n, versions[<<id, n>>])
         /\ Readable(id, n)' = Clear(id, n, versions'[<<id, n>>])
  BY DEF Readable, Clear

\* The record of a version reads as the inputs it is the envelope of.
LEMMA ClearFields ==
  ASSUME NEW id, NEW n, NEW inputs, NEW made, made.record = Encrypted(id, n, inputs)
  PROVE  Clear(id, n, made) = [name |-> made.name, state |-> made.state, inputs |-> inputs]
<1>1. Decrypted(id, n, made.record) = {inputs}
  BY DecryptedInputs
<1>2. (CHOOSE i \in {inputs} : TRUE) = inputs
  OBVIOUS
<1> QED
  BY <1>1, <1>2 DEF Clear

\* A version that is added to the table (Create, Update) leaves the others
\* readable as they were.
LEMMA HistoryKept ==
  ASSUME TablesInv, NEW id, NEW m, NEW content, versions' = With(versions, <<id, m>>, content),
         <<id, m>> \notin DOMAIN versions,
         NEW x \in DOMAIN current, NEW n \in 1 .. current[x].version
  PROVE  Readable(x, n)' = Readable(x, n)
<1>1. <<x, n>> \in DOMAIN versions
  BY VersionKeys
<1>2. versions'[<<x, n>>] = versions[<<x, n>>]
  BY <1>1 DEF With
<1> QED
  BY <1>2, ReadableContent

\* Steps that write no version, those of a request that reads, prepares, fails
\* or is answered from the tables, leave the history alone.
LEMMA QuietHistory ==
  ASSUME UNCHANGED <<current, versions>>
  PROVE  History' = History
  BY DEF History, Past, Readable

\* CreateCommit starts a history.
LEMMA CreateHistory ==
  ASSUME StoreInv, NEW q, CreateCommit(q), NEW id, id = Id(q), NEW op, op = Op(q)
  PROVE  /\ id \in Ids /\ op \in Creates
         /\ id \notin DOMAIN History
         /\ History' = [x \in DOMAIN History \cup {id} |->
                          IF x = id
                          THEN <<[name |-> op.name, inputs |-> op.inputs, state |-> "active"]>>
                          ELSE History[x]]
<1>0. id = Id(q) /\ op = Op(q)
  OBVIOUS
<1> DEFINE row == FirstRow(id, op)
<1> DEFINE first == [name |-> op.name, inputs |-> op.inputs, state |-> "active"]
<1>1. /\ q \in DOMAIN requests /\ At(q, "inserting")
      /\ current' = With(current, id, row)
      /\ versions' = With(versions, <<id, 1>>, Content(row))
  BY <1>0 DEF CreateCommit, At
<1>2. /\ RequestFits(q) /\ op \in Creates \cup Changes /\ id \in Ids
  BY <1>0, <1>1, RequestFacts
<1>3. /\ op.kind = "create" /\ id \notin DOMAIN current
  BY <1>0, <1>1, <1>2, RequestFacts DEF RequestFits
<1>4. op \in Creates
  BY <1>2, <1>3, OpFields
<1>5. <<id, 1>> \notin DOMAIN versions
  BY <1>3, VersionKeys DEF StoreInv
<1>6. /\ DOMAIN current' = DOMAIN current \cup {id} /\ current'[id] = row
      /\ \A x \in DOMAIN current : current'[x] = current[x]
      /\ versions'[<<id, 1>>] = Content(row)
  BY <1>1, <1>3 DEF With
<1>7. /\ row.version = 1
      /\ Content(row) = [name |-> op.name, record |-> Encrypted(id, 1, op.inputs), state |-> "active"]
  BY DEF FirstRow, Content
<1> HIDE DEF row
<1>8. Past(id)' = <<first>>
  <2>1. Clear(id, 1, Content(row)) = first
    BY <1>7, ClearFields
  <2>2. Readable(id, 1)' = first
    BY <1>6, <2>1, ReadableContent
  <2>3. Past(id)' = [n \in 1 .. 1 |-> Readable(id, n)']
    BY <1>6, <1>7 DEF Past
  <2>4. Past(id)' = [n \in 1 .. 1 |-> first]
    BY <2>2, <2>3
  <2> QED
    BY <2>4
<1>9. ASSUME NEW x \in DOMAIN current PROVE Past(x)' = Past(x)
  <2>1. ASSUME NEW n \in 1 .. current[x].version PROVE Readable(x, n)' = Readable(x, n)
    BY <1>1, <1>5, <2>1, HistoryKept DEF StoreInv
  <2> QED
    BY <1>6, <2>1 DEF Past
<1>10. History' = [x \in DOMAIN current \cup {id} |-> IF x = id THEN <<first>> ELSE Past(x)]
  <2>1. History' = [x \in DOMAIN current' |-> Past(x)']
    BY DEF History
  <2>2. \A x \in DOMAIN current' : Past(x)' = IF x = id THEN <<first>> ELSE Past(x)
    BY <1>6, <1>8, <1>9
  <2> QED
    BY <1>6, <2>1, <2>2
<1>11. DOMAIN History = DOMAIN current /\ \A x \in DOMAIN current : History[x] = Past(x)
  BY DEF History
<1> QED
  BY <1>0, <1>2, <1>3, <1>4, <1>10, <1>11

\* A function on 1 .. n is a sequence, and one more value is appended to it.
LEMMA AppendTo ==
  ASSUME NEW n \in Nat, NEW f, f = [i \in 1 .. n |-> f[i]], NEW e
  PROVE  /\ Len(f) = n
         /\ Append(f, e) = [i \in 1 .. n + 1 |-> IF i = n + 1 THEN e ELSE f[i]]
<1> DEFINE S == {f[i] : i \in 1 .. n} \cup {e}
<1>1. f \in Seq(S) /\ e \in S
  BY DEF Seq
<1>2. Len(f) = n
  BY <1>1
<1>3. /\ Append(f, e) \in Seq(S) /\ Len(Append(f, e)) = n + 1
      /\ \A i \in 1 .. n : Append(f, e)[i] = f[i]
      /\ Append(f, e)[n + 1] = e
  BY <1>1, <1>2, AppendProperties
<1>4. DOMAIN Append(f, e) = 1 .. n + 1 /\ Append(f, e) = [i \in DOMAIN Append(f, e) |-> Append(f, e)[i]]
  BY <1>3
<1> QED
  BY <1>2, <1>3, <1>4

\* UpdateCommit appends to a history what the request makes of its newest
\* version.
LEMMA UpdateHistory ==
  ASSUME StoreInv, NEW q, UpdateCommit(q)
  PROVE  LET op == Op(q)
             id == op.credential
             newest == History[id][Len(History[id])]
         IN /\ op \in Changes
            /\ id \in DOMAIN History
            /\ newest.state = "active"
            /\ Len(History[id]) = op.expected
            /\ History' = [History EXCEPT ![id] =
                             Append(History[id], [name |-> IF op.kind = "rename" THEN op.name ELSE newest.name,
                                                  state |-> IF op.kind = "retire" THEN "retired" ELSE newest.state,
                                                  inputs |-> IF op.kind = "replace" THEN op.inputs ELSE newest.inputs])]
            /\ newest = [name |-> newest.name, state |-> newest.state, inputs |-> newest.inputs]
<1>0. PICK id, op : id = Id(q) /\ op = Op(q)
  OBVIOUS
<1>1. PICK record \in NextRecords(q) :
        /\ current' = [current EXCEPT ![id] = NextRow(q, record)]
        /\ versions' = With(versions, <<id, NextRow(q, record).version>>, Content(NextRow(q, record)))
  BY <1>0 DEF UpdateCommit
<1>2. At(q, "prepared") /\ VersionMatches(q)
  BY DEF UpdateCommit
<1>3. PICK row : row = NextRow(q, record)
  OBVIOUS
<1>4. PICK last : last = current[id].version
  OBVIOUS
<1>5. /\ op \in Changes /\ op.credential = id /\ id \in DOMAIN current
      /\ last \in Nat \ {0} /\ op.expected = last /\ current[id].state = "active"
      /\ row.version = last + 1
      /\ row.name = IF op.kind = "rename" THEN op.name ELSE current[id].name
      /\ row.state = IF op.kind = "retire" THEN "retired" ELSE "active"
      /\ \E i, j \in Inputs :
           /\ current[id].record = Encrypted(id, last, i)
           /\ row.record = Encrypted(id, last + 1, j)
           /\ j = IF op.kind = "replace" THEN op.inputs ELSE i
  <2>1. /\ op \in Changes /\ op.credential = id /\ id \in DOMAIN current
        /\ last \in Nat \ {0} /\ op.expected = last /\ current[id].state = "active"
    BY <1>0, <1>2, <1>4, UpdateFacts
  <2>2. /\ row.version = last + 1
        /\ row.name = IF op.kind = "rename" THEN op.name ELSE current[id].name
        /\ row.state = IF op.kind = "retire" THEN "retired" ELSE "active"
        /\ \E i, j \in Inputs :
             /\ current[id].record = Encrypted(id, last, i)
             /\ row.record = Encrypted(id, row.version, j)
             /\ j = IF op.kind = "replace" THEN op.inputs ELSE i
    BY <1>0, <1>2, <1>3, <1>4, UpdateFacts
  <2> QED
    BY <2>1, <2>2
<1>6. PICK i \in Inputs, j \in Inputs :
        /\ current[id].record = Encrypted(id, last, i)
        /\ row.record = Encrypted(id, last + 1, j)
        /\ j = IF op.kind = "replace" THEN op.inputs ELSE i
  BY <1>5
<1>7. /\ current' = [current EXCEPT ![id] = row]
      /\ versions' = With(versions, <<id, last + 1>>, Content(row))
  BY <1>1, <1>3, <1>5
<1>8. /\ DOMAIN current' = DOMAIN current /\ current'[id] = row
      /\ \A x \in DOMAIN current \ {id} : current'[x] = current[x]
      /\ versions'[<<id, last + 1>>] = Content(row)
  BY <1>5, <1>7 DEF With
<1>9. <<id, last + 1>> \notin DOMAIN versions
  BY <1>4, <1>5, VersionKeys DEF StoreInv
<1>10. \A x \in DOMAIN current : \A n \in 1 .. current[x].version : Readable(x, n)' = Readable(x, n)
  BY <1>7, <1>9, HistoryKept DEF StoreInv
<1> DEFINE newest == [name |-> current[id].name, state |-> "active", inputs |-> i]
<1> DEFINE added == [name |-> row.name, state |-> row.state, inputs |-> j]
<1>11. Readable(id, last) = newest
  <2>1. versions[<<id, last>>] = Content(current[id])
    BY <1>4, <1>5 DEF StoreInv, TablesInv
  <2>2. /\ Content(current[id]).name = current[id].name /\ Content(current[id]).state = "active"
        /\ Content(current[id]).record = Encrypted(id, last, i)
    BY <1>5, <1>6 DEF Content
  <2> QED
    BY <2>1, <2>2, ClearFields, ReadableContent
<1>12. Readable(id, last + 1)' = added
  <2>1. /\ Content(row).name = row.name /\ Content(row).state = row.state
        /\ Content(row).record = Encrypted(id, last + 1, j)
    BY <1>6 DEF Content
  <2> QED
    BY <1>8, <2>1, ClearFields, ReadableContent
<1> HIDE DEF newest, added
<1>13. /\ Past(id) = [n \in 1 .. last |-> Past(id)[n]] /\ Past(id)[last] = newest
       /\ \A n \in 1 .. last : Past(id)[n] = Readable(id, n)
  BY <1>4, <1>5, <1>11 DEF Past
<1>14. /\ Len(Past(id)) = last
       /\ Append(Past(id), added) = [n \in 1 .. last + 1 |-> IF n = last + 1 THEN added ELSE Past(id)[n]]
  BY <1>5, <1>13, AppendTo
<1>15. Past(id)' = Append(Past(id), added)
  <2>1. Past(id)' = [n \in 1 .. last + 1 |-> Readable(id, n)']
    BY <1>5, <1>8 DEF Past
  <2>2. ASSUME NEW n \in 1 .. last + 1
        PROVE  Readable(id, n)' = IF n = last + 1 THEN added ELSE Past(id)[n]
    <3>1. CASE n = last + 1
      BY <1>12, <3>1
    <3>2. CASE n \in 1 .. last
      BY <1>4, <1>5, <1>10, <1>13, <3>2
    <3> QED
      BY <1>5, <3>1, <3>2
  <2> QED
    BY <1>14, <2>1, <2>2
<1>16. ASSUME NEW x \in DOMAIN current \ {id} PROVE Past(x)' = Past(x)
  BY <1>8, <1>10, <1>16 DEF Past
<1>17. DOMAIN History = DOMAIN current /\ \A x \in DOMAIN current : History[x] = Past(x)
  BY DEF History
<1>18. History' = [History EXCEPT ![id] = Append(History[id], added)]
  <2>1. History' = [x \in DOMAIN current |-> Past(x)']
    BY <1>8 DEF History
  <2>2. History = [x \in DOMAIN current |-> Past(x)]
    BY DEF History
  <2>3. \A x \in DOMAIN current : Past(x)' = IF x = id THEN Append(History[id], added) ELSE Past(x)
    BY <1>5, <1>15, <1>16, <1>17
  <2> QED
    BY <1>5, <2>1, <2>2, <2>3
<1>19. /\ History[id][Len(History[id])] = newest /\ Len(History[id]) = last
  BY <1>5, <1>13, <1>14, <1>17
<1>20. /\ newest.name = current[id].name /\ newest.state = "active" /\ newest.inputs = i
       /\ newest = [name |-> newest.name, state |-> newest.state, inputs |-> newest.inputs]
  BY DEF newest
<1>21. added = [name |-> IF op.kind = "rename" THEN op.name ELSE newest.name,
                state |-> IF op.kind = "retire" THEN "retired" ELSE newest.state,
                inputs |-> IF op.kind = "replace" THEN op.inputs ELSE newest.inputs]
  BY <1>5, <1>6, <1>20 DEF added
<1> QED
  BY <1>0, <1>5, <1>17, <1>18, <1>19, <1>20, <1>21

\* Every step is a step of the register or leaves its history alone: the
\* commit of Create starts a history, the commit of Update adds to one.
LEMMA RegisterStep ==
  ASSUME StoreInv, [Next]_vars
  PROVE  Register!Next \/ History' = History
<1>1. CASE UNCHANGED vars
  BY <1>1, QuietHistory DEF vars
<1>2. ASSUME NEW q, CreateCommit(q)
      PROVE  Register!Next
  <2>1. PICK id, op : id = Id(q) /\ op = Op(q)
    OBVIOUS
  <2>2. /\ id \in Ids /\ op \in Creates /\ id \notin DOMAIN History
        /\ History' = [x \in DOMAIN History \cup {id} |->
                         IF x = id THEN <<Register!First(op)>> ELSE History[x]]
    BY <1>2, <2>1, CreateHistory DEF Register!First
  <2>3. Register!Create(id, op)
    BY <2>2 DEF Register!Create, History, Past
  <2> QED
    BY <2>2, <2>3 DEF Register!Next
<1>3. ASSUME NEW q, UpdateCommit(q)
      PROVE  Register!Next
  <2>0. PICK op : op = Op(q)
    OBVIOUS
  <2> DEFINE id == op.credential
  <2> DEFINE newest == History[id][Len(History[id])]
  <2> DEFINE added == [name |-> IF op.kind = "rename" THEN op.name ELSE newest.name,
                       state |-> IF op.kind = "retire" THEN "retired" ELSE newest.state,
                       inputs |-> IF op.kind = "replace" THEN op.inputs ELSE newest.inputs]
  <2>1. /\ op \in Changes /\ id \in DOMAIN History /\ newest.state = "active"
        /\ Len(History[id]) = op.expected
        /\ History' = [History EXCEPT ![id] = Append(History[id], added)]
        /\ newest = [name |-> newest.name, state |-> newest.state, inputs |-> newest.inputs]
    BY <1>3, <2>0, UpdateHistory
  <2>2. op.kind \in {"replace", "rename", "retire"}
    BY <2>1, StoreAssumption DEF Change
  <2>3. Register!Newest(id) = newest
    BY DEF Register!Newest, History, Past
  <2> HIDE DEF newest
  <2>4. Register!Applied(op, newest) = added
    <3>1. CASE op.kind = "replace"
      BY <2>1, <3>1 DEF Register!Applied
    <3>2. CASE op.kind = "rename"
      BY <2>1, <3>2 DEF Register!Applied
    <3>3. CASE op.kind = "retire"
      BY <2>1, <3>3 DEF Register!Applied
    <3> QED
      BY <2>2, <3>1, <3>2, <3>3
  <2> HIDE DEF added
  <2>5. History' = [History EXCEPT ![op.credential] = Append(@, Register!Applied(op, Register!Newest(op.credential)))]
    BY <2>1, <2>3, <2>4
  <2>6. Register!Change(op)
    BY <2>1, <2>3, <2>5 DEF Register!Change, History, Past
  <2> QED
    BY <2>1, <2>6 DEF Register!Next
<1>4. ASSUME NEW q, NEW op, NEW id, Issue(q, op, id)
      PROVE  History' = History
  BY <1>4, QuietHistory DEF Issue
<1>5. ASSUME NEW q, Abort(q) \/ CreateReplay(q) \/ CreateMiss(q) \/ Missing(q) \/ NoChange(q)
                    \/ Refused(q) \/ Prepare(q) \/ UpdateConflict(q)
      PROVE  History' = History
  BY <1>5, QuietHistory DEF Abort, CreateReplay, CreateMiss, Missing, NoChange, Refused, Prepare,
     UpdateConflict, Fail, Answer
<1> QED
  BY <1>1, <1>2, <1>3, <1>4, <1>5 DEF Next, Step

\* The read, prepare and compare-and-swap of concurrent requests, with what
\* they decrypt and encrypt anew, implements one step on an append-only
\* history of versions (CredentialRegister).
THEOREM RegisterRefinement == Spec => ImplementsRegister
<1>1. Init => Register!Init
  BY DEF Init, Register!Init, NoRows
<1>2. StoreInv /\ [Next]_vars => Register!Next \/ History' = History
  BY RegisterStep
<1>3. Register!Next \/ History' = History =>
        Register!Next \/ UNCHANGED [id \in DOMAIN current |->
                                      [n \in 1 .. current[id].version |-> Readable(id, n)]]
  BY DEF History, Past
<1> QED
  BY <1>1, <1>2, <1>3, StoreInvariant, PTL DEF Spec, ImplementsRegister, Register!Spec

=============================================================================
