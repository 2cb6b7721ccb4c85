-------------------------- MODULE CredentialStore --------------------------
(***************************************************************************)
(* The credential API: credential/manager.go over credential/postgres.go,  *)
(* several requests at a time.                                             *)
(*                                                                         *)
(* Create looks up its idempotency key and inserts in one transaction that *)
(* holds an advisory lock on the key.  Replace, rename (UpdateMetadata)    *)
(* and retire read the credential in one statement (Read), prepare the     *)
(* next version outside any transaction, and write it with                 *)
(* UPDATE ... WHERE version = expected in another (Update).  Tables:       *)
(* credentials (current row), credential_versions and                      *)
(* credential_idempotency.  The organization is folded into the key and    *)
(* the identifier.  A version holds the envelope of its inputs, bound to   *)
(* the identifier and the version number, so rename and retire decrypt the *)
(* record they read and encrypt its inputs anew for the next version; key  *)
(* rotation is KeyRotation.  The name and the state a version had are kept *)
(* with it as a record of history.                                         *)
(***************************************************************************)
EXTENDS Integers, FiniteSets, Envelope

CONSTANTS
  Ids,        \* credential identifiers newID may return
  Keys,       \* (organization, idempotency key) pairs
  Names, Inputs,
  Creates,    \* the create requests that may be sent
  Changes,    \* the replace, rename and retire requests that may be sent
  Requests    \* request slots

Create == [kind : {"create"}, key : Keys, name : Names, inputs : Inputs]

Change ==
  [kind : {"replace"}, credential : Ids, expected : Nat \ {0}, inputs : Inputs]
    \cup [kind : {"rename"}, credential : Ids, expected : Nat \ {0}, name : Names]
    \cup [kind : {"retire"}, credential : Ids, expected : Nat \ {0}]

\* Every request carries a nonzero expected version (ErrInvalidInput).
ASSUME StoreAssumption == Creates \subseteq Create /\ Changes \subseteq Change

VARIABLES
  current,      \* table credentials: id -> [name, record, state, version]
  versions,     \* table credential_versions: <<id, version>> -> content
  idempotency,  \* table credential_idempotency: key -> [request, response]
  requests,     \* requests in flight: slot -> [phase, op, id]
  read,         \* what Get returned: slot -> row
  answers       \* successful answers: [op, id, version]

vars == <<current, versions, idempotency, requests, read, answers>>

NoRows == [x \in {} |-> 0]

With(table, k, row) ==
  [x \in DOMAIN table \cup {k} |-> IF x = k THEN row ELSE table[x]]

Without(table, k) == [x \in DOMAIN table \ {k} |-> table[x]]

Content(row) == [name |-> row.name, record |-> row.record, state |-> row.state]

Init ==
  /\ current = NoRows
  /\ versions = NoRows
  /\ idempotency = NoRows
  /\ requests = NoRows
  /\ read = NoRows
  /\ answers = {}

-----------------------------------------------------------------------------
At(q, phase) == q \in DOMAIN requests /\ requests[q].phase = phase
Op(q) == requests[q].op
Id(q) == requests[q].id
IsCreate(q) == Op(q).kind = "create"

End(q) == requests' = Without(requests, q) /\ read' = Without(read, q)

\* An error answer, or a request lost in a crash: nothing is written.
Fail(q) == End(q) /\ UNCHANGED <<current, versions, idempotency, answers>>

\* A successful answer that writes nothing.
Answer(q, id, version) ==
  /\ answers' = answers \cup {[op |-> Op(q), id |-> id, version |-> version]}
  /\ End(q)
  /\ UNCHANGED <<current, versions, idempotency>>

Goto(q, phase) == requests' = [requests EXCEPT ![q].phase = phase]

\* Identifiers of stored credentials and of creations in flight.
Taken == DOMAIN current \cup {Id(q) : q \in {p \in DOMAIN requests : IsCreate(p)}}

\* CreateContext generates the identifier before it looks at the key.
Issue(q, op, id) ==
  /\ q \notin DOMAIN requests
  /\ IF op.kind = "create" THEN id \notin Taken ELSE id = op.credential
  /\ requests' = With(requests, q, [phase |-> "issued", op |-> op, id |-> id])
  /\ UNCHANGED <<current, versions, idempotency, read, answers>>

Abort(q) ==
  /\ q \in DOMAIN requests
  /\ Fail(q)

-----------------------------------------------------------------------------
(* Create.                                                                 *)

KeyFree(q) ==
  \A p \in DOMAIN requests \ {q} :
    ~(At(p, "inserting") /\ Op(p).key = Op(q).key)

\* Mutant: the digest of the stored request is not compared.
AnyRequest(stored, op) == TRUE

SameRequest(stored, op) == stored.request = op

\* The key is known: the stored response, or ErrIdempotencyConflict.
CreateReplay(q) ==
  /\ At(q, "issued") /\ IsCreate(q)
  /\ KeyFree(q)
  /\ Op(q).key \in DOMAIN idempotency
  /\ LET stored == idempotency[Op(q).key] IN
     \/ SameRequest(stored, Op(q)) /\ Answer(q, stored.id, 1)
     \/ ~SameRequest(stored, Op(q)) /\ Fail(q)

CreateMiss(q) ==
  /\ At(q, "issued") /\ IsCreate(q)
  /\ KeyFree(q)
  /\ Op(q).key \notin DOMAIN idempotency
  /\ Goto(q, "inserting")
  /\ UNCHANGED <<current, versions, idempotency, read, answers>>

\* Manager.encrypt: the inputs for one version of one credential.
Encrypted(id, version, inputs) ==
  Encrypt(inputs, <<id, version>>, "current", <<id, version>>)

\* The inputs of a version, if its record authenticates for that version.
Decrypted(id, version, record) == Decrypt(record, <<id, version>>, {"current"})

FirstRow(id, op) ==
  [name |-> op.name, record |-> Encrypted(id, 1, op.inputs), state |-> "active", version |-> 1]

CreateCommit(q) ==
  /\ At(q, "inserting")
  /\ current' = With(current, Id(q), FirstRow(Id(q), Op(q)))
  /\ versions' = With(versions, <<Id(q), 1>>, Content(FirstRow(Id(q), Op(q))))
  /\ idempotency' = With(idempotency, Op(q).key, [request |-> Op(q), id |-> Id(q)])
  /\ answers' = answers \cup {[op |-> Op(q), id |-> Id(q), version |-> 1]}
  /\ End(q)

-----------------------------------------------------------------------------
(* ReplaceInputs, UpdateMetadata and Retire.                               *)

Missing(q) ==
  /\ At(q, "issued") /\ ~IsCreate(q)
  /\ Id(q) \notin DOMAIN current
  /\ Fail(q)

Reading(q) == At(q, "issued") /\ ~IsCreate(q) /\ Id(q) \in DOMAIN current

Retired(q) == current[Id(q)].state = "retired"

\* A replay of a retirement, whatever version it expects, and a rename to the
\* name the credential has are answered without a new version.
NoChange(q) ==
  /\ Reading(q)
  /\ \/ Op(q).kind = "retire" /\ Retired(q)
     \/ /\ Op(q).kind = "rename"
        /\ ~Retired(q)
        /\ Op(q).expected = current[Id(q)].version
        /\ Op(q).name = current[Id(q)].name
  /\ Answer(q, Id(q), current[Id(q)].version)

\* ErrVersionConflict, ErrCredentialNotActive.
Refused(q) ==
  /\ Reading(q)
  /\ \/ ~Retired(q) /\ Op(q).expected # current[Id(q)].version
     \/ Op(q).kind # "retire" /\ Retired(q)
  /\ Fail(q)

\* The row is kept while the next version is built and encrypted.
Prepare(q) ==
  /\ Reading(q)
  /\ ~Retired(q)
  /\ Op(q).expected = current[Id(q)].version
  /\ Op(q).kind = "rename" => Op(q).name # current[Id(q)].name
  /\ read' = With(read, q, current[Id(q)])
  /\ Goto(q, "prepared")
  /\ UNCHANGED <<current, versions, idempotency, answers>>

\* Mutant: the UPDATE does not compare the version.
AnyVersion(q) == TRUE

\* UPDATE ... WHERE version = expected touches the row.
VersionMatches(q) == current[Id(q)].version = Op(q).expected

\* Mutant: a version with the same inputs keeps the record that was read.
NextRecordsKept(q) ==
  IF Op(q).kind = "replace"
  THEN {Encrypted(Id(q), read[q].version + 1, Op(q).inputs)}
  ELSE {read[q].record}

\* The record of the next version; none when the one that was read does not
\* authenticate (ErrEncryption).
NextRecords(q) ==
  {Encrypted(Id(q), read[q].version + 1, inputs) :
     inputs \in IF Op(q).kind = "replace"
               THEN {Op(q).inputs}
               ELSE Decrypted(Id(q), read[q].version, read[q].record)}

\* next in manager.go: the row that was read, changed as the request asks.
NextRow(q, record) ==
  LET next == [read[q] EXCEPT !.version = @ + 1, !.record = record]
      op == Op(q)
  IN CASE op.kind = "replace" -> next
       [] op.kind = "rename"  -> [next EXCEPT !.name = op.name]
       [] op.kind = "retire"  -> [next EXCEPT !.state = "retired"]

\* Update: the row and its new version are written in one transaction.
UpdateCommit(q) ==
  /\ At(q, "prepared")
  /\ VersionMatches(q)
  /\ \E record \in NextRecords(q) :
       LET next == NextRow(q, record) IN
       /\ current' = [current EXCEPT ![Id(q)] = next]
       /\ versions' = With(versions, <<Id(q), next.version>>, Content(next))
       /\ answers' = answers \cup {[op |-> Op(q), id |-> Id(q), version |-> next.version]}
  /\ End(q)
  /\ UNCHANGED idempotency

\* No row matched: ErrVersionConflict.
UpdateConflict(q) ==
  /\ At(q, "prepared")
  /\ ~VersionMatches(q)
  /\ Fail(q)

-----------------------------------------------------------------------------
Step(q) ==
  \/ CreateReplay(q) \/ CreateMiss(q) \/ CreateCommit(q)
  \/ Missing(q) \/ NoChange(q) \/ Refused(q) \/ Prepare(q)
  \/ UpdateCommit(q) \/ UpdateConflict(q)

Next ==
  \E q \in Requests :
    \/ \E op \in Creates \cup Changes, id \in Ids : Issue(q, op, id)
    \/ Abort(q)
    \/ Step(q)

Spec == Init /\ [][Next]_vars

-----------------------------------------------------------------------------
(* Properties.                                                             *)

\* Type invariant: every credential has its versions 1 to the current one,
\* and the newest stored version is the current row (Create, Update).
TypeOK ==
  /\ DOMAIN current \subseteq Ids
  /\ DOMAIN versions = UNION { {id} \X (1 .. current[id].version) : id \in DOMAIN current }
  /\ \A id \in DOMAIN current :
       versions[<<id, current[id].version>>] = Content(current[id])
  /\ DOMAIN read \subseteq DOMAIN requests
  /\ \A k \in DOMAIN idempotency : idempotency[k].id \in DOMAIN current

\* However often and however concurrently a create request is sent, its key
\* creates one credential, every success names that one, and a request with
\* other content never succeeds (Create, credential_idempotency).
CreateOnce ==
  /\ \A a, b \in answers :
       a.op.kind = "create" /\ b.op.kind = "create" /\ a.op.key = b.op.key
         => a.op = b.op /\ a.id = b.id
  /\ Cardinality(DOMAIN current) = Cardinality(DOMAIN idempotency)

\* An acknowledged change is never overwritten or merged with another: for
\* ever after, the version an answer names holds what its request asked for,
\* although requests prepare their versions from rows read earlier (Update).
ChangesNotLost ==
  \A a \in answers :
    LET made == versions[<<a.id, a.version>>] IN
    /\ a.op.kind = "replace" => Decrypted(a.id, a.version, made.record) = {a.op.inputs}
    /\ a.op.kind = "rename" => made.name = a.op.name
    /\ a.op.kind = "retire" => made.state = "retired"
    /\ a.op.kind = "replace" => a.version = a.op.expected + 1

\* A version with its inputs in the clear.
Readable(id, n) ==
  LET made == versions[<<id, n>>]
      inputs == Decrypted(id, n, made.record)
  IN [name |-> made.name, state |-> made.state,
      inputs |-> IF inputs = {} THEN "unreadable" ELSE CHOOSE i \in inputs : TRUE]

\* The read, prepare and compare-and-swap of each request, with what it
\* decrypts and encrypts anew, is equivalent to one step on an append-only
\* history of versions in the clear.
Register == INSTANCE CredentialRegister WITH
  history <- [id \in DOMAIN current |->
                [n \in 1 .. current[id].version |-> Readable(id, n)]]

ImplementsRegister == Register!Spec

=============================================================================
