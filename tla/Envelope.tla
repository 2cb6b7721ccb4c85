------------------------------ MODULE Envelope ------------------------------
(***************************************************************************)
(* The encrypted record of envelope/envelope.go, symbolically.             *)
(*                                                                         *)
(* AES-256-GCM is external: a box opens with the key and the associated    *)
(* data it was sealed with and with no other.  A nonce and the ciphertext  *)
(* made with it are one box.  A master key is its identifier.  The random  *)
(* draw of one Encrypt is one value, which is both the record identifier   *)
(* and the data key; whoever calls Encrypt names the draw.  A context is   *)
(* any value: the four identifiers the credential store supplies.          *)
(*                                                                         *)
(* An operation that may fail returns the set of its results, empty when   *)
(* it returns an error.                                                    *)
(***************************************************************************)

Seal(key, text, data) == [key |-> key, text |-> text, data |-> data]

Open(key, box, data) == {t \in {box.text} : box.key = key /\ box.data = data}

\* Mutant: the context is left to the plain field of the record.
AadWithoutContext(purpose, r, expected) ==
  [purpose |-> purpose, recordId |-> r.recordId, context |-> "any",
   masterKeyId |-> IF purpose = "data-key-wrap" THEN r.masterKeyId ELSE ""]

\* The associated data of one purpose, with the context the caller expects.
\* Only the wrapping names the master key, so that Rewrap keeps the payload.
aad(purpose, r, expected) ==
  [purpose |-> purpose, recordId |-> r.recordId, context |-> expected,
   masterKeyId |-> IF purpose = "data-key-wrap" THEN r.masterKeyId ELSE ""]

Encrypt(plaintext, context, master, draw) ==
  LET header == [recordId |-> draw, masterKeyId |-> master]
  IN [recordId |-> draw, masterKeyId |-> master, context |-> context,
      ciphertext |-> Seal(draw, plaintext, aad("credential-payload", header, context)),
      wrappedDataKey |-> Seal(master, draw, aad("data-key-wrap", header, context))]

\* ErrContextMismatch, ErrUnknownKey or ErrAuthentication, or the data key.
unwrapDataKey(record, expected, keyring) ==
  {k \in Open(record.masterKeyId, record.wrappedDataKey, aad("data-key-wrap", record, expected)) :
     record.context = expected /\ record.masterKeyId \in keyring}

decryptPayload(record, expected, dataKey) ==
  Open(dataKey, record.ciphertext, aad("credential-payload", record, expected))

Decrypt(record, expected, keyring) ==
  UNION {decryptPayload(record, expected, k) : k \in unwrapDataKey(record, expected, keyring)}

\* Mutant: the associated data is computed before the key identifier changes.
RewrapOldAad(record, expected, keyring, target) ==
  {[record EXCEPT !.masterKeyId = target,
                  !.wrappedDataKey = Seal(target, k, aad("data-key-wrap", record, expected))] :
     k \in {j \in unwrapDataKey(record, expected, keyring) :
              decryptPayload(record, expected, j) # {}}}

\* The same data key under the target key, once the payload authenticated.
Rewrap(record, expected, keyring, target) ==
  LET rewrapped == [record EXCEPT !.masterKeyId = target]
  IN {[rewrapped EXCEPT !.wrappedDataKey =
                          Seal(target, k, aad("data-key-wrap", rewrapped, expected))] :
        k \in {j \in unwrapDataKey(record, expected, keyring) :
                 decryptPayload(record, expected, j) # {}}}

RotateDataKey(record, expected, keyring, target, draw) ==
  {Encrypt(t, expected, target, draw) : t \in Decrypt(record, expected, keyring)}

=============================================================================
