--------------------------- MODULE EnvelopeProofs ---------------------------
(***************************************************************************)
(* What the operations of Envelope return, for every plaintext, context,   *)
(* key and keyring: the facts the proofs about the credential store and    *)
(* about key rotation rest on.                                             *)
(***************************************************************************)
EXTENDS Envelope, TLAPS

\* The parts of a record that Encrypt made.
LEMMA EncryptedParts ==
  ASSUME NEW text, NEW context, NEW master, NEW draw, NEW r,
         r = Encrypt(text, context, master, draw)
  PROVE  /\ r.recordId = draw /\ r.masterKeyId = master /\ r.context = context
         /\ r.ciphertext = Seal(draw, text, aad("credential-payload", r, context))
         /\ r.wrappedDataKey = Seal(master, draw, aad("data-key-wrap", r, context))
         /\ r = [recordId |-> r.recordId, masterKeyId |-> r.masterKeyId, context |-> r.context,
                 ciphertext |-> r.ciphertext, wrappedDataKey |-> r.wrappedDataKey]
  BY DEF Encrypt, aad

\* A record opens for those who expect its context and hold its master key.
LEMMA OpenEncrypted ==
  ASSUME NEW text, NEW context, NEW master, NEW draw, NEW expected, NEW keyring, NEW r,
         r = Encrypt(text, context, master, draw)
  PROVE  /\ unwrapDataKey(r, expected, keyring) =
              IF expected = context /\ master \in keyring THEN {draw} ELSE {}
         /\ decryptPayload(r, context, draw) = {text}
<1>1. /\ r.recordId = draw /\ r.masterKeyId = master /\ r.context = context
      /\ r.ciphertext = Seal(draw, text, aad("credential-payload", r, context))
      /\ r.wrappedDataKey = Seal(master, draw, aad("data-key-wrap", r, context))
  BY EncryptedParts
<1>2. unwrapDataKey(r, expected, keyring) =
        IF expected = context /\ master \in keyring THEN {draw} ELSE {}
  BY <1>1 DEF unwrapDataKey, Open, Seal
<1>3. decryptPayload(r, context, draw) = {text}
  BY <1>1 DEF decryptPayload, Open, Seal
<1> QED
  BY <1>2, <1>3

\* A record that Encrypt made is decrypted by those who expect its context and
\* hold its master key, and by no one else (Decrypt of envelope.go).
THEOREM DecryptEncrypted ==
  ASSUME NEW text, NEW context, NEW master, NEW draw, NEW expected, NEW keyring
  PROVE  Decrypt(Encrypt(text, context, master, draw), expected, keyring) =
           IF expected = context /\ master \in keyring THEN {text} ELSE {}
<1> DEFINE r == Encrypt(text, context, master, draw)
<1>1. /\ unwrapDataKey(r, expected, keyring) =
           IF expected = context /\ master \in keyring THEN {draw} ELSE {}
      /\ decryptPayload(r, context, draw) = {text}
  BY OpenEncrypted
<1> HIDE DEF r
<1>2. Decrypt(r, expected, keyring) =
        IF expected = context /\ master \in keyring THEN {text} ELSE {}
  BY <1>1 DEF Decrypt
<1> QED
  BY <1>2 DEF r

\* Rewrap turns a record into the one Encrypt would have made under the target
\* key with the same draw, so that its payload stays as it is (Rewrap).
THEOREM RewrapEncrypted ==
  ASSUME NEW text, NEW context, NEW master, NEW draw, NEW keyring, NEW target, master \in keyring
  PROVE  Rewrap(Encrypt(text, context, master, draw), context, keyring, target) =
           {Encrypt(text, context, target, draw)}
<1> DEFINE r == Encrypt(text, context, master, draw)
<1> DEFINE s == Encrypt(text, context, target, draw)
<1> DEFINE mid == [r EXCEPT !.masterKeyId = target]
<1> DEFINE new == [mid EXCEPT !.wrappedDataKey =
                                Seal(target, draw, aad("data-key-wrap", mid, context))]
<1>1. /\ unwrapDataKey(r, context, keyring) = {draw} /\ decryptPayload(r, context, draw) = {text}
  BY OpenEncrypted
<1>2. Rewrap(r, context, keyring, target) = {new}
  <2> HIDE DEF r
  <2>1. {j \in unwrapDataKey(r, context, keyring) : decryptPayload(r, context, j) # {}} = {draw}
    BY <1>1
  <2> QED
    BY <2>1 DEF Rewrap
<1>3. new = s
  <2>1. mid = [recordId |-> draw, masterKeyId |-> target, context |-> context,
               ciphertext |-> r.ciphertext, wrappedDataKey |-> r.wrappedDataKey]
    BY DEF Encrypt
  <2>2. mid.recordId = draw /\ mid.masterKeyId = target
    BY <2>1
  <2>3. aad("data-key-wrap", mid, context) = aad("data-key-wrap", s, context)
    <3>1. s.recordId = draw /\ s.masterKeyId = target
      BY EncryptedParts
    <3> HIDE DEF s, mid
    <3> QED
      BY <2>2, <3>1 DEF aad
  <2>4. r.ciphertext = s.ciphertext
    BY DEF Encrypt, aad
  <2>5. new = [recordId |-> draw, masterKeyId |-> target, context |-> context,
               ciphertext |-> s.ciphertext,
               wrappedDataKey |-> Seal(target, draw, aad("data-key-wrap", s, context))]
    <3> HIDE DEF r, s, mid
    <3> QED
      BY <2>1, <2>3, <2>4
  <2> HIDE DEF new, s
  <2>6. /\ s.wrappedDataKey = Seal(target, draw, aad("data-key-wrap", s, context))
        /\ s.recordId = draw /\ s.masterKeyId = target /\ s.context = context
        /\ s = [recordId |-> s.recordId, masterKeyId |-> s.masterKeyId, context |-> s.context,
                ciphertext |-> s.ciphertext, wrappedDataKey |-> s.wrappedDataKey]
    BY EncryptedParts DEF s
  <2> QED
    BY <2>5, <2>6
<1> HIDE DEF r, s, new
<1> QED
  BY <1>2, <1>3 DEF r, s

\* RotateDataKey encrypts the same plaintext anew for the same context.
THEOREM RotateEncrypted ==
  ASSUME NEW text, NEW context, NEW master, NEW draw, NEW keyring, NEW target, NEW fresh,
         master \in keyring
  PROVE  RotateDataKey(Encrypt(text, context, master, draw), context, keyring, target, fresh) =
           {Encrypt(text, context, target, fresh)}
<1>1. Decrypt(Encrypt(text, context, master, draw), context, keyring) = {text}
  BY DecryptEncrypted
<1> QED
  BY <1>1 DEF RotateDataKey

\* Whatever fields a record is put together from, what it decrypts to was
\* sealed for the context that is expected (the associated data of envelope.go).
THEOREM DecryptKeepsContext ==
  ASSUME NEW r, NEW expected, NEW keyring, NEW text \in Decrypt(r, expected, keyring)
  PROVE  r.ciphertext.text = text /\ r.ciphertext.data.context = expected
<1>1. PICK k \in unwrapDataKey(r, expected, keyring) : text \in decryptPayload(r, expected, k)
  BY DEF Decrypt
<1>2. text = r.ciphertext.text /\ r.ciphertext.data = aad("credential-payload", r, expected)
  BY <1>1 DEF decryptPayload, Open
<1>3. aad("credential-payload", r, expected).context = expected
  BY DEF aad
<1> QED
  BY <1>2, <1>3

=============================================================================
