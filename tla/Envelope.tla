------------------------------ MODULE Envelope ------------------------------
(***************************************************************************)
(* The envelopes of crates/secrets-crypto, symbolically.  AES-256-GCM      *)
(* under a fresh data key, itself wrapped by the keyring's active key, is  *)
(* a record of what authentication ties together: the wrapping key's id,   *)
(* the associated data and the plaintext.  Opening succeeds exactly when   *)
(* the keyring holds the key and the associated data is the one sealed.    *)
(***************************************************************************)

CONSTANT Key          \* the ids of key-encryption keys

\* Keyring::from_json: a keyring names an active key among those it holds.
Keyring == {k \in [active : Key, keys : SUBSET Key] : k.active \in k.keys}

\* What seal produces for an associated data and a plaintext.
EnvelopeOf(Aad, Plain) == [key_id : Key, aad : Aad, plain : Plain]

\* associated_data: a version is bound to its address, its number and the
\* disclosure it was sealed under.
associated_data(reference, version, disclosure) ==
  [reference |-> reference, version |-> version, disclosure |-> disclosure]

\* Keyring::seal always wraps under the active key.
seal(keyring, aad, plaintext) ==
  [key_id |-> keyring.active, aad |-> aad, plain |-> plaintext]

\* Keyring::open succeeds: neither KeyNotFound nor an authentication failure.
opens(keyring, aad, envelope) ==
  /\ envelope.key_id \in keyring.keys
  /\ envelope.aad = aad

\* Keyring::reseal_batch and rewrap_all's decrypt-then-encrypt, once opened.
reseal(keyring, envelope) == seal(keyring, envelope.aad, envelope.plain)
=============================================================================
