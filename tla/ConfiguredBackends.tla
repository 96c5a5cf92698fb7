-------------------------- MODULE ConfiguredBackends --------------------------
(***************************************************************************)
(* Which backends a process of secretsctl mounts (crates/secretsctl,       *)
(* backends.rs): the `backends` table of the configuration file, the       *)
(* credential store of this build and machine, the tokens of the remote    *)
(* services.  A label that is no name is dropped; no namespace can be      *)
(* mounted on it, so tables hold none.                                     *)
(***************************************************************************)
EXTENDS ConfigDocument

Origins == {"https", "loopback", "cleartext", "not_url"}
TokenSources == {"env", "unset", "protected", "exposed", "both", "neither"}
\* A keychain label, a recording fake of the test build, or a remote service.
KeychainEntry == [kind |-> "keychain"]
FakeEntry == [kind |-> "fake"]
RemoteEntry(origin, token) == [kind |-> "remote", origin |-> origin, token |-> token]
Entry == {KeychainEntry, FakeEntry} \cup {RemoteEntry(o, t) : o \in Origins, t \in TokenSources}

\* What a process finds: whether the table parses, what it names, and whether
\* the credential store opens.
Found(table, keychain, parses) == [table |-> table, keychain |-> keychain, parses |-> parses]

\* A table that is not valid is an empty one, and a note that nobody has to
\* read; keychain/default needs no entry.
Mounts(found) ==
  LET named == IF found.parses THEN DOMAIN found.table ELSE {}
  IN  [b \in named \cup {DefaultBackend} |->
         IF b \in named THEN found.table[b] ELSE KeychainEntry]

OriginAdmitted(origin) == origin \in {"https", "loopback"}
TokenRead(token) == token \in {"env", "protected"}  \* exactly one source, and readable
Reaches(entry, keychain) ==
  CASE entry.kind = "keychain" -> keychain
    [] entry.kind = "fake" -> TRUE
    [] entry.kind = "remote" -> OriginAdmitted(entry.origin) /\ TokenRead(entry.token)

RegisteredUsable(found) ==  \* mutant
  {b \in DOMAIN Mounts(found) : Reaches(Mounts(found)[b], found.keychain)}
\* A backend that cannot be built is mounted all the same: Unreachable has the
\* capabilities of its kind and answers `unavailable`.
Registered(found) == DOMAIN Mounts(found)
Usable(found) == {b \in Registered(found) : Reaches(Mounts(found)[b], found.keychain)}
=============================================================================
