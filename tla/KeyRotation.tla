----------------------------- MODULE KeyRotation -----------------------------
(***************************************************************************)
(* The operator's rotation of the key-encryption key                       *)
(* (website/docs/operations.md, "Rotate the key-encryption key") around    *)
(* servers that keep serving: publish a keyring that holds both keys and   *)
(* wraps under the new one, restart the servers, which read the keyring    *)
(* file only when they start, run `secrets rewrap` until it prints         *)
(* `rewrapped 0 version(s)`, and only then publish a keyring without the   *)
(* old key.  The command is a process of its own, over rewrap_all of       *)
(* PostgresStore.                                                          *)
(***************************************************************************)
EXTENDS PostgresStore

CONSTANTS
  Server,      \* the serving processes, one call in flight each
  Operator,    \* the `secrets rewrap` process
  OldKey, NewKey

VARIABLES
  stage,       \* how far the operator is in the procedure
  keyring_file \* the keyring Secret the processes mount

rvars == <<vars, stage, keyring_file>>

OldOnly == [active |-> OldKey, keys |-> {OldKey}]
Both == [active |-> NewKey, keys |-> {OldKey, NewKey}]
NewOnly == [active |-> NewKey, keys |-> {NewKey}]

\* The servers have been started on the keyring that is being replaced.
ASSUME RotationAssumption ==
  /\ Server \subseteq Call /\ Operator \in Call \ Server
  /\ OldKey \in Key /\ NewKey \in Key /\ OldKey # NewKey
  /\ \A s \in Server : InitialKeyring[s] = OldOnly

RInit ==
  /\ Init
  /\ keyring_file = OldOnly
  /\ stage = "serving"

\* Steps 1 and 2: the new key is merged into the keyring file and made active.
PublishBoth ==
  /\ stage = "serving"
  /\ keyring_file' = Both
  /\ stage' = "restarting"
  /\ UNCHANGED vars

\* Step 3: SIGTERM has no handler, so a restart ends the call in flight at
\* once; Keyring::from_file then reads the file.
Restart(s) ==
  /\ stage \in {"restarting", "retiring"}
  /\ keyring[s] # keyring_file
  /\ keyring' = [keyring EXCEPT ![s] = keyring_file]
  /\ Release(s)
  /\ reply' = [reply EXCEPT ![s] = IF tx[s].pc = "idle" THEN @ ELSE Answer("Unavailable")]
  /\ UNCHANGED <<tables, clock, next_id, bounds, stage, keyring_file>>

OneRestarted == \E s \in Server : keyring[s] = keyring_file  \* mutant
AllRestarted == \A s \in Server : keyring[s] = keyring_file

\* Steps 4 and 5: rewrap is run, and run again while it reports work or fails.
RunRewrap ==
  /\ stage \in {"restarting", "rewrapping"}
  /\ AllRestarted
  /\ Start(Operator, [op |-> "rewrap"])
  /\ keyring' = [keyring EXCEPT ![Operator] = keyring_file]
  /\ stage' = "running"
  /\ UNCHANGED <<tables, locks, reply, clock, next_id, bounds, keyring_file>>
ReadResult ==
  LET result == reply[Operator]
  IN  /\ stage = "running" /\ tx[Operator].pc = "idle"
      /\ stage' = IF result.code = "Ok" /\ result.version = 0 THEN "rewrapped" ELSE "rewrapping"
      /\ UNCHANGED <<vars, keyring_file>>

\* Step 6, once no backup needs the old key: it leaves the keyring.
RetireOldKey ==
  /\ stage = "rewrapped"
  /\ keyring_file' = NewOnly
  /\ stage' = "retiring"
  /\ UNCHANGED vars

\* The connection of the rewrap command may drop at any statement; a server is
\* cut off by its restart.
RNext ==
  \/ /\ \/ \E s \in Server : Invoke(s) \/ Progress(s)
        \/ Progress(Operator) \/ Lose(Operator)
        \/ Tick
     /\ UNCHANGED <<stage, keyring_file>>
  \/ PublishBoth \/ (\E s \in Server : Restart(s)) \/ RunRewrap \/ ReadResult \/ RetireOldKey

RSpec == RInit /\ [][RNext]_rvars

\* The operator carries the procedure through, and processes make progress.
RFairSpec ==
  /\ RSpec
  /\ \A c \in Server \cup {Operator} : WF_rvars(Progress(c) /\ UNCHANGED <<stage, keyring_file>>)
  /\ WF_rvars(PublishBoth) /\ WF_rvars(RunRewrap) /\ WF_rvars(ReadResult) /\ WF_rvars(RetireOldKey)
  /\ \A s \in Server : WF_rvars(Restart(s))

-----------------------------------------------------------------------------
StoredKeys == {v.envelope.key_id : v \in secret_versions} \cup
  {prepared_transactions[b].envelope.key_id :
     b \in {d \in Batch : prepared_transactions[d] # NoRow}}

\* Outside the restart that hands out the new key, every server can open every
\* stored version and every held batch, the moments when old and new keyrings
\* serve side by side after the retirement included: nothing was written under
\* the old key behind the rewrap that reported 0.
EveryServerOpensEverything ==
  stage # "restarting" => \A s \in Server : StoredKeys \subseteq keyring[s].keys

\* Once the old key is retired nothing stored names it.
NothingNamesRetiredKey == stage = "retiring" => OldKey \notin StoredKeys

\* A rotation that was started ends with every server on the new key alone,
\* whatever the servers are asked meanwhile.
RotationCompletes == stage = "restarting" ~> (stage = "retiring" /\ AllRestarted)
=============================================================================
