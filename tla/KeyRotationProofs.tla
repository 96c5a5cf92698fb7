-------------------------- MODULE KeyRotationProofs --------------------------
(***************************************************************************)
(* The two invariants of KeyRotation, for any number of servers, requests, *)
(* references, batches and faults of the rewrap command.  They say where   *)
(* the old key may be found only once a stage has been reached; the        *)
(* inductive invariant says how the rewrap command gets there: what it has *)
(* still to re-encrypt is among what it has selected, while every server   *)
(* already writes under the new key.                                       *)
(***************************************************************************)
EXTENDS KeyRotation, PostgresStoreProofs

WrittenKeys(c) == {v.envelope.key_id : v \in tx[c].written}

\* Stage by stage, the file the operator published and what the servers read of it.
KeyringsFollowFile ==
  \/ stage = "serving" /\ keyring_file = OldOnly /\ \A s \in Server : keyring[s] = OldOnly
  \/ /\ stage = "restarting" /\ keyring_file = Both
     /\ \A s \in Server : keyring[s] \in {OldOnly, Both}
  \/ /\ stage \in {"rewrapping", "running", "rewrapped"} /\ keyring_file = Both
     /\ \A s \in Server : keyring[s] = Both
  \/ /\ stage = "retiring" /\ keyring_file = NewOnly
     /\ \A s \in Server : keyring[s] \in {Both, NewOnly}

\* Who else runs statements: the rewrap command, while it runs.
OnlyRewrapBeside ==
  \A c \in Call \ Server : tx[c].pc # "idle" =>
    /\ c = Operator /\ stage = "running" /\ keyring[c] = Both
    /\ tx[c].pc \in {"rewrap", "lock", "reseal", "resealing"}

\* The keys in the tables and in what servers have written, stage by stage.
KeysUpTo(keys) == StoredKeys \subseteq keys /\ \A s \in Server : WrittenKeys(s) \subseteq keys
KeysByStage ==
  /\ KeysUpTo({OldKey, NewKey})
  /\ stage = "serving" => KeysUpTo({OldKey})
  /\ stage \in {"rewrapped", "retiring"} => KeysUpTo({NewKey})
WritesUnderActive ==
  \A s \in Server : keyring[s].active = NewKey => WrittenKeys(s) \subseteq {NewKey}

\* The rewrap command holds on to what is still under the old key.
OldTargeted ==
  tx[Operator].pc = "lock" =>
    \A v \in secret_versions : v.envelope.key_id = OldKey =>
      \E t \in tx[Operator].targets :
        SameVersion(v, t) /\ secrets[t.ref] # NoRow /\ secrets[t.ref].id = t.secret_id
OldVersionsGone ==
  tx[Operator].pc \in {"reseal", "resealing"} =>
    \A v \in secret_versions : v.envelope.key_id # OldKey
OldBatchesHeld ==
  tx[Operator].pc = "resealing" =>
    \A b \in Batch :
      LET row == prepared_transactions[b]
      IN  row # NoRow /\ row.envelope.key_id = OldKey =>
            \/ batch_lock[b] = Operator
            \/ b \in tx[Operator].held /\ row.expires_at > tx[Operator].began
\* When it has answered Ok nothing is.
OkMeansNone ==
  stage = "running" /\ tx[Operator].pc = "idle" /\ reply[Operator].code = "Ok" =>
    OldKey \notin StoredKeys
RewrapInv == OldTargeted /\ OldVersionsGone /\ OldBatchesHeld /\ OkMeansNone

RotationInv ==
  /\ RowInv
  /\ KeyringsFollowFile /\ OnlyRewrapBeside
  /\ KeysByStage /\ WritesUnderActive
  /\ RewrapInv

-----------------------------------------------------------------------------
(* What a step of one call may do to keys *)

\* It seals under the active key of its process, and moves what it has written.
SealsUnderActive(c) ==
  /\ \A v \in secret_versions' :
       v \in secret_versions \/ v \in tx[c].written \/ v.envelope.key_id = keyring[c].active
  /\ \A v \in tx'[c].written :
       v \in tx[c].written \/ v.envelope.key_id = keyring[c].active
  /\ \A b \in Batch :
       \/ prepared_transactions'[b] \in {prepared_transactions[b], NoRow}
       \/ prepared_transactions'[b].envelope.key_id = keyring[c].active

\* It leaves the other calls, what they hold and all keyrings alone.
LeavesOthers(c) ==
  /\ \A d \in Call \ {c} :
       /\ tx'[d] = tx[d] /\ reply'[d] = reply[d]
       /\ \A b \in Batch : batch_lock[b] = d => batch_lock'[b] = d
  /\ UNCHANGED keyring

\* A version that stays is still one of the secret whose row it was under.
KeepsRows(c) ==
  \A v \in secret_versions, r \in Ref :
    v \in secret_versions' /\ v \notin tx[c].written /\ secrets[r] # NoRow
      /\ secrets[r].id = v.secret_id =>
        secrets'[r] # NoRow /\ secrets'[r].id = v.secret_id

Effects(c) == SealsUnderActive(c) /\ LeavesOthers(c) /\ KeepsRows(c)

LEMMA ReleaseLeaves ==
  ASSUME TypeInv, NEW c \in Call, Release(c), UNCHANGED keyring,
         \A d \in Call \ {c} : reply'[d] = reply[d]
  PROVE  LeavesOthers(c) /\ tx'[c].written = {}
<1>1. tx' = [tx EXCEPT ![c] = Idle]
  BY DEF Release, Becomes
<1>2. tx \in [Call -> Tx] /\ batch_lock \in [Batch -> Call \cup {Nobody}]
  BY DEF TypeInv, TypeOK
<1>3. tx'[c].written = {} /\ \A d \in Call \ {c} : tx'[d] = tx[d]
  BY <1>1, <1>2 DEF Idle
<1>4. \A d \in Call \ {c}, b \in Batch : batch_lock[b] = d => batch_lock'[b] = d
  BY <1>2 DEF Release
<1> QED BY <1>3, <1>4 DEF LeavesOthers

LEMMA ReplyLeaves ==
  ASSUME TypeInv, NEW c \in Call, NEW r,
         Reply(c, r) \/ reply' = [reply EXCEPT ![c] = r] \/ UNCHANGED reply
  PROVE  \A d \in Call \ {c} : reply'[d] = reply[d]
BY DEF TypeInv, TypeOK, Reply

\* The calls that end and leave rows and versions as they are.
LEMMA EndEffects ==
  ASSUME TypeInv, NEW c \in Call,
         \/ RefuseReference(c) \/ UpsertRefused(c) \/ RowMissing(c) \/ RefuseBatch(c)
         \/ RefuseCommit(c) \/ RewrapFails(c) \/ ResealFails(c) \/ DeadlockAbort(c)
         \/ Lose(c) \/ Get(c) \/ Prepare(c) \/ DropExpired(c) \/ Abort(c) \/ ResealBatches(c)
  PROVE  Effects(c)
<1>1. Release(c) /\ UNCHANGED <<secrets, secret_versions, keyring>>
  BY DEF RefuseReference, UpsertRefused, RowMissing, RefuseBatch, RefuseCommit, RewrapFails,
         ResealFails, DeadlockAbort, Rollback, Lose, Get, Prepare, DropExpired, Abort,
         ResealBatches, tables
<1>2. \A d \in Call \ {c} : reply'[d] = reply[d]
  <2>1. CASE RefuseReference(c) \/ UpsertRefused(c) \/ RowMissing(c) \/ RefuseBatch(c)
             \/ RefuseCommit(c) \/ RewrapFails(c) \/ ResealFails(c) \/ DeadlockAbort(c)
    <3>1. \E code : Rollback(c, code)
      BY <2>1, ZenonT(30) DEF RefuseReference, UpsertRefused, RowMissing, RefuseBatch, RefuseCommit,
                RewrapFails, ResealFails, DeadlockAbort
    <3>2. \E r : reply' = [reply EXCEPT ![c] = r]
      BY <3>1, Zenon DEF Rollback
    <3> QED BY <3>2, ReplyLeaves, Zenon
  <2>2. CASE Lose(c) \/ Get(c)
    <3>1. \E r : reply' = [reply EXCEPT ![c] = r]
      BY <2>2, ZenonT(30) DEF Lose, Get
    <3> QED BY <3>1, ReplyLeaves, Zenon
  <2>3. CASE Prepare(c) \/ DropExpired(c) \/ Abort(c) \/ ResealBatches(c)
    BY <2>3, ReplyLeaves DEF Prepare, DropExpired, Abort, ResealBatches
  <2> QED BY <2>1, <2>2, <2>3
<1>3. LeavesOthers(c) /\ tx'[c].written = {}
  BY <1>1, <1>2, ReleaseLeaves
<1>4. \A b \in Batch :
        \/ prepared_transactions'[b] \in {prepared_transactions[b], NoRow}
        \/ prepared_transactions'[b].envelope.key_id = keyring[c].active
  <2>1. prepared_transactions \in [Batch -> BatchRow \cup {NoRow}]
    BY SMTT(30) DEF TypeInv, TypeOK
  <2>2. CASE RefuseReference(c) \/ UpsertRefused(c) \/ RowMissing(c) \/ RefuseBatch(c)
             \/ RefuseCommit(c) \/ RewrapFails(c) \/ ResealFails(c) \/ DeadlockAbort(c)
             \/ Lose(c) \/ Get(c)
    BY <2>2 DEF RefuseReference, UpsertRefused, RowMissing, RefuseBatch, RefuseCommit,
                RewrapFails, ResealFails, DeadlockAbort, Rollback, Lose, Get, tables
  <2>3. CASE Prepare(c)
    <3>1. SealedBatch(c).envelope.key_id = keyring[c].active
      BY SMTT(30) DEF SealedBatch, seal
    <3> QED BY <2>1, <2>3, <3>1 DEF Prepare
  <2>4. CASE DropExpired(c) \/ Abort(c)
    BY <2>1, <2>4 DEF DropExpired, Abort
  <2>5. CASE ResealBatches(c)
    <3>1. ASSUME NEW b \in Batch, b \in ToReseal(c)
          PROVE  [prepared_transactions[b] EXCEPT !.envelope = reseal(keyring[c], @)]
                   .envelope.key_id = keyring[c].active
      <4>1. prepared_transactions[b] \in BatchRow
        BY <2>1, <3>1 DEF ToReseal
      <4> QED BY <4>1 DEF BatchRow, reseal, seal
    <3> QED BY <2>5, <3>1 DEF ResealBatches
  <2> QED BY <2>2, <2>3, <2>4, <2>5
<1>5. KeepsRows(c)
  BY <1>1 DEF KeepsRows
<1> QED
  BY <1>1, <1>3, <1>4, <1>5, SMTT(30) DEF Effects, SealsUnderActive

\* The statements that read, wait, or are about batches, and the SELECT of put_tx.
LEMMA ReadEffects ==
  ASSUME RowInv, NEW c \in Call,
         \/ Block(c) \/ Purge(c) \/ Begin(c) \/ TakeBatch(c) \/ SelectVersions(c)
         \/ LockVersions(c) \/ SelectBatches(c) \/ SelectForUpdate(c)
  PROVE  Effects(c)
<1>1. Continued(c) /\ UNCHANGED <<secrets, secret_versions>>
  BY ReadContinues, SelectContinues, SMTT(30)
<1>2. UNCHANGED <<reply, keyring>>
  BY ZenonT(40) DEF Block, Purge, Begin, TakeBatch, SelectVersions, LockVersions, SelectBatches,
         SelectForUpdate
<1>3. \A d \in Call \ {c}, b \in Batch : batch_lock[b] = d => batch_lock'[b] = d
  <2>1. batch_lock \in [Batch -> Call \cup {Nobody}]
    BY DEF RowInv, TypeInv, TypeOK
  <2>2. CASE UNCHANGED batch_lock
    BY <2>2, SMTT(30)
  <2>3. CASE TakeBatch(c)
    BY <2>1, <2>3, StoreAssumption DEF TakeBatch, HeldByOther
  <2>4. CASE SelectBatches(c)
    BY <2>1, <2>4, StoreAssumption, SMTT(30) DEF SelectBatches, HeldByOther
  <2> QED BY <2>2, <2>3, <2>4
          DEF Block, Purge, Begin, SelectVersions, LockVersions, SelectForUpdate, locks
<1>4. \A b \in Batch : prepared_transactions'[b] \in {prepared_transactions[b], NoRow}
  BY DEF Block, Purge, Begin, TakeBatch, SelectVersions, LockVersions, SelectBatches,
         SelectForUpdate, tables
<1> QED
  BY <1>1, <1>2, <1>3, <1>4 DEF Effects, SealsUnderActive, LeavesOthers, KeepsRows, Continued

LEMMA InvokeEffects ==
  ASSUME TypeInv, NEW c \in Call, Invoke(c)
  PROVE  Effects(c)
<1>1. PICK rq : tx' = [tx EXCEPT ![c] = [Idle EXCEPT
                  !.pc = First(rq.op), !.req = rq, !.began = clock,
                  !.todo = IF rq.op \in {"put", "delete", "revoke"} THEN rq.muts ELSE <<>>]]
  BY DEF Invoke, Start, Becomes
<1>2. tx'[c].written = {} /\ \A d \in Call \ {c} : tx'[d] = tx[d]
  BY <1>1 DEF TypeInv, TypeOK, Idle
<1>3. UNCHANGED <<tables, locks, reply, keyring>>
  BY DEF Invoke
<1> QED
  BY <1>2, <1>3 DEF Effects, SealsUnderActive, LeavesOthers, KeepsRows, tables, locks

\* The statements that write to a row; only the upsert adds a version.
LEMMA WriteEffects ==
  ASSUME RowInv, NEW c \in Call, Upsert(c) \/ DeleteRow(c) \/ RevokeRow(c)
  PROVE  Effects(c)
<1>1. UNCHANGED <<tables, batch_lock, reply, keyring>>
  BY DEF Upsert, DeleteRow, RevokeRow
<1>2. tx \in [Call -> Tx] /\ tx[c] \in Tx
  BY DEF RowInv, TypeInv, TypeOK
<1>3. /\ \A d \in Call \ {c} : tx'[d] = tx[d]
      /\ \A v \in tx'[c].written : v \in tx[c].written \/ v.envelope.key_id = keyring[c].active
  <2>1. CASE Upsert(c)
    <3>1. PICK r \in Ref :
            tx' = [tx EXCEPT ![c] = [tx[c] EXCEPT
                     !.pc = "exec", !.todo = Tail(@),
                     !.dirty[r] = UpsertRow(c, r),
                     !.written = @ \cup {NewVersion(c, r)},
                     !.events = Append(@, [secret_id |-> tx[c].found.id, action |-> "put"])]]
      BY <2>1 DEF Upsert, Becomes
    <3>2. tx'[c].written = tx[c].written \cup {NewVersion(c, r)}
      BY <1>2, <3>1 DEF Tx
    <3>3. NewVersion(c, r).envelope.key_id = keyring[c].active
      BY DEF NewVersion, seal
    <3> QED BY <1>2, <3>1, <3>2, <3>3
  <2>2. CASE DeleteRow(c)
    <3> DEFINE t(r, id) ==
                 [tx[c] EXCEPT
                    !.todo = Tail(@), !.snap = 0, !.dirty[r] = NoRow,
                    !.dead = @ \cup {id}, !.written = {v \in @ : v.secret_id # id},
                    !.events = Append(@, [secret_id |-> id, action |-> "delete"])]
    <3>1. PICK r \in Ref : tx' = [tx EXCEPT ![c] = t(r, Found(c, r).id)]
      BY <2>2 DEF DeleteRow, Becomes
    <3>2. \A id : t(r, id).written = {v \in tx[c].written : v.secret_id # id}
      BY <1>2 DEF Tx
    <3> HIDE DEF t
    <3> QED BY <1>2, <3>1, <3>2, SMTT(30)
  <2>3. CASE RevokeRow(c)
    <3> DEFINE t(r, row) ==
                 [tx[c] EXCEPT
                    !.todo = Tail(@), !.snap = 0,
                    !.found = [id |-> row.id, version |-> row.current_version],
                    !.dirty[r] = [row EXCEPT !.state = "revoked"],
                    !.events = Append(@, [secret_id |-> row.id, action |-> "revoke"])]
    <3>1. PICK r \in Ref : tx' = [tx EXCEPT ![c] = t(r, Found(c, r))]
      BY <2>3 DEF RevokeRow, Becomes
    <3>2. \A row : t(r, row).written = tx[c].written
      BY <1>2 DEF Tx
    <3> HIDE DEF t
    <3> QED BY <1>2, <3>1, <3>2
  <2> QED BY <2>1, <2>2, <2>3
<1> QED
  BY <1>1, <1>3, SMTT(30) DEF Effects, SealsUnderActive, LeavesOthers, KeepsRows, tables

\* COMMIT moves what was written to the tables.  A row it replaces keeps its id,
\* or all the versions of that id go.
LEMMA CommitEffects ==
  ASSUME RowInv, NEW c \in Call, Commit(c)
  PROVE  Effects(c)
<1>1. /\ secrets' = CommittedRows(c) /\ secret_versions' = CommittedVersions(c)
      /\ Release(c) /\ UNCHANGED keyring
      /\ \A b \in Batch : prepared_transactions'[b] \in {prepared_transactions[b], NoRow}
  BY DEF Commit
<1>2. \A d \in Call \ {c} : reply'[d] = reply[d]
  BY ReplyLeaves DEF Commit, RowInv
<1>3. LeavesOthers(c) /\ tx'[c].written = {}
  BY <1>1, <1>2, ReleaseLeaves DEF RowInv
<1>4. \A v \in secret_versions' : v \in secret_versions \/ v \in tx[c].written
  BY <1>1 DEF CommittedVersions
<1>5. KeepsRows(c)
  <2> SUFFICES ASSUME NEW v \in secret_versions, NEW r \in Ref,
                      v \in secret_versions', v \notin tx[c].written,
                      secrets[r] # NoRow, secrets[r].id = v.secret_id
               PROVE  secrets'[r] # NoRow /\ secrets'[r].id = v.secret_id
    BY DEF KeepsRows
  <2>1. v.secret_id \notin tx[c].dead
    BY <1>1 DEF CommittedVersions
  <2>2. secrets'[r] = Seen(c, r)
    BY <1>1 DEF CommittedRows
  <2>3. tx[c].dirty[r] # Untouched => IsRow(tx[c].dirty[r]) /\ tx[c].dirty[r].id = secrets[r].id
    BY <2>1 DEF RowInv, WritesInv, ReplacedAreDead
  <2> QED BY <2>2, <2>3 DEF Seen, IsRow
<1> QED
  BY <1>1, <1>3, <1>4, <1>5 DEF Effects, SealsUnderActive

LEMMA RewrapEffects ==
  ASSUME RowInv, NEW c \in Call, RewrapVersions(c)
  PROVE  Effects(c)
<1>1. UNCHANGED <<secrets, prepared_transactions, batch_lock, reply, keyring>>
  BY DEF RewrapVersions
<1>2. secret_versions' =
        (secret_versions \ Selected(c)) \cup {Rewrapped(c, v) : v \in Selected(c)}
  BY DEF RewrapVersions
<1>3. \A v \in Selected(c) : Rewrapped(c, v).envelope.key_id = keyring[c].active
  <2> SUFFICES ASSUME NEW v \in Selected(c)
               PROVE  Rewrapped(c, v).envelope.key_id = keyring[c].active
    OBVIOUS
  <2>1. v \in VersionRow
    BY DEF Selected, RowInv, TypeInv, TypeOK
  <2>2. Rewrapped(c, v).envelope = reseal(keyring[c], v.envelope)
    BY <2>1 DEF Rewrapped, VersionRow
  <2> QED BY <2>2 DEF reseal, seal
<1>4. PICK n : tx' = [tx EXCEPT ![c] = [tx[c] EXCEPT !.pc = "reseal", !.targets = {},
                                                     !.count = n]]
  BY DEF RewrapVersions, Becomes
<1>5. tx'[c].written = tx[c].written /\ \A d \in Call \ {c} : tx'[d] = tx[d]
  BY <1>4 DEF RowInv, TypeInv, TypeOK, Tx
<1> QED
  BY <1>1, <1>2, <1>3, <1>5 DEF Effects, SealsUnderActive, LeavesOthers, KeepsRows

LEMMA StepEffects ==
  ASSUME RowInv, NEW c \in Call, Invoke(c) \/ Progress(c) \/ Lose(c)
  PROVE  Effects(c)
BY EndEffects, ReadEffects, InvokeEffects, WriteEffects, CommitEffects, RewrapEffects
DEF Progress, RowInv

-----------------------------------------------------------------------------
(* Where keys may come from *)

\* Keys stay within a set that has the active key of the process that steps.
LEMMA KeysStay ==
  ASSUME TypeInv, NEW c \in Call, Effects(c), NEW keys, KeysUpTo(keys),
         keyring[c].active \in keys, c \in Server \/ tx[c].written = {}
  PROVE  KeysUpTo(keys)'
<1>1. WrittenKeys(c) \subseteq keys
  BY DEF KeysUpTo, WrittenKeys
<1>2. \A v \in secret_versions' : v.envelope.key_id \in keys
  BY <1>1 DEF Effects, SealsUnderActive, KeysUpTo, StoredKeys, WrittenKeys
<1>3. \A b \in Batch : prepared_transactions'[b] # NoRow =>
        prepared_transactions'[b].envelope.key_id \in keys
  BY DEF Effects, SealsUnderActive, KeysUpTo, StoredKeys
<1>4. ASSUME NEW s \in Server PROVE WrittenKeys(s)' \subseteq keys
  <2>1. CASE s = c
    BY <1>1, <2>1 DEF Effects, SealsUnderActive, WrittenKeys
  <2>2. CASE s # c
    <3>1. tx'[s] = tx[s]
      BY <2>2, RotationAssumption DEF Effects, LeavesOthers
    <3> QED BY <3>1 DEF KeysUpTo, WrittenKeys
  <2> QED BY <2>1, <2>2
<1> QED BY <1>2, <1>3, <1>4 DEF KeysUpTo, StoredKeys

\* A process whose active key is the new one adds nothing under the old one.
LEMMA NothingOldAdded ==
  ASSUME NEW c \in Call, Effects(c), keyring[c].active = NewKey,
         WrittenKeys(c) \subseteq {NewKey}
  PROVE  /\ \A v \in secret_versions' : v.envelope.key_id = OldKey =>
              v \in secret_versions /\ v \notin tx[c].written
         /\ \A b \in Batch :
              prepared_transactions'[b] # NoRow
                /\ prepared_transactions'[b].envelope.key_id = OldKey =>
                prepared_transactions'[b] = prepared_transactions[b]
         /\ OldKey \notin StoredKeys => OldKey \notin StoredKeys'
<1>1. \A v \in tx[c].written : v.envelope.key_id # OldKey
  BY RotationAssumption DEF WrittenKeys
<1>2. \A v \in secret_versions' : v.envelope.key_id = OldKey =>
        v \in secret_versions /\ v \notin tx[c].written
  BY <1>1, RotationAssumption DEF Effects, SealsUnderActive
<1>3. \A b \in Batch :
        prepared_transactions'[b] # NoRow
          /\ prepared_transactions'[b].envelope.key_id = OldKey =>
          prepared_transactions'[b] = prepared_transactions[b]
  BY RotationAssumption DEF Effects, SealsUnderActive
<1>4. ASSUME OldKey \in StoredKeys' PROVE OldKey \in StoredKeys
  <2>1. \/ \E v \in secret_versions' : v.envelope.key_id = OldKey
        \/ \E b \in Batch : /\ prepared_transactions'[b] # NoRow
                            /\ prepared_transactions'[b].envelope.key_id = OldKey
    BY <1>4 DEF StoredKeys
  <2> QED BY <1>2, <1>3, <2>1 DEF StoredKeys
<1> QED BY <1>2, <1>3, <1>4

\* The processes that run statements, their active key by stage, and what they wrote.
LEMMA ActiveKeys ==
  ASSUME RotationInv, NEW s \in Server
  PROVE  /\ keyring[s].active \in {OldKey, NewKey}
         /\ stage = "serving" => keyring[s].active = OldKey
         /\ stage \in {"rewrapping", "running", "rewrapped", "retiring"} =>
              keyring[s].active = NewKey /\ WrittenKeys(s) \subseteq {NewKey}
BY DEF RotationInv, KeyringsFollowFile, WritesUnderActive, OldOnly, Both, NewOnly

-----------------------------------------------------------------------------
(* A statement of a server, or a call to it *)

LEMMA ServerStep ==
  ASSUME RotationInv, NEW s \in Server, Invoke(s) \/ Progress(s), RowInv',
         UNCHANGED <<stage, keyring_file>>
  PROVE  RotationInv'
<1>1. s \in Call /\ Operator \in Call /\ Operator # s
  BY RotationAssumption
<1>2. Effects(s)
  BY <1>1, StepEffects DEF RotationInv
<1>3. /\ UNCHANGED keyring
      /\ \A d \in Call \ {s} : tx'[d] = tx[d] /\ reply'[d] = reply[d]
  BY <1>2 DEF Effects, LeavesOthers
<1>4. KeyringsFollowFile' /\ OnlyRewrapBeside'
  BY <1>3 DEF RotationInv, KeyringsFollowFile, OnlyRewrapBeside
<1>5. KeysByStage'
  <2>1. TypeInv
    BY DEF RotationInv, RowInv
  <2>2. \A keys : KeysUpTo(keys) /\ keyring[s].active \in keys => KeysUpTo(keys)'
    BY <1>1, <1>2, <2>1, KeysStay
  <2>3. KeysUpTo({OldKey, NewKey})'
    BY <2>2, ActiveKeys DEF RotationInv, KeysByStage
  <2>4. stage = "serving" => KeysUpTo({OldKey})'
    BY <2>2, ActiveKeys DEF RotationInv, KeysByStage
  <2>5. stage \in {"rewrapped", "retiring"} => KeysUpTo({NewKey})'
    BY <2>2, ActiveKeys DEF RotationInv, KeysByStage
  <2> QED BY <2>3, <2>4, <2>5 DEF KeysByStage
<1>6. WritesUnderActive'
  <2>1. ASSUME NEW d \in Server, keyring'[d].active = NewKey
        PROVE  WrittenKeys(d)' \subseteq {NewKey}
    <3>1. keyring[d].active = NewKey /\ WrittenKeys(d) \subseteq {NewKey}
      BY <1>3, <2>1 DEF RotationInv, WritesUnderActive
    <3>2. CASE d = s
      BY <1>2, <3>1, <3>2 DEF Effects, SealsUnderActive, WrittenKeys
    <3>3. CASE d # s
      BY <1>3, <3>1, <3>3, RotationAssumption DEF WrittenKeys
    <3> QED BY <3>2, <3>3
  <2> QED BY <2>1 DEF WritesUnderActive
<1>7. tx'[Operator] = tx[Operator] /\ reply'[Operator] = reply[Operator]
  BY <1>1, <1>3
<1>8. tx[Operator].pc # "idle" => stage = "running"
  BY <1>1, RotationAssumption DEF RotationInv, OnlyRewrapBeside
<1>9. ASSUME stage = "running"
      PROVE  /\ \A v \in secret_versions' : v.envelope.key_id = OldKey =>
                  v \in secret_versions /\ v \notin tx[s].written
             /\ \A b \in Batch :
                  prepared_transactions'[b] # NoRow
                    /\ prepared_transactions'[b].envelope.key_id = OldKey =>
                    prepared_transactions'[b] = prepared_transactions[b]
             /\ OldKey \notin StoredKeys => OldKey \notin StoredKeys'
  BY <1>1, <1>2, <1>9, ActiveKeys, NothingOldAdded
<1>10. OldTargeted'
  <2> SUFFICES ASSUME tx'[Operator].pc = "lock", NEW v \in secret_versions',
                      v.envelope.key_id = OldKey
               PROVE  \E t \in tx'[Operator].targets :
                        /\ SameVersion(v, t)
                        /\ secrets'[t.ref] # NoRow /\ secrets'[t.ref].id = t.secret_id
    BY DEF OldTargeted, SameVersion
  <2>1. v \in secret_versions /\ v \notin tx[s].written
    BY <1>7, <1>8, <1>9
  <2>2. PICK t \in tx[Operator].targets :
          SameVersion(v, t) /\ secrets[t.ref] # NoRow /\ secrets[t.ref].id = t.secret_id
    BY <1>7, <2>1 DEF RotationInv, RewrapInv, OldTargeted
  <2>3. t.ref \in Ref
    <3>1. tx[Operator] \in Tx
      BY <1>1 DEF RotationInv, RowInv, TypeInv, TypeOK
    <3> QED BY <2>2, <3>1 DEF Tx, Target
  <2>4. v.secret_id = t.secret_id
    BY <2>2 DEF SameVersion
  <2>5. secrets'[t.ref] # NoRow /\ secrets'[t.ref].id = v.secret_id
    BY <1>2, <2>1, <2>2, <2>3, <2>4 DEF Effects, KeepsRows
  <2> QED BY <1>7, <2>2, <2>4, <2>5
<1>11. OldVersionsGone'
  BY <1>7, <1>8, <1>9 DEF RotationInv, RewrapInv, OldVersionsGone
<1>12. OldBatchesHeld'
  <2> SUFFICES ASSUME tx'[Operator].pc = "resealing", NEW b \in Batch,
                      prepared_transactions'[b] # NoRow,
                      prepared_transactions'[b].envelope.key_id = OldKey
               PROVE  \/ batch_lock'[b] = Operator
                      \/ /\ b \in tx'[Operator].held
                         /\ prepared_transactions'[b].expires_at > tx'[Operator].began
    BY DEF OldBatchesHeld
  <2>1. prepared_transactions'[b] = prepared_transactions[b]
    BY <1>7, <1>8, <1>9
  <2>2. \/ batch_lock[b] = Operator
        \/ /\ b \in tx[Operator].held
           /\ prepared_transactions[b].expires_at > tx[Operator].began
    BY <1>7, <2>1 DEF RotationInv, RewrapInv, OldBatchesHeld
  <2>3. batch_lock[b] = Operator => batch_lock'[b] = Operator
    BY <1>1, <1>2 DEF Effects, LeavesOthers
  <2> QED BY <1>7, <2>1, <2>2, <2>3
<1>13. OkMeansNone'
  BY <1>7, <1>9 DEF RotationInv, RewrapInv, OkMeansNone
<1> QED
  BY <1>4, <1>5, <1>6, <1>10, <1>11, <1>12, <1>13 DEF RotationInv, RewrapInv

-----------------------------------------------------------------------------
(* A statement of the rewrap command *)

\* While it runs it holds both keys, wraps under the new one and writes no row.
LEMMA OperatorRuns ==
  ASSUME RotationInv, tx[Operator].pc # "idle"
  PROVE  /\ Operator \in Call \ Server
         /\ stage = "running" /\ keyring[Operator] = Both
         /\ keyring[Operator].active = NewKey
         /\ tx[Operator].pc \in {"rewrap", "lock", "reseal", "resealing"}
         /\ tx[Operator].written = {} /\ WrittenKeys(Operator) = {}
<1>1. /\ Operator \in Call \ Server
      /\ stage = "running" /\ keyring[Operator] = Both
      /\ tx[Operator].pc \in {"rewrap", "lock", "reseal", "resealing"}
  BY RotationAssumption DEF RotationInv, OnlyRewrapBeside
<1>2. tx[Operator].written = {}
  BY <1>1 DEF RotationInv, RowInv, WritesInv, WritesOnlyInTransaction
<1> QED BY <1>1, <1>2 DEF Both, WrittenKeys

\* Whatever it does, it leaves the servers' part of the invariant alone.
LEMMA OperatorFrame ==
  ASSUME RotationInv, RowInv', tx[Operator].pc # "idle", Effects(Operator),
         tx'[Operator].pc \in {"idle", "rewrap", "lock", "reseal", "resealing"},
         RewrapInv', UNCHANGED <<stage, keyring_file>>
  PROVE  RotationInv'
<1>1. /\ UNCHANGED keyring
      /\ \A d \in Call \ {Operator} : tx'[d] = tx[d]
  BY DEF Effects, LeavesOthers
<1>2. \A s \in Server : tx'[s] = tx[s]
  BY <1>1, RotationAssumption
<1>3. KeyringsFollowFile' /\ WritesUnderActive'
  BY <1>1, <1>2 DEF RotationInv, KeyringsFollowFile, WritesUnderActive, WrittenKeys
<1>4. OnlyRewrapBeside'
  <2> SUFFICES ASSUME NEW c \in Call \ Server, tx'[c].pc # "idle"
               PROVE  /\ c = Operator /\ stage' = "running" /\ keyring'[c] = Both
                      /\ tx'[c].pc \in {"rewrap", "lock", "reseal", "resealing"}
    BY DEF OnlyRewrapBeside
  <2>1. c = Operator
    BY <1>1 DEF RotationInv, OnlyRewrapBeside
  <2> QED BY <1>1, <2>1, OperatorRuns
<1>5. KeysByStage'
  <2>1. TypeInv /\ KeysUpTo({OldKey, NewKey})
    BY DEF RotationInv, RowInv, KeysByStage
  <2>2. KeysUpTo({OldKey, NewKey})'
    BY <2>1, OperatorRuns, KeysStay
  <2> QED BY <2>2, OperatorRuns DEF KeysByStage
<1> QED BY <1>3, <1>4, <1>5 DEF RotationInv

\* It ends, and has nothing left to hold on to.
LEMMA OperatorEnds ==
  ASSUME tx'[Operator].pc = "idle", reply'[Operator].code = "Ok" => OldKey \notin StoredKeys'
  PROVE  RewrapInv'
BY DEF RewrapInv, OldTargeted, OldVersionsGone, OldBatchesHeld, OkMeansNone

\* It fails, or its connection drops.
LEMMA OperatorFails ==
  ASSUME RotationInv, tx[Operator].pc # "idle",
         \/ RewrapFails(Operator) \/ ResealFails(Operator) \/ DeadlockAbort(Operator)
         \/ Lose(Operator)
  PROVE  tx'[Operator].pc = "idle" /\ reply'[Operator].code # "Ok"
<1>1. /\ Release(Operator)
      /\ \/ reply' = [reply EXCEPT ![Operator] = Answer("Crypto")]
         \/ reply' = [reply EXCEPT ![Operator] = Answer("Unavailable")]
  BY DEF RewrapFails, ResealFails, DeadlockAbort, Rollback, Lose
<1>2. /\ tx \in [Call -> Tx] /\ reply \in [Call -> ReplyType] /\ Operator \in Call
      /\ tx' = [tx EXCEPT ![Operator] = Idle]
  BY <1>1, RotationAssumption DEF RotationInv, RowInv, TypeInv, TypeOK, Release, Becomes
<1>3. tx'[Operator].pc = "idle"
  BY <1>2 DEF Idle
<1> QED BY <1>1, <1>2, <1>3 DEF Answer

\* The SELECT finds every version under the old key, with the row it belongs to.
LEMMA SelectTargets ==
  ASSUME RotationInv, tx[Operator].pc # "idle", SelectVersions(Operator)
  PROVE  tx'[Operator].pc = "lock" /\ RewrapInv'
<1> DEFINE S == {t \in [ref : {r \in Ref : secrets[r] # NoRow},
                        secret_id : {v.secret_id : v \in secret_versions},
                        version : {v.version : v \in secret_versions}] :
                   /\ secrets[t.ref].id = t.secret_id
                   /\ \E v \in secret_versions : SameVersion(v, t) /\ Stale(Operator, v)}
<1>1. /\ tx' = [tx EXCEPT ![Operator] = [tx[Operator] EXCEPT !.pc = "lock", !.targets = S]]
      /\ UNCHANGED tables
  BY DEF SelectVersions, Becomes
<1>2. tx \in [Call -> Tx] /\ Operator \in Call /\ tx[Operator] \in Tx
  BY OperatorRuns DEF RotationInv, RowInv, TypeInv, TypeOK
<1>3. tx'[Operator].pc = "lock" /\ tx'[Operator].targets = S
  <2> HIDE DEF S
  <2> QED BY <1>1, <1>2 DEF Tx
<1>4. ASSUME NEW v \in secret_versions, v.envelope.key_id = OldKey
      PROVE  \E t \in S :
               SameVersion(v, t) /\ secrets[t.ref] # NoRow /\ secrets[t.ref].id = t.secret_id
  <2>1. PICK r \in Ref : secrets[r] # NoRow /\ secrets[r].id = v.secret_id
    BY DEF RotationInv, RowInv, VersionsDense
  <2>2. PICK t : t = [ref |-> r, secret_id |-> v.secret_id, version |-> v.version]
    OBVIOUS
  <2>3. SameVersion(v, t) /\ Stale(Operator, v)
    BY <1>4, <2>2, OperatorRuns, RotationAssumption DEF SameVersion, Stale
  <2>4. t \in S
    BY <2>1, <2>2, <2>3
  <2> QED BY <2>1, <2>2, <2>3, <2>4
<1>5. OldTargeted'
  <2> HIDE DEF S
  <2> QED BY <1>1, <1>3, <1>4 DEF OldTargeted, SameVersion, tables
<1> QED
  BY <1>3, <1>5 DEF RewrapInv, OldVersionsGone, OldBatchesHeld, OkMeansNone

\* A lock that is granted gives up no version that is still under the old key.
LEMMA LockKeepsTargets ==
  ASSUME RotationInv, tx[Operator].pc # "idle", LockVersions(Operator)
  PROVE  tx'[Operator].pc = "lock" /\ RewrapInv'
<1> DEFINE mine(r) == {t \in tx[Operator].targets : t.ref = r}
           still(r) == {t \in mine(r) :
                          /\ secrets[r] # NoRow
                          /\ secrets[r].id = t.secret_id
                          /\ \E v \in secret_versions :
                               SameVersion(v, t) /\ Stale(Operator, v)}
           After(r) == (tx[Operator].targets \ mine(r)) \cup still(r)
<1>1. PICK r \in Ref :
        /\ tx' = [tx EXCEPT ![Operator] = [tx[Operator] EXCEPT !.targets = After(r)]]
        /\ tx[Operator].pc = "lock"
        /\ UNCHANGED tables
  <2>1. ToLock(Operator) \subseteq Ref
    <3>1. tx[Operator] \in Tx
      BY OperatorRuns DEF RotationInv, RowInv, TypeInv, TypeOK
    <3> QED BY <3>1 DEF ToLock, TargetRefs, Tx, Target
  <2> QED BY <2>1 DEF LockVersions, Becomes
<1>2. tx \in [Call -> Tx] /\ Operator \in Call /\ tx[Operator] \in Tx
  BY OperatorRuns DEF RotationInv, RowInv, TypeInv, TypeOK
<1>3. tx'[Operator].pc = "lock" /\ tx'[Operator].targets = After(r)
  <2> HIDE DEF After
  <2> QED BY <1>1, <1>2 DEF Tx
<1>4. ASSUME NEW v \in secret_versions, v.envelope.key_id = OldKey
      PROVE  \E t \in After(r) :
               SameVersion(v, t) /\ secrets[t.ref] # NoRow /\ secrets[t.ref].id = t.secret_id
  <2>1. PICK t \in tx[Operator].targets :
          SameVersion(v, t) /\ secrets[t.ref] # NoRow /\ secrets[t.ref].id = t.secret_id
    BY <1>1, <1>4 DEF RotationInv, RewrapInv, OldTargeted
  <2>2. Stale(Operator, v)
    BY <1>4, OperatorRuns, RotationAssumption DEF Stale
  <2>3. t \in After(r)
    BY <2>1, <2>2
  <2> QED BY <2>1, <2>3
<1>5. OldTargeted'
  <2> HIDE DEF After
  <2> QED BY <1>1, <1>3, <1>4 DEF OldTargeted, SameVersion, tables
<1> QED
  BY <1>3, <1>5 DEF RewrapInv, OldVersionsGone, OldBatchesHeld, OkMeansNone

\* Once every lock is granted, what is under the old key is selected and goes.
LEMMA RewrapClears ==
  ASSUME RotationInv, tx[Operator].pc # "idle", RewrapVersions(Operator)
  PROVE  tx'[Operator].pc = "reseal" /\ RewrapInv'
<1>1. /\ secret_versions' = (secret_versions \ Selected(Operator)) \cup
           {Rewrapped(Operator, v) : v \in Selected(Operator)}
      /\ tx[Operator].pc = "lock"
  BY DEF RewrapVersions
<1>2. PICK n : tx' = [tx EXCEPT ![Operator] = [tx[Operator] EXCEPT
                        !.pc = "reseal", !.targets = {}, !.count = n]]
  BY DEF RewrapVersions, Becomes
<1>3. tx \in [Call -> Tx] /\ Operator \in Call /\ tx[Operator] \in Tx
  BY OperatorRuns DEF RotationInv, RowInv, TypeInv, TypeOK
<1>4. tx'[Operator].pc = "reseal"
  BY <1>2, <1>3 DEF Tx
<1>5. \A v \in Selected(Operator) : Rewrapped(Operator, v).envelope.key_id = NewKey
  <2> SUFFICES ASSUME NEW v \in Selected(Operator)
               PROVE  Rewrapped(Operator, v).envelope.key_id = NewKey
    OBVIOUS
  <2>1. v \in VersionRow
    BY DEF Selected, RotationInv, RowInv, TypeInv, TypeOK
  <2>2. Rewrapped(Operator, v).envelope = reseal(keyring[Operator], v.envelope)
    BY <2>1 DEF Rewrapped, VersionRow
  <2> QED BY <2>2, OperatorRuns DEF reseal, seal
<1>6. \A v \in secret_versions : v.envelope.key_id = OldKey => v \in Selected(Operator)
  BY <1>1 DEF RotationInv, RewrapInv, OldTargeted, Selected
<1>7. \A v \in secret_versions' : v.envelope.key_id # OldKey
  BY <1>1, <1>5, <1>6, RotationAssumption
<1> QED
  BY <1>4, <1>7 DEF RewrapInv, OldTargeted, OldVersionsGone, OldBatchesHeld, OkMeansNone

\* A batch that is left is expired, and its row held, or selected.
LEMMA SelectHolds ==
  ASSUME RotationInv, tx[Operator].pc # "idle", SelectBatches(Operator)
  PROVE  tx'[Operator].pc = "resealing" /\ RewrapInv'
<1> DEFINE S == {b \in Batch \ ExpiredAt(clock) :
                   /\ prepared_transactions[b] # NoRow
                   /\ prepared_transactions[b].envelope.key_id # keyring[Operator].active}
<1>1. /\ tx' = [tx EXCEPT ![Operator] = [tx[Operator] EXCEPT
                  !.pc = "resealing", !.began = clock, !.held = S]]
      /\ batch_lock' = [b \in Batch |-> IF b \in ExpiredAt(clock) THEN Operator
                                                                  ELSE batch_lock[b]]
      /\ tx[Operator].pc = "reseal"
      /\ UNCHANGED tables
  BY DEF SelectBatches, Becomes
<1>2. tx \in [Call -> Tx] /\ Operator \in Call /\ tx[Operator] \in Tx
  BY OperatorRuns DEF RotationInv, RowInv, TypeInv, TypeOK
<1>3. /\ tx'[Operator].pc = "resealing" /\ tx'[Operator].held = S
      /\ tx'[Operator].began = clock
  <2> HIDE DEF S
  <2> QED BY <1>1, <1>2 DEF Tx
<1>4. OldVersionsGone'
  BY <1>1 DEF RotationInv, RewrapInv, OldVersionsGone, tables
<1>5. OldBatchesHeld'
  <2> SUFFICES ASSUME NEW b \in Batch, prepared_transactions[b] # NoRow,
                      prepared_transactions[b].envelope.key_id = OldKey
               PROVE  \/ batch_lock'[b] = Operator
                      \/ b \in S /\ prepared_transactions[b].expires_at > clock
    <3> HIDE DEF S
    <3> QED BY <1>1, <1>3 DEF OldBatchesHeld, tables
  <2>1. CASE b \in ExpiredAt(clock)
    BY <1>1, <2>1
  <2>2. CASE b \notin ExpiredAt(clock)
    <3>1. prepared_transactions[b].expires_at \in Int /\ clock \in Int
      BY DEF RotationInv, RowInv, TypeInv, TypeOK, BatchRow
    <3>2. prepared_transactions[b].expires_at > clock
      BY <2>2, <3>1 DEF ExpiredAt
    <3> QED BY <2>2, <3>2, OperatorRuns, RotationAssumption
  <2> QED BY <2>1, <2>2
<1> QED
  BY <1>3, <1>4, <1>5 DEF RewrapInv, OldTargeted, OkMeansNone

\* The last statement deletes the former and re-seals the latter.
LEMMA ResealClears ==
  ASSUME RotationInv, tx[Operator].pc # "idle", ResealBatches(Operator)
  PROVE  tx'[Operator].pc = "idle" /\ OldKey \notin StoredKeys'
<1>1. /\ tx' = [tx EXCEPT ![Operator] = Idle]
      /\ tx[Operator].pc = "resealing"
      /\ UNCHANGED secret_versions
      /\ prepared_transactions' =
           [b \in Batch |->
              IF batch_lock[b] = Operator THEN NoRow
              ELSE IF b \in ToReseal(Operator)
                   THEN [prepared_transactions[b] EXCEPT !.envelope =
                           reseal(keyring[Operator], @)]
                   ELSE prepared_transactions[b]]
  BY DEF ResealBatches, AtReseal, Release, Becomes
<1>2. tx'[Operator].pc = "idle"
  BY <1>1, OperatorRuns DEF RotationInv, RowInv, TypeInv, TypeOK, Idle
<1>3. \A v \in secret_versions' : v.envelope.key_id # OldKey
  BY <1>1 DEF RotationInv, RewrapInv, OldVersionsGone
<1>4. ASSUME NEW b \in Batch, prepared_transactions'[b] # NoRow
      PROVE  prepared_transactions'[b].envelope.key_id # OldKey
  <2>1. batch_lock[b] # Operator
    BY <1>1, <1>4
  <2>2. CASE b \in ToReseal(Operator)
    <3>1. prepared_transactions[b] \in BatchRow
      BY <2>2 DEF ToReseal, RotationInv, RowInv, TypeInv, TypeOK
    <3>2. prepared_transactions'[b] =
            [prepared_transactions[b] EXCEPT !.envelope =
               reseal(keyring[Operator], prepared_transactions[b].envelope)]
      BY <1>1, <2>1, <2>2
    <3>3. prepared_transactions'[b].envelope =
            reseal(keyring[Operator], prepared_transactions[b].envelope)
      BY <3>1, <3>2 DEF BatchRow
    <3> QED BY <3>3, OperatorRuns, RotationAssumption DEF reseal, seal
  <2>3. CASE b \notin ToReseal(Operator)
    <3>1. prepared_transactions'[b] = prepared_transactions[b]
      BY <1>1, <2>1, <2>3
    <3>2. ASSUME prepared_transactions[b].envelope.key_id = OldKey
          PROVE  b \in ToReseal(Operator)
      BY <1>1, <1>4, <2>1, <3>1, <3>2, OperatorRuns, RotationAssumption
      DEF RotationInv, RewrapInv, OldBatchesHeld, ToReseal
    <3> QED BY <2>3, <3>1, <3>2
  <2> QED BY <2>2, <2>3
<1> QED BY <1>2, <1>3, <1>4 DEF StoredKeys

LEMMA OperatorStep ==
  ASSUME RotationInv, RowInv', Progress(Operator) \/ Lose(Operator),
         UNCHANGED <<stage, keyring_file>>
  PROVE  RotationInv'
<1>1. CASE tx[Operator].pc = "idle"
  <2>1. Awaits(Operator) = {}
    BY <1>1 DEF Awaits
  <2>2. ~DeadlockAbort(Operator)
    BY <2>1 DEF DeadlockAbort, Deadlocked
  <2> QED
    BY <1>1, <2>2 DEF Progress, Block, RefuseReference, SelectForUpdate, Upsert, UpsertRefused,
       DeleteRow, RevokeRow, RowMissing, Commit, Get, RefuseBatch, Purge, Prepare, Begin,
       TakeBatch, RefuseCommit, DropExpired, Abort, SelectVersions, LockVersions,
       RewrapVersions, RewrapFails, SelectBatches, ResealBatches, ResealFails, Lose,
       At, AtUpsert, AtReseal
<1>2. CASE tx[Operator].pc # "idle"
  <2>1. Operator \in Call /\ Effects(Operator)
    BY <1>2, OperatorRuns, StepEffects, SMTT(30) DEF RotationInv
  <2>2. \/ SelectVersions(Operator) \/ LockVersions(Operator) \/ RewrapVersions(Operator)
        \/ SelectBatches(Operator) \/ ResealBatches(Operator)
        \/ RewrapFails(Operator) \/ ResealFails(Operator) \/ DeadlockAbort(Operator)
        \/ Lose(Operator)
    BY <1>2, OperatorRuns
    DEF Progress, Block, RefuseReference, SelectForUpdate, Upsert, UpsertRefused,
     DeleteRow, RevokeRow, RowMissing, Commit, Get, RefuseBatch, Purge, Prepare, Begin,
     TakeBatch, RefuseCommit, DropExpired, Abort, At, AtUpsert
  <2>3. tx'[Operator].pc \in {"idle", "lock", "reseal", "resealing"} /\ RewrapInv'
    <3>1. CASE SelectVersions(Operator) \/ LockVersions(Operator)
      BY <1>2, <3>1, SelectTargets, LockKeepsTargets
    <3>2. CASE RewrapVersions(Operator) \/ SelectBatches(Operator)
      BY <1>2, <3>2, RewrapClears, SelectHolds
    <3>3. CASE ResealBatches(Operator)
      BY <1>2, <3>3, ResealClears, OperatorEnds
    <3>4. CASE \/ RewrapFails(Operator) \/ ResealFails(Operator) \/ DeadlockAbort(Operator)
               \/ Lose(Operator)
      BY <1>2, <3>4, OperatorFails, OperatorEnds
    <3> QED BY <2>2, <3>1, <3>2, <3>3, <3>4
  <2> QED BY <1>2, <2>1, <2>3, OperatorFrame
<1> QED BY <1>1, <1>2

-----------------------------------------------------------------------------
(* The operator's own steps, and restarts *)

\* No process runs a statement.
LEMMA QuietRows ==
  ASSUME RowInv, UNCHANGED vars
  PROVE  RowInv'
BY RowStep

LEMMA ProcedureStep ==
  ASSUME RotationInv, PublishBoth \/ ReadResult \/ RetireOldKey \/ UNCHANGED rvars
  PROVE  RotationInv'
<1>1. UNCHANGED vars
  BY DEF PublishBoth, ReadResult, RetireOldKey, rvars
<1>2. RowInv'
  BY <1>1, QuietRows DEF RotationInv
<1>3. UNCHANGED <<secrets, secret_versions, prepared_transactions, batch_lock, tx, reply, keyring>>
  BY <1>1 DEF vars, tables, locks
<1>4. StoredKeys' = StoredKeys /\ \A s \in Server : WrittenKeys(s)' = WrittenKeys(s)
  BY <1>3 DEF StoredKeys, WrittenKeys
<1>5. \A keys : KeysUpTo(keys) => KeysUpTo(keys)'
  BY <1>4 DEF KeysUpTo
<1>6. WritesUnderActive'
  BY <1>3, <1>4 DEF RotationInv, WritesUnderActive
<1>7. tx[Operator].pc # "idle" => stage = "running"
  BY RotationAssumption DEF RotationInv, OnlyRewrapBeside
<1>8. CASE PublishBoth
  <2>1. stage = "serving" /\ stage' = "restarting" /\ keyring_file' = Both
    BY <1>8 DEF PublishBoth
  <2>2. KeyringsFollowFile' /\ OnlyRewrapBeside'
    BY <1>3, <2>1 DEF RotationInv, KeyringsFollowFile, OnlyRewrapBeside
  <2>3. KeysByStage'
    BY <1>5, <2>1 DEF RotationInv, KeysByStage
  <2>4. RewrapInv'
    BY <1>3, <1>7, <2>1 DEF RewrapInv, OldTargeted, OldVersionsGone, OldBatchesHeld, OkMeansNone
  <2> QED BY <1>2, <1>6, <2>2, <2>3, <2>4 DEF RotationInv
<1>9. CASE ReadResult
  <2>1. /\ stage = "running" /\ tx[Operator].pc = "idle" /\ UNCHANGED keyring_file
        /\ \/ stage' = "rewrapped" /\ reply[Operator].code = "Ok"
           \/ stage' = "rewrapping"
    BY <1>9 DEF ReadResult
  <2>2. KeyringsFollowFile'
    BY <1>3, <2>1 DEF RotationInv, KeyringsFollowFile
  <2>3. OnlyRewrapBeside'
    BY <1>3, <2>1 DEF RotationInv, OnlyRewrapBeside
  <2>4. KeysUpTo({OldKey, NewKey})'
    BY <1>5 DEF RotationInv, KeysByStage
  <2>5. ASSUME stage' = "rewrapped" PROVE KeysUpTo({NewKey})'
    <3>1. OldKey \notin StoredKeys
      BY <2>1, <2>5 DEF RotationInv, RewrapInv, OkMeansNone
    <3>2. StoredKeys \subseteq {NewKey}
      BY <3>1 DEF RotationInv, KeysByStage, KeysUpTo
    <3>3. \A s \in Server : WrittenKeys(s) \subseteq {NewKey}
      BY <2>1, ActiveKeys
    <3> QED BY <1>5, <3>2, <3>3 DEF KeysUpTo
  <2>6. KeysByStage'
    BY <2>1, <2>4, <2>5 DEF KeysByStage
  <2>7. RewrapInv'
    BY <1>3, <2>1 DEF RewrapInv, OldTargeted, OldVersionsGone, OldBatchesHeld, OkMeansNone
  <2> QED BY <1>2, <1>6, <2>2, <2>3, <2>6, <2>7 DEF RotationInv
<1>10. CASE RetireOldKey
  <2>1. stage = "rewrapped" /\ stage' = "retiring" /\ keyring_file' = NewOnly
    BY <1>10 DEF RetireOldKey
  <2>2. KeyringsFollowFile' /\ OnlyRewrapBeside'
    BY <1>3, <2>1 DEF RotationInv, KeyringsFollowFile, OnlyRewrapBeside
  <2>3. KeysByStage'
    BY <1>5, <2>1 DEF RotationInv, KeysByStage
  <2>4. RewrapInv'
    BY <1>3, <1>7, <2>1 DEF RewrapInv, OldTargeted, OldVersionsGone, OldBatchesHeld, OkMeansNone
  <2> QED BY <1>2, <1>6, <2>2, <2>3, <2>4 DEF RotationInv
<1>11. CASE UNCHANGED rvars
  <2>1. UNCHANGED <<stage, keyring_file>>
    BY <1>11 DEF rvars
  <2>2. KeyringsFollowFile' /\ OnlyRewrapBeside'
    BY <1>3, <2>1 DEF RotationInv, KeyringsFollowFile, OnlyRewrapBeside
  <2>3. KeysByStage'
    BY <1>5, <2>1 DEF RotationInv, KeysByStage
  <2>4. RewrapInv'
    BY <1>3, <1>4, <2>1
    DEF RotationInv, RewrapInv, OldTargeted, OldVersionsGone, OldBatchesHeld, OkMeansNone
  <2> QED BY <1>2, <1>6, <2>2, <2>3, <2>4 DEF RotationInv
<1> QED BY <1>8, <1>9, <1>10, <1>11

\* The database's clock moves.
LEMMA TickStep ==
  ASSUME RotationInv, RowInv', Tick, UNCHANGED <<stage, keyring_file>>
  PROVE  RotationInv'
<1>1. UNCHANGED <<secrets, secret_versions, prepared_transactions, batch_lock, tx, reply, keyring>>
  BY DEF Tick, tables, locks
<1>2. KeyringsFollowFile' /\ OnlyRewrapBeside'
  BY <1>1 DEF RotationInv, KeyringsFollowFile, OnlyRewrapBeside
<1>3. StoredKeys' = StoredKeys /\ \A s \in Server : WrittenKeys(s)' = WrittenKeys(s)
  BY <1>1 DEF StoredKeys, WrittenKeys
<1>4. KeysByStage' /\ WritesUnderActive'
  BY <1>1, <1>3 DEF RotationInv, KeysByStage, KeysUpTo, WritesUnderActive
<1>5. RewrapInv'
  BY <1>1, <1>3
  DEF RotationInv, RewrapInv, OldTargeted, OldVersionsGone, OldBatchesHeld, OkMeansNone
<1> QED BY <1>2, <1>4, <1>5 DEF RotationInv

\* A restart gives up what the server had in flight and reads the file.
LEMMA KeyringFileTyped ==
  ASSUME RotationInv
  PROVE  keyring_file \in {OldOnly, Both, NewOnly} /\ keyring_file \in Keyring
BY RotationAssumption
DEF RotationInv, KeyringsFollowFile, OldOnly, Both, NewOnly, Keyring

LEMMA RestartStep ==
  ASSUME RotationInv, NEW s \in Server, Restart(s)
  PROVE  RotationInv'
<1>1. /\ stage \in {"restarting", "retiring"}
      /\ keyring' = [keyring EXCEPT ![s] = keyring_file]
      /\ Release(s) /\ tx' = [tx EXCEPT ![s] = Idle]
      /\ UNCHANGED <<secrets, secret_versions, prepared_transactions, audit_events, clock,
                     next_id, bounds, stage, keyring_file>>
  BY DEF Restart, Release, Becomes, tables
<1>2. /\ s \in Call /\ Operator \in Call \ {s}
      /\ tx \in [Call -> Tx] /\ keyring \in [Call -> Keyring] /\ reply \in [Call -> ReplyType]
  BY RotationAssumption DEF RotationInv, RowInv, TypeInv, TypeOK
<1>3. TypeInv'
  <2>1. reply' \in [Call -> ReplyType]
    <3>1. Answer("Unavailable") \in ReplyType
      BY AnswerTyped DEF Code
    <3> QED BY <1>2, <3>1 DEF Restart
  <2>2. keyring' \in [Call -> Keyring]
    BY <1>1, <1>2, KeyringFileTyped
  <2> QED
    BY <1>1, <1>2, <2>1, <2>2, ReleaseTyped DEF RotationInv, RowInv, TypeInv, TypeOK, bounds
<1>4. RowInv'
  BY <1>1, <1>2, <1>3, ReleaseQuiet DEF RotationInv
<1>5. /\ tx'[s] = Idle /\ keyring'[s] = keyring_file
      /\ \A d \in Call \ {s} : tx'[d] = tx[d] /\ keyring'[d] = keyring[d]
  BY <1>1, <1>2
<1>6. KeyringsFollowFile'
  BY <1>1, <1>5, RotationAssumption DEF RotationInv, KeyringsFollowFile
<1>7. OnlyRewrapBeside'
  BY <1>1, <1>5 DEF RotationInv, OnlyRewrapBeside
<1>8. StoredKeys' = StoredKeys
  BY <1>1 DEF StoredKeys
<1>9. /\ WrittenKeys(s)' = {}
      /\ \A d \in Server \ {s} : WrittenKeys(d)' = WrittenKeys(d)
  BY <1>5, RotationAssumption DEF WrittenKeys, Idle
<1>10. \A keys : KeysUpTo(keys) => KeysUpTo(keys)'
  BY <1>8, <1>9 DEF KeysUpTo
<1>11. KeysByStage'
  BY <1>1, <1>10 DEF RotationInv, KeysByStage
<1>12. WritesUnderActive'
  <2> SUFFICES ASSUME NEW d \in Server, keyring'[d].active = NewKey
               PROVE  WrittenKeys(d)' \subseteq {NewKey}
    BY DEF WritesUnderActive
  <2> QED BY <1>5, <1>9, RotationAssumption DEF RotationInv, WritesUnderActive
<1>13. tx'[Operator].pc = "idle"
  BY <1>1, <1>2, <1>5, RotationAssumption DEF RotationInv, OnlyRewrapBeside
<1>14. RewrapInv'
  BY <1>1, <1>13 DEF RewrapInv, OldTargeted, OldVersionsGone, OldBatchesHeld, OkMeansNone
<1> QED BY <1>4, <1>6, <1>7, <1>11, <1>12, <1>14 DEF RotationInv

\* The rewrap command starts, on the keyring with both keys.
LEMMA RunRewrapStep ==
  ASSUME RotationInv, RunRewrap
  PROVE  RotationInv'
<1>1. /\ Operator \in Call \ Server
      /\ tx \in [Call -> Tx] /\ keyring \in [Call -> Keyring]
  BY RotationAssumption DEF RotationInv, RowInv, TypeInv, TypeOK
<1> DEFINE rq == [op |-> "rewrap"]
           t == [Idle EXCEPT !.pc = "rewrap", !.req = rq, !.began = clock, !.todo = <<>>]
<1>2. /\ tx' = [tx EXCEPT ![Operator] = t]
      /\ keyring' = [keyring EXCEPT ![Operator] = keyring_file]
      /\ stage \in {"restarting", "rewrapping"} /\ stage' = "running"
      /\ \A s \in Server : keyring[s] = keyring_file
      /\ UNCHANGED <<tables, locks, reply, clock, next_id, bounds, keyring_file>>
  BY DEF RunRewrap, Start, Becomes, First, AllRestarted
<1>3. /\ t.dirty = [r \in Ref |-> Untouched] /\ t.written = {} /\ t.dead = {}
      /\ t.pc = "rewrap" /\ t.req = rq
  BY DEF Idle
<1>4. t \in Tx
  <2>1. rq \in Request
    BY DEF Request
  <2>2. clock \in Int /\ <<>> \in Seq(Mutation)
    BY DEF RotationInv, RowInv, TypeInv, TypeOK
  <2> QED BY <2>1, <2>2, IdleTyped DEF Tx, Step
<1>5. AtStatement(t)
  BY <1>3, FS_EmptySet DEF AtStatement
<1> HIDE DEF t
<1>6. TypeInv'
  <2>1. tx' \in [Call -> Tx] /\ \A c \in Call : AtStatement(tx'[c])
    BY <1>1, <1>2, <1>4, <1>5 DEF RotationInv, RowInv, TypeInv
  <2>2. keyring' \in [Call -> Keyring]
    BY <1>1, <1>2, KeyringFileTyped
  <2> QED
    BY <1>2, <2>1, <2>2 DEF RotationInv, RowInv, TypeInv, TypeOK, tables, locks, bounds
<1>7. RowInv'
  <2>1. Cleared(Operator) /\ Waits(Operator)
    BY <1>1, <1>2, <1>3 DEF Cleared, Waits
  <2>2. \A d \in Call \ {Operator} : Kept(d) /\ Waits(d)
    BY <1>1, <1>2 DEF Kept, Waits, locks
  <2>3. next_id' >= next_id /\ UNCHANGED <<secrets, secret_versions>>
    BY <1>2 DEF RotationInv, RowInv, TypeInv, TypeOK, tables
  <2> QED BY <1>6, <2>1, <2>2, <2>3, UnchangedKeys, QuietStep DEF RotationInv
<1>8. /\ tx'[Operator] = t /\ keyring'[Operator] = keyring_file
      /\ \A d \in Call \ {Operator} : tx'[d] = tx[d] /\ keyring'[d] = keyring[d]
  BY <1>1, <1>2
<1>9. \A s \in Server : tx'[s] = tx[s] /\ keyring'[s] = keyring[s]
  BY <1>8, RotationAssumption
<1>10. keyring_file = Both
  BY <1>2 DEF RotationInv, KeyringsFollowFile
<1>11. KeyringsFollowFile'
  BY <1>2, <1>9, <1>10 DEF KeyringsFollowFile
<1>12. OnlyRewrapBeside'
  BY <1>2, <1>3, <1>8, <1>10 DEF RotationInv, OnlyRewrapBeside
<1>13. StoredKeys' = StoredKeys /\ \A s \in Server : WrittenKeys(s)' = WrittenKeys(s)
  BY <1>2, <1>9 DEF StoredKeys, WrittenKeys, tables
<1>14. KeysByStage' /\ WritesUnderActive'
  BY <1>2, <1>9, <1>13 DEF RotationInv, KeysByStage, KeysUpTo, WritesUnderActive
<1>15. RewrapInv'
  BY <1>3, <1>8 DEF RewrapInv, OldTargeted, OldVersionsGone, OldBatchesHeld, OkMeansNone
<1> QED BY <1>7, <1>11, <1>12, <1>14, <1>15 DEF RotationInv

-----------------------------------------------------------------------------
(* The invariant and the theorems *)

LEMMA InitRotation == RInit => RotationInv
<1> SUFFICES ASSUME RInit PROVE RotationInv
  OBVIOUS
<1>1. RowInv
  BY InitRows DEF RInit
<1>2. /\ stage = "serving" /\ keyring_file = OldOnly /\ keyring = InitialKeyring
      /\ secret_versions = {} /\ prepared_transactions = [b \in Batch |-> NoRow]
      /\ tx = [c \in Call |-> Idle]
  BY DEF RInit, Init
<1>3. \A c \in Call : tx[c].pc = "idle" /\ tx[c].written = {}
  BY <1>2 DEF Idle
<1>4. KeyringsFollowFile
  BY <1>2, RotationAssumption DEF KeyringsFollowFile
<1>5. OnlyRewrapBeside
  BY <1>3 DEF OnlyRewrapBeside
<1>6. StoredKeys = {} /\ \A s \in Server : WrittenKeys(s) = {}
  BY <1>2, <1>3, RotationAssumption DEF StoredKeys, WrittenKeys
<1>7. KeysByStage /\ WritesUnderActive
  BY <1>6 DEF KeysByStage, KeysUpTo, WritesUnderActive
<1>8. tx[Operator].pc = "idle"
  BY <1>3, RotationAssumption
<1>9. RewrapInv
  BY <1>2, <1>8 DEF RewrapInv, OldTargeted, OldVersionsGone, OldBatchesHeld, OkMeansNone
<1> QED BY <1>1, <1>4, <1>5, <1>7, <1>9 DEF RotationInv

LEMMA RotationStep == RotationInv /\ [RNext]_rvars => RotationInv'
<1> SUFFICES ASSUME RotationInv, [RNext]_rvars PROVE RotationInv'
  OBVIOUS
<1>1. ASSUME NEW s \in Server, Invoke(s) \/ Progress(s), UNCHANGED <<stage, keyring_file>>
      PROVE  RotationInv'
  <2>1. RowInv'
    BY <1>1, RowStep, RotationAssumption DEF RotationInv, Next
  <2> QED BY <1>1, <2>1, ServerStep
<1>2. ASSUME Progress(Operator) \/ Lose(Operator), UNCHANGED <<stage, keyring_file>>
      PROVE  RotationInv'
  <2>1. RowInv'
    BY <1>2, RowStep, RotationAssumption DEF RotationInv, Next
  <2> QED BY <1>2, <2>1, OperatorStep
<1>3. ASSUME Tick, UNCHANGED <<stage, keyring_file>> PROVE RotationInv'
  <2>1. RowInv'
    BY <1>3, RowStep DEF RotationInv, Next
  <2> QED BY <1>3, <2>1, TickStep
<1> QED
  BY <1>1, <1>2, <1>3, ProcedureStep, RestartStep, RunRewrapStep DEF RNext

\* Outside the restart that hands out the new key every server can open every
\* stored version and every held batch (crates/secrets-postgres, rewrap_all, and
\* website/docs/operations.md), however many servers write meanwhile and however
\* often the command fails and is run again.
THEOREM ServersOpenEverything == RSpec => []EveryServerOpensEverything
<1>1. RotationInv => EveryServerOpensEverything
  <2> SUFFICES ASSUME RotationInv, stage # "restarting", NEW s \in Server
               PROVE  StoredKeys \subseteq keyring[s].keys
    BY DEF EveryServerOpensEverything
  <2> QED
    BY DEF RotationInv, KeyringsFollowFile, KeysByStage, KeysUpTo, OldOnly, Both, NewOnly
<1> QED BY <1>1, InitRotation, RotationStep, PTL DEF RSpec

\* Once the old key is retired no stored version and no held batch names it.
THEOREM RetiredKeyUnused == RSpec => []NothingNamesRetiredKey
<1>1. RotationInv => NothingNamesRetiredKey
  BY RotationAssumption DEF RotationInv, KeysByStage, KeysUpTo, NothingNamesRetiredKey
<1> QED BY <1>1, InitRotation, RotationStep, PTL DEF RSpec
=============================================================================
