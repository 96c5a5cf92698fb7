---------------------------- MODULE PostgresStore ----------------------------
(***************************************************************************)
(* PostgresStore (crates/secrets-postgres) as the processes that share one *)
(* PostgreSQL database run it.  A call is one request in flight in one     *)
(* process; each of its SQL statements is a step.  The transactions run at *)
(* READ COMMITTED: a statement sees what was committed when it started     *)
(* and the transaction's own writes, a row lock is held from the statement *)
(* that takes it to the end of the transaction, and a statement that had   *)
(* to wait for a row re-reads that row, and only that row, when it may go  *)
(* on.  Uncommitted writes are kept apart, in the call's `dirty`,          *)
(* `written`, `dead` and `events`, and reach the tables at COMMIT.         *)
(***************************************************************************)
EXTENDS Integers, Sequences, FiniteSets, Bags, Envelope

CONSTANTS
  Call,           \* the slots for calls in flight, each in its own process
  Ref,            \* SecretRef: tenant, namespace and key, as one value
  MalformedRef,   \* the references validate_ref refuses
  Batch,          \* keys of prepared_transactions: tenant and transaction id
  TenantOf,       \* the tenant of a reference and of a batch key
  Owner,          \* owner subjects
  Value,          \* secret values
  Requests,       \* the calls the environment makes
  Lifetime,       \* BATCH_LIFETIME in ticks of the clock
  InitialKeyring, \* the keyring each process read at its start
  MaxCalls,       \* bound: calls made
  MaxFaults,      \* bound: connection losses and out-of-band column edits
  MaxClock,       \* bound: the clock
  Nobody,         \* holder of a free lock
  NoRow,          \* absence of a row
  Untouched,      \* a reference a transaction has not written
  NoValue         \* a reply that carries no value

Disclosure == {"WorkloadOnly", "UserRevealable"}

\* core::Mutation (put or delete), and the statement of revoke beside them.
PutMutation == [kind : {"put"}, ref : Ref, owner : Owner,
                disclosure : Disclosure, value : Value]
DeleteMutation == [kind : {"delete"}, ref : Ref]
RevokeMutation == [kind : {"revoke"}, ref : Ref]
BatchMutation == PutMutation \cup DeleteMutation
Mutation == BatchMutation \cup RevokeMutation

\* The calls of the SecretStore trait, and rewrap_all.
Request ==
       {[op |-> m.kind, muts |-> <<m>>] : m \in Mutation}
  \cup [op : {"get"}, ref : Ref]
  \cup [op : {"prepare"}, batch : Batch, muts : Seq(BatchMutation)]
  \cup [op : {"commit", "abort"}, batch : Batch]
  \cup [op : {"rewrap"}]
NoRequest == [op |-> "none"]

\* StoreError, and success.
Code == {"Ok", "NotFound", "DeleteTargetMissing", "Conflict", "Invalid",
         "Crypto", "Unavailable"}

\* The rows of the tables.
SecretRow == [id : Nat, owner : Owner, disclosure : Disclosure,
              state : {"active", "revoked"}, current_version : Nat]
Aad == [reference : Ref, version : Nat, disclosure : Disclosure]
VersionRow == [secret_id : Nat, version : Nat, envelope : EnvelopeOf(Aad, Value)]
Payload == [expires_at : Int, muts : Seq(BatchMutation)]
BatchRow == [expires_at : Int, envelope : EnvelopeOf(Batch, Payload)]
Event == [secret_id : Nat, action : {"put", "delete", "revoke", "rewrap", "commit_batch"}]

ASSUME StoreAssumption ==
  /\ Lifetime \in Nat /\ MaxCalls \in Nat /\ MaxFaults \in Nat /\ MaxClock \in Nat
  /\ InitialKeyring \in [Call -> Keyring]
  /\ Requests \subseteq Request
  /\ MalformedRef \subseteq Ref
  /\ Nobody \notin Call
  /\ NoRow \notin SecretRow /\ NoRow \notin BatchRow
  /\ Untouched \notin SecretRow /\ Untouched # NoRow

VARIABLES
  secrets,          \* table secrets, by its unique (tenant, namespace, secret_key)
  secret_versions,  \* table secret_versions, a set of rows
  prepared_transactions, \* table prepared_transactions, by its primary key
  audit_events,     \* table audit_events, as a bag: nothing depends on its order
  row_lock,         \* who holds the row of a reference, or its place in the unique index
  batch_lock,       \* who holds a row of prepared_transactions
  tx,               \* the state of each call
  reply,            \* what each slot's last call answered
  keyring,          \* the keyring of each process
  clock,            \* the database's clock
  next_id,          \* Uuid::now_v7(): ids are never reused
  calls, faults     \* how many there were, for the bounds

tables == <<secrets, secret_versions, prepared_transactions, audit_events>>
locks == <<row_lock, batch_lock>>
bounds == <<calls, faults>>
vars == <<tables, locks, tx, reply, keyring, clock, next_id, bounds>>

-----------------------------------------------------------------------------
(* Calls, their transactions, and their replies *)

Target == [ref : Ref, secret_id : Nat, version : Nat]
Step == {"idle", "exec", "upsert", "purge", "insert", "begin", "take", "abort",
         "get", "rewrap", "lock", "reseal", "resealing"}
Tx == [pc : Step,             \* the statement the call is at
       req : Request \cup {NoRequest},
       todo : Seq(Mutation),  \* mutations still to run
       began : Int,           \* now() of the transaction; the reading prepare seals from
       snap : Nat,            \* the id a waiting statement saw, 0 when none waits
       found : [id : Nat, version : Nat],  \* id and version put_tx chose or revoke read
       dirty : [Ref -> SecretRow \cup {NoRow, Untouched}],
       written : SUBSET VersionRow,
       dead : SUBSET Nat,     \* ids whose row it deleted
       events : Seq(Event),   \* audit rows inserted
       targets : SUBSET Target,  \* versions rewrap_all selected
       held : SUBSET Batch,   \* batches reseal_batches selected
       count : Nat]           \* rows rewrap_all counted

Idle == [pc |-> "idle", req |-> NoRequest, todo |-> <<>>, began |-> 0, snap |-> 0,
         found |-> [id |-> 0, version |-> 0],
         dirty |-> [r \in Ref |-> Untouched], written |-> {}, dead |-> {},
         events |-> <<>>, targets |-> {}, held |-> {}, count |-> 0]

ReplyType == [code : Code, version : Nat, value : Value \cup {NoValue}]
Answer(code) == [code |-> code, version |-> 0, value |-> NoValue]

Init ==
  /\ secrets = [r \in Ref |-> NoRow]
  /\ secret_versions = {}
  /\ prepared_transactions = [b \in Batch |-> NoRow]
  /\ audit_events = EmptyBag
  /\ row_lock = [r \in Ref |-> Nobody]
  /\ batch_lock = [b \in Batch |-> Nobody]
  /\ tx = [c \in Call |-> Idle]
  /\ reply = [c \in Call |-> Answer("Ok")]
  /\ keyring = InitialKeyring
  /\ clock = 0 /\ next_id = 1 /\ calls = 0 /\ faults = 0

BagOfSeq(s) == [e \in {s[i] : i \in DOMAIN s} |-> Cardinality({i \in DOMAIN s : s[i] = e})]

\* The call goes on as t.
Becomes(c, t) == tx' = [tx EXCEPT ![c] = t]

\* A call leaves: its locks are free, its slot is idle and its reply is known.
ReleaseRowsOnly(c) ==  \* mutant
  /\ row_lock' = [r \in Ref |-> IF row_lock[r] = c THEN Nobody ELSE row_lock[r]]
  /\ UNCHANGED batch_lock
  /\ Becomes(c, Idle)
Release(c) ==
  /\ row_lock' = [r \in Ref |-> IF row_lock[r] = c THEN Nobody ELSE row_lock[r]]
  /\ batch_lock' = [b \in Batch |-> IF batch_lock[b] = c THEN Nobody ELSE batch_lock[b]]
  /\ Becomes(c, Idle)

\* The call ends with the reply `r`.  A reply of a call that changed the
\* database may be lost with the connection: the change stays, and the caller
\* is told Unavailable.
Reply(c, r) ==
  \/ reply' = [reply EXCEPT ![c] = r] /\ UNCHANGED faults
  \/ /\ faults < MaxFaults
     /\ reply' = [reply EXCEPT ![c] = Answer("Unavailable")]
     /\ faults' = faults + 1

\* The transaction is dropped without COMMIT and nothing it wrote remains.
Rollback(c, code) ==
  /\ Release(c)
  /\ reply' = [reply EXCEPT ![c] = Answer(code)]
  /\ UNCHANGED <<tables, keyring, clock, next_id, bounds>>

\* A call starts.  The first statement depends on what it is.
First(op) ==
  CASE op \in {"put", "delete", "revoke"} -> "exec"
    [] op \in {"prepare", "commit"} -> "purge"
    [] OTHER -> op
Start(c, rq) ==
  /\ tx[c].pc = "idle"
  /\ Becomes(c, [Idle EXCEPT
                    !.pc = First(rq.op), !.req = rq, !.began = clock,
                    !.todo = IF rq.op \in {"put", "delete", "revoke"} THEN rq.muts ELSE <<>>])
Invoke(c) ==
  /\ calls < MaxCalls
  /\ \E rq \in Requests : Start(c, rq)
  /\ calls' = calls + 1
  /\ UNCHANGED <<tables, locks, reply, keyring, clock, next_id, faults>>

-----------------------------------------------------------------------------
(* Statements on the rows of `secrets` *)

\* What a statement of c finds under a reference: its own write, or the
\* committed row.
Seen(c, r) == IF tx[c].dirty[r] = Untouched THEN secrets[r] ELSE tx[c].dirty[r]

Free(c, r) == row_lock[r] \in {Nobody, c}

\* c is at a statement on the row of r.
At(c, r, kind) ==
  /\ tx[c].pc = "exec"
  /\ tx[c].todo # <<>>
  /\ Head(tx[c].todo).ref = r
  /\ Head(tx[c].todo).kind = kind

\* The row is held by another transaction: wait, remembering which row it was.
Block(c) ==
  \E r \in Ref :
    /\ \E kind \in {"put", "delete", "revoke"} : At(c, r, kind)
    /\ ~Free(c, r)
    /\ tx[c].snap = 0
    /\ secrets[r] # NoRow
    /\ Becomes(c, [tx[c] EXCEPT !.snap = secrets[r].id])
    /\ UNCHANGED <<tables, locks, reply, keyring, clock, next_id, bounds>>

\* The statement can run: nobody holds the row, or there is no committed row
\* to wait for (an uncommitted insert is invisible).
Ready(c, r) == Free(c, r) \/ (tx[c].snap = 0 /\ secrets[r] = NoRow)

\* The row it then returns.  A waiting statement gives up a row that was
\* deleted meanwhile, and does not see one inserted in its place.
Found(c, r) ==
  LET row == Seen(c, r)
  IN  IF row # NoRow /\ tx[c].snap \in {0, row.id} THEN row ELSE NoRow

\* put_tx: validate_ref.
RefuseReference(c) ==
  /\ \E r \in MalformedRef : At(c, r, "put")
  /\ Rollback(c, "Invalid")

\* put_tx: SELECT id, current_version ... FOR UPDATE.
SelectForUpdate(c) ==
  \E r \in Ref \ MalformedRef :
    /\ At(c, r, "put") /\ Ready(c, r)
    /\ LET row == Found(c, r)
       IN  IF row = NoRow
           THEN /\ Becomes(c, [tx[c] EXCEPT
                               !.pc = "upsert", !.snap = 0,
                               !.found = [id |-> next_id, version |-> 1]])
                /\ next_id' = next_id + 1
                /\ UNCHANGED row_lock
           ELSE /\ Becomes(c, [tx[c] EXCEPT
                               !.pc = "upsert", !.snap = 0,
                               !.found = [id |-> row.id,
                                          version |-> row.current_version + 1]])
                /\ row_lock' = [row_lock EXCEPT ![r] = c]
                /\ UNCHANGED next_id
    /\ UNCHANGED <<tables, batch_lock, reply, keyring, clock, bounds>>

\* put_tx: the row INSERT ... ON CONFLICT DO UPDATE leaves under r.
UpsertRow(c, r) ==
  LET row == Seen(c, r)
      put == Head(tx[c].todo)
  IN  [id |-> IF row = NoRow THEN tx[c].found.id ELSE row.id,
       owner |-> put.owner, disclosure |-> put.disclosure, state |-> "active",
       current_version |-> tx[c].found.version]

\* The row INSERT INTO secret_versions then adds.
SealedUnderOldDisclosure(c, r) ==  \* mutant
  LET put == Head(tx[c].todo)
      found == tx[c].found
      before == IF Seen(c, r) = NoRow THEN put.disclosure ELSE Seen(c, r).disclosure
  IN  [secret_id |-> found.id, version |-> found.version,
       envelope |-> seal(keyring[c], associated_data(r, found.version, before), put.value)]
NewVersion(c, r) ==
  LET put == Head(tx[c].todo)
      found == tx[c].found
  IN  [secret_id |-> found.id, version |-> found.version,
       envelope |-> seal(keyring[c],
                         associated_data(r, found.version, put.disclosure), put.value)]

\* secret_versions.secret_id REFERENCES secrets(id): the id may name no other
\* row than the one just upserted.
NoForeignKey(c, r) == TRUE  \* mutant
ForeignKeyHolds(c, r) == UpsertRow(c, r).id = tx[c].found.id

SameVersion(v, w) == v.secret_id = w.secret_id /\ v.version = w.version
PrimaryKeyFree(c, r) ==
  ~\E v \in secret_versions \cup tx[c].written : SameVersion(v, NewVersion(c, r))

AtUpsert(c, r) == tx[c].pc = "upsert" /\ Head(tx[c].todo).ref = r /\ Free(c, r)

\* put_tx from the upsert on: both inserts and the audit row.
Upsert(c) ==
  \E r \in Ref :
    /\ AtUpsert(c, r)
    /\ ForeignKeyHolds(c, r) /\ PrimaryKeyFree(c, r)
    /\ Becomes(c, [tx[c] EXCEPT
                      !.pc = "exec", !.todo = Tail(@),
                      !.dirty[r] = UpsertRow(c, r),
                      !.written = @ \cup {NewVersion(c, r)},
                      !.events = Append(@, [secret_id |-> tx[c].found.id, action |-> "put"])])
    /\ row_lock' = [row_lock EXCEPT ![r] = c]
    /\ UNCHANGED <<tables, batch_lock, reply, keyring, clock, next_id, bounds>>

\* put_tx: a row appeared under r after the SELECT found none.
UpsertRefused(c) ==
  /\ \E r \in Ref :
       AtUpsert(c, r) /\ ~(ForeignKeyHolds(c, r) /\ PrimaryKeyFree(c, r))
  /\ Rollback(c, "Unavailable")

\* delete_tx: DELETE ... RETURNING id, whose versions go with it, and the audit row.
DeleteRow(c) ==
  \E r \in Ref :
    /\ At(c, r, "delete") /\ Ready(c, r)
    /\ LET row == Found(c, r)
       IN  /\ row # NoRow
           /\ Becomes(c, [tx[c] EXCEPT
                       !.todo = Tail(@), !.snap = 0,
                       !.dirty[r] = NoRow,
                       !.dead = @ \cup {row.id},
                       !.written = {v \in @ : v.secret_id # row.id},
                       !.events = Append(@, [secret_id |-> row.id, action |-> "delete"])])
    /\ row_lock' = [row_lock EXCEPT ![r] = c]
    /\ UNCHANGED <<tables, batch_lock, reply, keyring, clock, next_id, bounds>>

\* revoke: UPDATE ... SET state='revoked' RETURNING id, and the audit row.
RevokeRow(c) ==
  \E r \in Ref :
    /\ At(c, r, "revoke") /\ Ready(c, r)
    /\ LET row == Found(c, r)
       IN  /\ row # NoRow
           /\ Becomes(c, [tx[c] EXCEPT
                       !.todo = Tail(@), !.snap = 0,
                       !.found = [id |-> row.id, version |-> row.current_version],
                       !.dirty[r] = [row EXCEPT !.state = "revoked"],
                       !.events = Append(@, [secret_id |-> row.id, action |-> "revoke"])])
    /\ row_lock' = [row_lock EXCEPT ![r] = c]
    /\ UNCHANGED <<tables, batch_lock, reply, keyring, clock, next_id, bounds>>

\* delete_tx and revoke: no row; commit turns it into DeleteTargetMissing.
RowMissing(c) ==
  /\ \E r \in Ref, kind \in {"delete", "revoke"} :
       At(c, r, kind) /\ Ready(c, r) /\ Found(c, r) = NoRow
  /\ Rollback(c, IF tx[c].req.op = "commit" THEN "DeleteTargetMissing" ELSE "NotFound")

-----------------------------------------------------------------------------
(* COMMIT *)

WrittenRowsOnly(c) == [r \in Ref |-> tx[c].dirty[r]]  \* mutant
CommittedRows(c) == [r \in Ref |-> Seen(c, r)]
CommittedVersions(c) ==
  {v \in secret_versions : /\ v.secret_id \notin tx[c].dead
                           /\ ~\E w \in tx[c].written : SameVersion(v, w)}
  \cup tx[c].written

\* put, delete, revoke and commit: every statement succeeded.  commit also
\* audits itself and its row of prepared_transactions is gone.
Commit(c) ==
  LET batch == tx[c].req.op = "commit"
      events == IF batch
                THEN Append(tx[c].events, [secret_id |-> 0, action |-> "commit_batch"])
                ELSE tx[c].events
  IN  /\ tx[c].pc = "exec" /\ tx[c].todo = <<>>
      /\ secrets' = CommittedRows(c)
      /\ secret_versions' = CommittedVersions(c)
      /\ audit_events' = audit_events (+) BagOfSeq(events)
      /\ prepared_transactions' =
           [b \in Batch |-> IF batch /\ b = tx[c].req.batch
                            THEN NoRow ELSE prepared_transactions[b]]
      /\ Reply(c, [Answer("Ok") EXCEPT
                     !.version = IF batch THEN 0 ELSE tx[c].found.version])
      /\ Release(c)
      /\ UNCHANGED <<keyring, clock, next_id, calls>>

\* get: one statement joins the active row with its current version, and the
\* envelope is opened under the row's disclosure.
CurrentVersion(row) ==
  {v \in secret_versions : v.secret_id = row.id /\ v.version = row.current_version}
Get(c) ==
  /\ tx[c].pc = "get"
  /\ LET r == tx[c].req.ref
         row == secrets[r]
     IN  \/ /\ \/ row = NoRow
               \/ row # NoRow /\ (row.state # "active" \/ CurrentVersion(row) = {})
            /\ reply' = [reply EXCEPT ![c] = Answer("NotFound")]
         \/ /\ row # NoRow /\ row.state = "active"
            /\ \E v \in CurrentVersion(row) :
                 LET aad == associated_data(r, row.current_version, row.disclosure)
                 IN  reply' = [reply EXCEPT ![c] =
                                 IF opens(keyring[c], aad, v.envelope)
                                 THEN [code |-> "Ok", version |-> row.current_version,
                                       value |-> v.envelope.plain]
                                 ELSE Answer("Crypto")]
  /\ Release(c)
  /\ UNCHANGED <<tables, keyring, clock, next_id, bounds>>

-----------------------------------------------------------------------------
(* Prepared batches *)

HeldByNoOther(c, b) == FALSE  \* mutant
HeldByOther(c, b) == batch_lock[b] \notin {Nobody, c}

\* Rows a DELETE ... WHERE expires_at <= now() matches.
ExpiredAt(time) == {b \in Batch : /\ prepared_transactions[b] # NoRow
                                  /\ prepared_transactions[b].expires_at <= time}

\* prepare refuses an empty batch, and one that names another tenant's secret.
RefuseBatch(c) ==
  /\ tx[c].pc = "purge" /\ tx[c].req.op = "prepare"
  /\ LET muts == tx[c].req.muts
     IN  \/ muts = <<>>
         \/ \E i \in DOMAIN muts : TenantOf[muts[i].ref] # TenantOf[tx[c].req.batch]
  /\ Rollback(c, "Invalid")

\* purge_expired: its own transaction; it waits for the rows it matches.
Purge(c) ==
  LET b == tx[c].req.batch
      expired == {d \in ExpiredAt(clock) : TenantOf[d] = TenantOf[b]}
  IN  /\ tx[c].pc = "purge"
      /\ tx[c].req.op = "prepare" =>
           /\ tx[c].req.muts # <<>>
           /\ \A i \in DOMAIN tx[c].req.muts :
                TenantOf[tx[c].req.muts[i].ref] = TenantOf[b]
      /\ \A d \in expired : ~HeldByOther(c, d)
      /\ prepared_transactions' = [d \in Batch |-> IF d \in expired THEN NoRow
                                                   ELSE prepared_transactions[d]]
      /\ Becomes(c, [tx[c] EXCEPT !.pc =
                   IF tx[c].req.op = "prepare" THEN "insert" ELSE "begin"])
      /\ UNCHANGED <<secrets, secret_versions, audit_events, locks, reply, keyring,
                     clock, next_id, bounds>>

\* prepare: seal the mutations behind their expiry, and INSERT.  `began` is
\* the service's clock as prepare read it, before the purge.
SealedBatch(c) ==
  LET expiry == tx[c].began + Lifetime
  IN  [expires_at |-> expiry,
       envelope |-> seal(keyring[c], tx[c].req.batch,
                         [expires_at |-> expiry, muts |-> tx[c].req.muts])]
Prepare(c) ==
  LET b == tx[c].req.batch
  IN  /\ tx[c].pc = "insert"
      /\ ~HeldByOther(c, b)
      /\ IF prepared_transactions[b] # NoRow
         THEN /\ reply' = [reply EXCEPT ![c] = Answer("Conflict")]
              /\ UNCHANGED <<prepared_transactions, faults>>
         ELSE /\ prepared_transactions' = [prepared_transactions EXCEPT ![b] = SealedBatch(c)]
              /\ Reply(c, Answer("Ok"))
      /\ Release(c)
      /\ UNCHANGED <<secrets, secret_versions, audit_events, keyring, clock, next_id, calls>>

\* commit: BEGIN, which fixes now().
Begin(c) ==
  /\ tx[c].pc = "begin"
  /\ Becomes(c, [tx[c] EXCEPT !.pc = "take", !.began = clock])
  /\ UNCHANGED <<tables, locks, reply, keyring, clock, next_id, bounds>>

\* commit: the DELETE ... RETURNING finds the row.
MatchesAnyTime(c, b) == prepared_transactions[b] # NoRow  \* mutant
Matches(c, b) == /\ prepared_transactions[b] # NoRow
                 /\ prepared_transactions[b].expires_at > tx[c].began

\* commit: the batch opens, and the expiry sealed in it has not passed either.
TakeBatch(c) ==
  LET b == tx[c].req.batch
      envelope == prepared_transactions[b].envelope
  IN  /\ tx[c].pc = "take"
      /\ ~HeldByOther(c, b)
      /\ Matches(c, b)
      /\ opens(keyring[c], b, envelope)
      /\ envelope.plain.expires_at > tx[c].began
      /\ Becomes(c, [tx[c] EXCEPT !.pc = "exec", !.todo = envelope.plain.muts])
      /\ batch_lock' = [batch_lock EXCEPT ![b] = c]
      /\ UNCHANGED <<tables, row_lock, reply, keyring, clock, next_id, bounds>>

\* commit: no row, or an envelope that does not open.
RefuseCommit(c) ==
  LET b == tx[c].req.batch
  IN  /\ tx[c].pc = "take"
      /\ ~HeldByOther(c, b)
      /\ \/ ~Matches(c, b) /\ Rollback(c, "NotFound")
         \/ /\ Matches(c, b)
            /\ ~opens(keyring[c], b, prepared_transactions[b].envelope)
            /\ Rollback(c, "Unavailable")

\* commit: past its sealed expiry a batch is deleted, and that is committed.
DropExpired(c) ==
  LET b == tx[c].req.batch
      envelope == prepared_transactions[b].envelope
  IN  /\ tx[c].pc = "take"
      /\ ~HeldByOther(c, b)
      /\ Matches(c, b)
      /\ opens(keyring[c], b, envelope)
      /\ envelope.plain.expires_at <= tx[c].began
      /\ prepared_transactions' = [prepared_transactions EXCEPT ![b] = NoRow]
      /\ Reply(c, Answer("NotFound"))
      /\ Release(c)
      /\ UNCHANGED <<secrets, secret_versions, audit_events, keyring, clock, next_id, calls>>

\* abort: one DELETE, of an unexpired row under a key the process holds.
Abort(c) ==
  LET b == tx[c].req.batch
      row == prepared_transactions[b]
  IN  /\ tx[c].pc = "abort"
      /\ ~HeldByOther(c, b)
      /\ \/ /\ row # NoRow /\ row.expires_at > clock
            /\ row.envelope.key_id \in keyring[c].keys
            /\ prepared_transactions' = [prepared_transactions EXCEPT ![b] = NoRow]
            /\ Reply(c, Answer("Ok"))
         \/ /\ \/ row = NoRow
               \/ /\ row # NoRow
                  /\ row.expires_at <= clock \/ row.envelope.key_id \notin keyring[c].keys
            /\ reply' = [reply EXCEPT ![c] = Answer("NotFound")]
            /\ UNCHANGED <<prepared_transactions, faults>>
      /\ Release(c)
      /\ UNCHANGED <<secrets, secret_versions, audit_events, keyring, clock, next_id, calls>>

-----------------------------------------------------------------------------
(* rewrap_all and reseal_batches *)

\* v.key_id <> $1
StaleAndCurrent(c, v) ==  \* mutant
  /\ v.envelope.key_id # keyring[c].active
  /\ \E r \in Ref : /\ secrets[r] # NoRow /\ secrets[r].id = v.secret_id
                    /\ secrets[r].current_version = v.version
Stale(c, v) == v.envelope.key_id # keyring[c].active

\* The SELECT: versions under another key, as they are when it starts.
SelectVersions(c) ==
  /\ tx[c].pc = "rewrap"
  /\ Becomes(c, [tx[c] EXCEPT !.pc = "lock", !.targets =
              {t \in [ref : {r \in Ref : secrets[r] # NoRow},
                      secret_id : {v.secret_id : v \in secret_versions},
                      version : {v.version : v \in secret_versions}] :
                 /\ secrets[t.ref].id = t.secret_id
                 /\ \E v \in secret_versions : SameVersion(v, t) /\ Stale(c, v)}])
  /\ UNCHANGED <<tables, locks, reply, keyring, clock, next_id, bounds>>

TargetRefs(c) == {t.ref : t \in tx[c].targets}
ToLock(c) == {r \in TargetRefs(c) : row_lock[r] # c}

\* ... FOR UPDATE: lock the row of one secret, in the order the plan gives.
\* What was deleted, replaced or rewrapped meanwhile is no longer selected.
LockVersions(c) ==
  /\ tx[c].pc = "lock"
  /\ \E r \in ToLock(c) :
       LET mine == {t \in tx[c].targets : t.ref = r}
           still == {t \in mine : /\ secrets[r] # NoRow
                                  /\ secrets[r].id = t.secret_id
                                  /\ \E v \in secret_versions :
                                       SameVersion(v, t) /\ Stale(c, v)}
       IN  /\ row_lock[r] = Nobody
           /\ Becomes(c, [tx[c] EXCEPT !.targets = (@ \ mine) \cup still])
           /\ row_lock' = [row_lock EXCEPT ![r] =
                IF secrets[r] # NoRow /\ \E t \in mine : t.secret_id = secrets[r].id
                THEN c ELSE Nobody]
  /\ UNCHANGED <<tables, batch_lock, reply, keyring, clock, next_id, bounds>>

\* The versions it holds, and the data each is opened under: the disclosure is
\* the one the secret has now.
Selected(c) == {v \in secret_versions : \E t \in tx[c].targets : SameVersion(v, t)}
RewrapAad(c, v) ==
  LET r == (CHOOSE t \in tx[c].targets : SameVersion(v, t)).ref
  IN  associated_data(r, v.version, secrets[r].disclosure)
RewrapOpens(c, v) == opens(keyring[c], RewrapAad(c, v), v.envelope)

\* UPDATE secret_versions ... WHERE secret_id=$1 AND version=$2
RewrappedForAnyVersion(c, v) ==  \* mutant
  [v EXCEPT !.envelope = reseal(keyring[c],
     (CHOOSE w \in Selected(c) : w.secret_id = v.secret_id).envelope)]
Rewrapped(c, v) == [v EXCEPT !.envelope = reseal(keyring[c], @)]

\* Every row is re-encrypted and audited, and the transaction commits.
RewrapVersions(c) ==
  /\ tx[c].pc = "lock" /\ ToLock(c) = {}
  /\ \A v \in Selected(c) : RewrapOpens(c, v)
  /\ secret_versions' = (secret_versions \ Selected(c)) \cup
       {Rewrapped(c, v) : v \in Selected(c)}
  /\ audit_events' = audit_events (+)
       [e \in {[secret_id |-> v.secret_id, action |-> "rewrap"] : v \in Selected(c)} |->
          Cardinality({v \in Selected(c) : v.secret_id = e.secret_id})]
  /\ row_lock' = [r \in Ref |-> IF row_lock[r] = c THEN Nobody ELSE row_lock[r]]
  /\ Becomes(c, [tx[c] EXCEPT !.pc = "reseal", !.targets = {},
                            !.count = Cardinality(Selected(c))])
  /\ UNCHANGED <<secrets, prepared_transactions, batch_lock, reply, keyring, clock,
                 next_id, bounds>>

\* One version does not open: nothing is rewrapped.
RewrapFails(c) ==
  /\ tx[c].pc = "lock" /\ ToLock(c) = {}
  /\ \E v \in Selected(c) : ~RewrapOpens(c, v)
  /\ Rollback(c, "Crypto")

\* reseal_batches: a second transaction.  The expired batches are deleted, which
\* holds their rows, and the others under another key are selected.
SelectBatches(c) ==
  LET expired == ExpiredAt(clock)
  IN  /\ tx[c].pc = "reseal"
      /\ \A b \in expired : ~HeldByOther(c, b)
      /\ batch_lock' = [b \in Batch |-> IF b \in expired THEN c ELSE batch_lock[b]]
      /\ Becomes(c, [tx[c] EXCEPT
                  !.pc = "resealing", !.began = clock,
                  !.held =
                    {b \in Batch \ expired :
                       /\ prepared_transactions[b] # NoRow
                       /\ prepared_transactions[b].envelope.key_id # keyring[c].active}])
      /\ UNCHANGED <<tables, row_lock, reply, keyring, clock, next_id, bounds>>

\* The selected batches that are still there once their rows are free.
ToReseal(c) == {b \in tx[c].held :
                  /\ prepared_transactions[b] # NoRow
                  /\ prepared_transactions[b].envelope.key_id # keyring[c].active
                  /\ prepared_transactions[b].expires_at > tx[c].began}
AtReseal(c) ==
  /\ tx[c].pc = "resealing"
  /\ \A b \in tx[c].held : ~HeldByOther(c, b)
BatchOpens(c, b) == opens(keyring[c], b, prepared_transactions[b].envelope)

\* The deletions and the re-sealed envelopes are committed, and rewrap_all answers.
ResealBatches(c) ==
  /\ AtReseal(c)
  /\ \A b \in ToReseal(c) : BatchOpens(c, b)
  /\ prepared_transactions' =
       [b \in Batch |->
          IF batch_lock[b] = c THEN NoRow
          ELSE IF b \in ToReseal(c)
               THEN [prepared_transactions[b] EXCEPT !.envelope = reseal(keyring[c], @)]
               ELSE prepared_transactions[b]]
  /\ Reply(c, [Answer("Ok") EXCEPT !.version = tx[c].count])
  /\ Release(c)
  /\ UNCHANGED <<secrets, secret_versions, audit_events, keyring, clock, next_id, calls>>

\* A batch does not open: this transaction is rolled back, the first one is not.
ResealFails(c) ==
  /\ AtReseal(c)
  /\ \E b \in ToReseal(c) : ~BatchOpens(c, b)
  /\ Rollback(c, "Crypto")

-----------------------------------------------------------------------------
(* What PostgreSQL, the processes and the administrator do on their own *)

\* Whom a blocked call waits for.
Awaits(c) ==
  LET others == Call \ {c}
      t == tx[c]
  IN  CASE t.pc = "exec" /\ t.todo # <<>> /\ t.snap # 0 ->
             {row_lock[Head(t.todo).ref]} \cap others
        [] t.pc = "upsert" -> {row_lock[Head(t.todo).ref]} \cap others
        [] t.pc \in {"insert", "take", "abort"} -> {batch_lock[t.req.batch]} \cap others
        [] t.pc = "lock" /\ \A r \in ToLock(c) : row_lock[r] # Nobody ->
             {row_lock[r] : r \in ToLock(c)} \cap others
        [] OTHER -> {}

\* Calls that wait for each other: PostgreSQL ends one of them.
NeverDeadlocked(c) == FALSE  \* mutant
Deadlocked(c) ==
  \E S \in SUBSET Call :
    /\ c \in S
    /\ \A d \in S : Awaits(d) # {} /\ Awaits(d) \subseteq S
DeadlockAbort(c) == Deadlocked(c) /\ Rollback(c, "Unavailable")

\* The connection drops, the process dies or the caller's future is dropped
\* before COMMIT: PostgreSQL rolls the open transaction back.
LoseAfterAudit(c) ==  \* mutant
  /\ tx[c].pc # "idle"
  /\ faults < MaxFaults
  /\ Release(c)
  /\ reply' = [reply EXCEPT ![c] = Answer("Unavailable")]
  /\ faults' = faults + 1
  /\ audit_events' = audit_events (+) BagOfSeq(tx[c].events)
  /\ UNCHANGED <<secrets, secret_versions, prepared_transactions, keyring, clock,
                 next_id, calls>>
Lose(c) ==
  /\ tx[c].pc # "idle"
  /\ faults < MaxFaults
  /\ Release(c)
  /\ reply' = [reply EXCEPT ![c] = Answer("Unavailable")]
  /\ faults' = faults + 1
  /\ UNCHANGED <<tables, keyring, clock, next_id, calls>>

\* Someone with access to the database rewrites the expires_at column.
RewriteExpiry ==
  /\ faults < MaxFaults
  /\ \E b \in Batch, time \in {0, MaxClock + 1} :
       /\ prepared_transactions[b] # NoRow
       /\ batch_lock[b] = Nobody
       /\ prepared_transactions' = [prepared_transactions EXCEPT ![b].expires_at = time]
  /\ faults' = faults + 1
  /\ UNCHANGED <<secrets, secret_versions, audit_events, locks, tx, reply, keyring,
                 clock, next_id, calls>>

Tick ==
  /\ clock < MaxClock
  /\ clock' = clock + 1
  /\ UNCHANGED <<tables, locks, tx, reply, keyring, next_id, bounds>>

-----------------------------------------------------------------------------
\* The statements of one call.
Progress(c) ==
  \/ Block(c) \/ RefuseReference(c) \/ SelectForUpdate(c) \/ Upsert(c) \/ UpsertRefused(c)
  \/ DeleteRow(c) \/ RevokeRow(c) \/ RowMissing(c) \/ Commit(c) \/ Get(c)
  \/ RefuseBatch(c) \/ Purge(c) \/ Prepare(c) \/ Begin(c) \/ TakeBatch(c)
  \/ RefuseCommit(c) \/ DropExpired(c) \/ Abort(c)
  \/ SelectVersions(c) \/ LockVersions(c) \/ RewrapVersions(c) \/ RewrapFails(c)
  \/ SelectBatches(c) \/ ResealBatches(c) \/ ResealFails(c)
  \/ DeadlockAbort(c)

Next ==
  \/ \E c \in Call : Invoke(c) \/ Progress(c) \/ Lose(c)
  \/ RewriteExpiry
  \/ Tick

Spec == Init /\ [][Next]_vars

\* A process keeps running the requests it has begun, PostgreSQL grants a free
\* lock and breaks deadlocks; nothing obliges a caller to call or a fault to happen.
FairSpec == Spec /\ \A c \in Call : WF_vars(Progress(c))

-----------------------------------------------------------------------------
(* Properties *)

\* Every table and every call has the shape the code gives it.
TypeOK ==
  /\ secrets \in [Ref -> SecretRow \cup {NoRow}]
  /\ secret_versions \subseteq VersionRow
  /\ prepared_transactions \in [Batch -> BatchRow \cup {NoRow}]
  /\ IsABag(audit_events) /\ DOMAIN audit_events \subseteq Event
  /\ row_lock \in [Ref -> Call \cup {Nobody}]
  /\ batch_lock \in [Batch -> Call \cup {Nobody}]
  /\ tx \in [Call -> Tx]
  /\ reply \in [Call -> ReplyType]
  /\ keyring \in [Call -> Keyring]
  /\ clock \in Nat /\ next_id \in Nat \ {0} /\ calls \in Nat /\ faults \in Nat

\* The numbers of the versions in S of the secret with an id.
VersionsIn(S, id) == {v.version : v \in {w \in S : w.secret_id = id}}

\* The committed versions of a secret are exactly 1 .. current_version, each
\* once, no version is left without its secret, and no two secrets share an
\* id: whatever concurrent puts, deletes and batches did to the row while
\* put_tx stood between its SELECT and its INSERTs.
VersionsDense ==
  /\ \A r \in Ref : secrets[r] # NoRow =>
       VersionsIn(secret_versions, secrets[r].id) = 1 .. secrets[r].current_version
  /\ \A v \in secret_versions : \E r \in Ref : secrets[r] # NoRow /\ secrets[r].id = v.secret_id
  /\ \A v, w \in secret_versions : SameVersion(v, w) => v = w
  /\ \A r, s \in Ref : secrets[r] # NoRow /\ secrets[s] # NoRow /\ secrets[r].id = secrets[s].id
                         => r = s

\* The current version of every secret was sealed for this very reference,
\* number and disclosure, so get opens it with any keyring that has its key:
\* the row and the envelope are written by different statements, and rewrap_all
\* replaces envelopes under rows it read earlier.
CurrentVersionOpens ==
  \A r \in Ref : secrets[r] # NoRow =>
    \E v \in CurrentVersion(secrets[r]) :
      v.envelope.aad = associated_data(r, secrets[r].current_version, secrets[r].disclosure)

\* audit_events tells the truth: a secret that is there has one put row per
\* version and no delete row, and one that is gone has exactly one delete row.
\* No transaction that was rolled back, refused or aborted left a row.
AuditMatchesTables ==
  LET Audited(id, action) ==
        LET event == [secret_id |-> id, action |-> action]
        IN  IF BagIn(event, audit_events) THEN audit_events[event] ELSE 0
      live == {secrets[r].id : r \in {s \in Ref : secrets[s] # NoRow}}
  IN  \A id \in 1 .. next_id - 1 :
        IF id \in live
        THEN /\ \A r \in Ref : secrets[r] # NoRow /\ secrets[r].id = id =>
                  Audited(id, "put") = secrets[r].current_version
             /\ Audited(id, "delete") = 0
        ELSE Audited(id, "delete") = IF Audited(id, "put") > 0 THEN 1 ELSE 0

\* A commit that holds its batch began before the batch expired, by the column
\* and by the expiry sealed in the envelope, even when the column was rewritten.
HeldBatchInTime ==
  \A c \in Call : tx[c].req.op = "commit" /\ tx[c].pc \in {"exec", "upsert"} =>
    LET row == prepared_transactions[tx[c].req.batch]
    IN  /\ row # NoRow
        /\ tx[c].began < row.expires_at
        /\ tx[c].began < row.envelope.plain.expires_at

\* `secrets rewrap` "re-encrypts every stored version, current or older"
\* (website/docs/operations.md): a process that holds every key opens every
\* version it has selected.
RewrapOpensEveryVersion ==
  \A c \in Call : tx[c].pc = "lock" /\ ToLock(c) = {} /\ keyring[c].keys = Key =>
    \A v \in Selected(c) : RewrapOpens(c, v)

\* Every call is answered: locks are released on every path, and calls that
\* wait for each other do not wait forever.
EveryCallAnswered == \A c \in Call : tx[c].pc # "idle" ~> tx[c].pc = "idle"
=============================================================================
