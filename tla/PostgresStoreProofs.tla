------------------------- MODULE PostgresStoreProofs -------------------------
(***************************************************************************)
(* Theorems about PostgresStore, for every number of calls, references,    *)
(* batches, keys and faults, and for any requests.                         *)
(***************************************************************************)
EXTENDS PostgresStoreRefinement, FiniteSetTheorems, WellFoundedInduction, TLAPS

\* TypeOK is not inductive: which mutation a call is at follows from the
\* statement it is at, and Cardinality counts only what is finite.
AtStatement(t) ==
  /\ t.pc \in {"exec", "upsert"} => t.req.op \in {"put", "delete", "revoke", "commit"}
  /\ t.pc = "upsert" => t.todo # <<>> /\ Head(t.todo) \in PutMutation
  /\ t.pc = "get" => t.req.op = "get"
  /\ t.pc = "purge" => t.req.op \in {"prepare", "commit"}
  /\ t.pc = "insert" => t.req.op = "prepare"
  /\ t.pc \in {"begin", "take"} => t.req.op = "commit"
  /\ t.pc = "abort" => t.req.op = "abort"
  /\ t.pc \in {"rewrap", "lock", "reseal", "resealing"} => t.req.op = "rewrap"
  /\ IsFiniteSet(t.written)

TypeInv ==
  /\ TypeOK
  /\ IsFiniteSet(secret_versions)
  /\ \A c \in Call : AtStatement(tx[c])

\* A request is a single mutation of its own kind, or of another operation.
LEMMA RequestOps ==
  ASSUME NEW rq \in Request
  PROVE  /\ rq.op \in {"put", "delete", "revoke", "get", "prepare", "commit", "abort", "rewrap"}
         /\ rq.op \in {"put", "delete", "revoke"} =>
              \E m \in Mutation : rq.muts = <<m>> /\ m.kind = rq.op
<1>1. \/ \E m \in Mutation : rq = [op |-> m.kind, muts |-> <<m>>]
      \/ rq.op \in {"get", "prepare", "commit", "abort", "rewrap"}
  BY DEF Request
<1>2. \A m \in Mutation : m.kind \in {"put", "delete", "revoke"}
  BY DEF Mutation, BatchMutation, PutMutation, DeleteMutation, RevokeMutation
<1> QED BY <1>1, <1>2

\* The fields of a request are those of its operation.
LEMMA RequestFields ==
  ASSUME NEW rq \in Request \cup {NoRequest}
  PROVE  /\ rq.op \in {"put", "delete", "revoke"} => rq.muts \in Seq(Mutation)
         /\ rq.op = "get" => rq.ref \in Ref
         /\ rq.op = "prepare" => rq.batch \in Batch /\ rq.muts \in Seq(BatchMutation)
         /\ rq.op \in {"commit", "abort"} => rq.batch \in Batch
<1>1. CASE rq \in Request
  <2>1. rq.op \in {"put", "delete", "revoke"} => rq.muts \in Seq(Mutation)
    <3>1. \A m \in Mutation : <<m>> \in Seq(Mutation)
      OBVIOUS
    <3> QED BY <1>1, <3>1, RequestOps, Zenon
  <2>2. \/ rq.op \in {"put", "delete", "revoke"}
        \/ rq \in [op : {"get"}, ref : Ref]
        \/ rq \in [op : {"prepare"}, batch : Batch, muts : Seq(BatchMutation)]
        \/ rq \in [op : {"commit", "abort"}, batch : Batch]
        \/ rq \in [op : {"rewrap"}]
    <3>1. \A m \in Mutation : m.kind \in {"put", "delete", "revoke"}
      BY DEF Mutation, BatchMutation, PutMutation, DeleteMutation, RevokeMutation
    <3> QED BY <1>1, <3>1 DEF Request
  <2>3. rq.op = "get" => rq.ref \in Ref
    BY <2>2
  <2>4. rq.op = "prepare" => rq.batch \in Batch /\ rq.muts \in Seq(BatchMutation)
    BY <2>2
  <2>5. rq.op \in {"commit", "abort"} => rq.batch \in Batch
    BY <2>2
  <2> QED BY <2>1, <2>3, <2>4, <2>5
<1>2. CASE rq = NoRequest
  BY <1>2 DEF NoRequest
<1> QED BY <1>1, <1>2

\* A mutation names a reference, and what a put brings is typed.
LEMMA MutationFields ==
  ASSUME NEW m \in Mutation
  PROVE  /\ m.ref \in Ref
         /\ m.kind = "put" => m \in PutMutation
BY DEF Mutation, BatchMutation, PutMutation, DeleteMutation, RevokeMutation

LEMMA BatchSequence == Seq(BatchMutation) \subseteq Seq(Mutation)
BY DEF Mutation

LEMMA IdleTyped == Idle \in Tx /\ AtStatement(Idle)
BY FS_EmptySet, SMT DEF Idle, Tx, Step, AtStatement, NoRequest

\* Counting the events of a transaction makes a bag of them.
LEMMA EventsBag ==
  ASSUME NEW s \in Seq(Event)
  PROVE  IsABag(BagOfSeq(s)) /\ DOMAIN BagOfSeq(s) \subseteq Event
<1> DEFINE Copies(e) == {i \in DOMAIN s : s[i] = e}
<1>1. ASSUME NEW e \in {s[i] : i \in DOMAIN s}
      PROVE  Cardinality(Copies(e)) \in Nat /\ Cardinality(Copies(e)) > 0
  <2>1. IsFiniteSet(DOMAIN s)
    BY FS_Interval
  <2>2. IsFiniteSet(Copies(e)) /\ Copies(e) # {}
    BY <2>1, FS_Subset
  <2> QED BY <2>2, FS_CardinalityType, FS_EmptySet
<1>2. DOMAIN BagOfSeq(s) \subseteq Event
  BY DEF BagOfSeq
<1> QED BY <1>1, <1>2 DEF IsABag, BagOfSeq

\* The union of bags is a bag.
LEMMA UnionIsABag ==
  ASSUME NEW A, NEW B, IsABag(A), IsABag(B)
  PROVE  IsABag(A (+) B) /\ DOMAIN (A (+) B) = DOMAIN A \cup DOMAIN B
BY DEF IsABag, (+)

LEMMA AnswerTyped ==
  ASSUME NEW code \in Code
  PROVE  Answer(code) \in ReplyType
BY DEF Answer, ReplyType

-----------------------------------------------------------------------------
(* What the ends of calls have in common *)

LEMMA InitTyped == Init => TypeInv
<1> SUFFICES ASSUME Init PROVE TypeInv
  OBVIOUS
<1>1. IsABag(audit_events) /\ DOMAIN audit_events = {}
  BY DEF Init, EmptyBag, SetToBag, IsABag
<1>2. tx \in [Call -> Tx] /\ \A c \in Call : AtStatement(tx[c])
  BY IdleTyped DEF Init
<1>3. reply \in [Call -> ReplyType]
  BY AnswerTyped DEF Init, Code
<1>4. IsFiniteSet(secret_versions)
  BY FS_EmptySet DEF Init
<1> QED
  BY <1>1, <1>2, <1>3, <1>4, StoreAssumption DEF Init, TypeInv, TypeOK

LEMMA ReleaseTyped ==
  ASSUME TypeInv, NEW c \in Call, Release(c)
  PROVE  /\ row_lock' \in [Ref -> Call \cup {Nobody}]
         /\ batch_lock' \in [Batch -> Call \cup {Nobody}]
         /\ tx' \in [Call -> Tx]
         /\ \A d \in Call : AtStatement(tx'[d])
<1>1. tx' = [tx EXCEPT ![c] = Idle]
  BY DEF Release, Becomes
<1>2. tx' \in [Call -> Tx] /\ \A d \in Call : AtStatement(tx'[d])
  BY <1>1, IdleTyped DEF TypeInv, TypeOK
<1> QED
  BY <1>2 DEF Release, TypeInv, TypeOK

LEMMA ReplyTyped ==
  ASSUME TypeInv, NEW c \in Call, NEW r \in ReplyType, Reply(c, r)
  PROVE  reply' \in [Call -> ReplyType] /\ faults' \in Nat
BY AnswerTyped DEF Reply, Code, TypeInv, TypeOK

LEMMA RollbackTyped ==
  ASSUME TypeInv, NEW c \in Call, NEW code \in Code, Rollback(c, code)
  PROVE  TypeInv'
<1>1. reply' \in [Call -> ReplyType]
  BY AnswerTyped DEF Rollback, TypeInv, TypeOK
<1> QED
  BY <1>1, ReleaseTyped DEF Rollback, TypeInv, TypeOK, tables, bounds

\* A statement that only changes its own call, the row locks and the ids.
LEMMA StatementTyped ==
  ASSUME TypeInv, NEW c \in Call,
         NEW t \in Tx, AtStatement(t), tx' = [tx EXCEPT ![c] = t],
         row_lock' \in [Ref -> Call \cup {Nobody}],
         batch_lock' \in [Batch -> Call \cup {Nobody}],
         next_id' \in Nat \ {0},
         UNCHANGED <<tables, reply, keyring, clock, bounds>>
  PROVE  TypeInv'
<1>1. tx' \in [Call -> Tx] /\ \A d \in Call : AtStatement(tx'[d])
  BY DEF TypeInv, TypeOK
<1> QED
  BY <1>1 DEF TypeInv, TypeOK, tables, bounds

-----------------------------------------------------------------------------
(* The statements on rows *)

LEMMA StepNames ==
  {"idle", "exec", "upsert", "purge", "insert", "begin", "take", "abort", "get", "rewrap",
   "lock", "reseal", "resealing"} \subseteq Step
BY DEF Step

LEMMA TxDomain ==
  ASSUME NEW t \in Tx
  PROVE  DOMAIN t = {"pc", "req", "todo", "began", "snap", "found", "dirty", "written", "dead",
                     "events", "targets", "held", "count"}
BY DEF Tx

LEMMA TxFields ==
  ASSUME TypeInv, NEW c \in Call
  PROVE  /\ tx[c] \in Tx /\ AtStatement(tx[c])
         /\ DOMAIN tx[c] = {"pc", "req", "todo", "began", "snap", "found", "dirty", "written",
                            "dead", "events", "targets", "held", "count"}
         /\ tx[c].todo \in Seq(Mutation) /\ tx[c].began \in Int
         /\ tx[c].found.id \in Nat /\ tx[c].found.version \in Nat
         /\ tx[c].events \in Seq(Event)
         /\ tx[c].req \in Request \cup {NoRequest}
<1>1. tx[c] \in Tx /\ AtStatement(tx[c])
  BY DEF TypeInv, TypeOK
<1>2. DOMAIN tx[c] = {"pc", "req", "todo", "began", "snap", "found", "dirty", "written",
                      "dead", "events", "targets", "held", "count"}
  BY <1>1, TxDomain
<1> QED BY <1>1, <1>2 DEF Tx

LEMMA AtTyped ==
  ASSUME TypeInv, NEW c \in Call, NEW r \in Ref, NEW kind, At(c, r, kind)
  PROVE  /\ tx[c].todo # <<>> /\ Head(tx[c].todo) \in Mutation
         /\ Tail(tx[c].todo) \in Seq(Mutation)
         /\ kind = "put" => Head(tx[c].todo) \in PutMutation
<1>1. tx[c].todo # <<>> /\ Head(tx[c].todo) \in Mutation /\ Tail(tx[c].todo) \in Seq(Mutation)
  BY TxFields DEF At
<1> QED BY <1>1, MutationFields DEF At

LEMMA SeenTyped ==
  ASSUME TypeInv, NEW c \in Call, NEW r \in Ref
  PROVE  /\ Seen(c, r) \in SecretRow \cup {NoRow}
         /\ Found(c, r) \in SecretRow \cup {NoRow}
BY DEF Seen, Found, TypeInv, TypeOK, Tx

LEMMA BlockTyped ==
  ASSUME TypeInv, NEW c \in Call, Block(c)
  PROVE  TypeInv'
<1> DEFINE t(r) == [tx[c] EXCEPT !.snap = secrets[r].id]
<1>1. PICK r \in Ref : secrets[r] # NoRow /\ tx' = [tx EXCEPT ![c] = t(r)]
  BY DEF Block, Becomes
<1>2. secrets[r].id \in Nat
  BY <1>1 DEF TypeInv, TypeOK, SecretRow
<1>3. t(r) \in Tx
  BY <1>2, TxFields DEF Tx
<1>4. AtStatement(t(r))
  BY TxFields DEF AtStatement
<1> QED
  BY <1>1, <1>3, <1>4, StatementTyped DEF Block, TypeInv, TypeOK, locks

LEMMA SelectForUpdateTyped ==
  ASSUME TypeInv, NEW c \in Call, SelectForUpdate(c)
  PROVE  TypeInv'
<1> DEFINE t(found) == [tx[c] EXCEPT !.pc = "upsert", !.snap = 0, !.found = found]
           Chosen(found) == tx' = [tx EXCEPT ![c] = t(found)]
<1>1. PICK r \in Ref :
        /\ At(c, r, "put")
        /\ \/ /\ Chosen([id |-> next_id, version |-> 1])
              /\ next_id' = next_id + 1 /\ UNCHANGED row_lock
           \/ /\ Found(c, r) # NoRow
              /\ Chosen([id |-> Found(c, r).id, version |-> Found(c, r).current_version + 1])
              /\ row_lock' = [row_lock EXCEPT ![r] = c] /\ UNCHANGED next_id
        /\ UNCHANGED <<tables, batch_lock, reply, keyring, clock, bounds>>
  BY DEF SelectForUpdate, Becomes
<1>2. \E found \in [id : Nat, version : Nat] : Chosen(found)
  <2> HIDE DEF Chosen
  <2>1. next_id \in Nat
    BY DEF TypeInv, TypeOK
  <2>2. Found(c, r) # NoRow => Found(c, r).id \in Nat /\ Found(c, r).current_version + 1 \in Nat
    BY SeenTyped DEF SecretRow
  <2> QED BY <1>1, <2>1, <2>2
<1>3. PICK found \in [id : Nat, version : Nat] : Chosen(found)
  BY <1>2, Zenon
<1>4. t(found) \in Tx /\ AtStatement(t(found))
  <2>1. t(found) \in Tx
    <3>1. ASSUME NEW u \in Tx, NEW s \in Step
          PROVE  [u EXCEPT !.pc = s, !.snap = 0, !.found = found] \in Tx
      BY <3>1 DEF Tx
    <3>2. "upsert" \in Step
      BY DEF Step
    <3> QED BY <3>1, <3>2, TxFields
  <2>2. /\ t(found).pc = "upsert" /\ t(found).todo = tx[c].todo
        /\ t(found).req = tx[c].req /\ t(found).written = tx[c].written
    BY TxFields DEF Tx
  <2>3. /\ tx[c].req.op \in {"put", "delete", "revoke", "commit"}
        /\ IsFiniteSet(tx[c].written)
        /\ tx[c].todo # <<>> /\ Head(tx[c].todo) \in PutMutation
    BY <1>1, AtTyped, TxFields DEF AtStatement, At
  <2> HIDE DEF t
  <2> QED BY <2>1, <2>2, <2>3 DEF AtStatement
<1>5. row_lock' \in [Ref -> Call \cup {Nobody}] /\ next_id' \in Nat \ {0}
  BY <1>1 DEF TypeInv, TypeOK
<1>6. batch_lock' \in [Batch -> Call \cup {Nobody}]
  BY <1>1 DEF TypeInv, TypeOK
<1> QED
  BY <1>1, <1>3, <1>4, <1>5, <1>6, StatementTyped

LEMMA EnvelopeTyped ==
  ASSUME TypeInv, NEW c \in Call, NEW Labels, NEW Plain,
         NEW aad \in Labels, NEW plaintext \in Plain
  PROVE  seal(keyring[c], aad, plaintext) \in EnvelopeOf(Labels, Plain)
BY DEF seal, EnvelopeOf, TypeInv, TypeOK, Keyring

LEMMA NewVersionTyped ==
  ASSUME TypeInv, NEW c \in Call, NEW r \in Ref, AtUpsert(c, r)
  PROVE  NewVersion(c, r) \in VersionRow
<1>1. Head(tx[c].todo) \in PutMutation
  BY TxFields DEF AtUpsert, AtStatement
<1>2. associated_data(r, tx[c].found.version, Head(tx[c].todo).disclosure) \in Aad
  BY <1>1, TxFields DEF associated_data, Aad, PutMutation
<1> QED
  BY <1>1, <1>2, EnvelopeTyped, TxFields DEF NewVersion, VersionRow, PutMutation

LEMMA UpsertRowTyped ==
  ASSUME TypeInv, NEW c \in Call, NEW r \in Ref, AtUpsert(c, r)
  PROVE  UpsertRow(c, r) \in SecretRow
<1>1. Head(tx[c].todo) \in PutMutation
  BY TxFields DEF AtUpsert, AtStatement
<1> QED
  BY <1>1, SeenTyped, TxFields DEF UpsertRow, SecretRow, PutMutation

LEMMA UpsertTyped ==
  ASSUME TypeInv, NEW c \in Call, Upsert(c)
  PROVE  TypeInv'
<1> DEFINE event == [secret_id |-> tx[c].found.id, action |-> "put"]
           t(r) == [tx[c] EXCEPT
                      !.pc = "exec", !.todo = Tail(@), !.dirty[r] = UpsertRow(c, r),
                      !.written = @ \cup {NewVersion(c, r)}, !.events = Append(@, event)]
<1>1. PICK r \in Ref :
        /\ AtUpsert(c, r)
        /\ tx' = [tx EXCEPT ![c] = t(r)]
        /\ row_lock' = [row_lock EXCEPT ![r] = c]
        /\ UNCHANGED <<tables, batch_lock, reply, keyring, clock, next_id, bounds>>
  BY DEF Upsert, Becomes
<1>2. Tail(tx[c].todo) \in Seq(Mutation) /\ Append(tx[c].events, event) \in Seq(Event)
  BY <1>1, TxFields DEF Event, AtUpsert, AtStatement
<1>3. IsFiniteSet(tx[c].written \cup {NewVersion(c, r)})
  BY FS_AddElement, TxFields DEF AtStatement
<1>4. t(r) \in Tx
  <2>1. [tx[c].dirty EXCEPT ![r] = UpsertRow(c, r)] \in [Ref -> SecretRow \cup {NoRow, Untouched}]
    BY <1>1, UpsertRowTyped, TxFields DEF Tx
  <2>2. tx[c].written \cup {NewVersion(c, r)} \subseteq VersionRow
    BY <1>1, NewVersionTyped, TxFields DEF Tx
  <2> QED BY <1>2, <2>1, <2>2, TxFields, StepNames, ZenonT(40) DEF Tx
<1>5. AtStatement(t(r))
  BY <1>1, <1>3, TxFields DEF AtStatement, AtUpsert
<1>6. /\ row_lock' \in [Ref -> Call \cup {Nobody}] /\ next_id' \in Nat \ {0}
      /\ batch_lock' \in [Batch -> Call \cup {Nobody}]
  BY <1>1 DEF TypeInv, TypeOK
<1> QED
  BY <1>1, <1>4, <1>5, <1>6, StatementTyped

LEMMA DeleteRowTyped ==
  ASSUME TypeInv, NEW c \in Call, DeleteRow(c)
  PROVE  TypeInv'
<1> DEFINE event(id) == [secret_id |-> id, action |-> "delete"]
           kept(id) == {v \in tx[c].written : v.secret_id # id}
           t(r, id) == [tx[c] EXCEPT
                          !.todo = Tail(@), !.snap = 0, !.dirty[r] = NoRow,
                          !.dead = @ \cup {id}, !.written = kept(id),
                          !.events = Append(@, event(id))]
<1>1. PICK r \in Ref :
        /\ At(c, r, "delete") /\ Found(c, r) # NoRow
        /\ tx' = [tx EXCEPT ![c] = t(r, Found(c, r).id)]
        /\ row_lock' = [row_lock EXCEPT ![r] = c]
        /\ UNCHANGED <<tables, batch_lock, reply, keyring, clock, next_id, bounds>>
  BY DEF DeleteRow, Becomes
<1>2. PICK id \in Nat : id = Found(c, r).id
  BY <1>1, SeenTyped DEF SecretRow
<1>3. Tail(tx[c].todo) \in Seq(Mutation) /\ Append(tx[c].events, event(id)) \in Seq(Event)
  BY <1>1, AtTyped, TxFields DEF Event
<1>4. kept(id) \subseteq VersionRow /\ IsFiniteSet(kept(id))
  BY FS_Subset, TxFields DEF AtStatement, Tx
<1>5. t(r, id) \in Tx
  <2>1. [tx[c].dirty EXCEPT ![r] = NoRow] \in [Ref -> SecretRow \cup {NoRow, Untouched}]
    BY TxFields DEF Tx
  <2>2. tx[c].dead \cup {id} \subseteq Nat
    BY TxFields DEF Tx
  <2> HIDE DEF kept, event
  <2> QED BY <1>3, <1>4, <2>1, <2>2, TxFields, ZenonT(40) DEF Tx
<1>6. AtStatement(t(r, id))
  BY <1>1, <1>4, TxFields DEF AtStatement, At
<1>7. /\ row_lock' \in [Ref -> Call \cup {Nobody}] /\ next_id' \in Nat \ {0}
      /\ batch_lock' \in [Batch -> Call \cup {Nobody}]
  BY <1>1 DEF TypeInv, TypeOK
<1> HIDE DEF t
<1> QED
  BY <1>1, <1>2, <1>5, <1>6, <1>7, StatementTyped

LEMMA RevokeRowTyped ==
  ASSUME TypeInv, NEW c \in Call, RevokeRow(c)
  PROVE  TypeInv'
<1> DEFINE event(row) == [secret_id |-> row.id, action |-> "revoke"]
           t(r, row) == [tx[c] EXCEPT
                           !.todo = Tail(@), !.snap = 0,
                           !.found = [id |-> row.id, version |-> row.current_version],
                           !.dirty[r] = [row EXCEPT !.state = "revoked"],
                           !.events = Append(@, event(row))]
<1>1. PICK r \in Ref :
        /\ At(c, r, "revoke") /\ Found(c, r) # NoRow
        /\ tx' = [tx EXCEPT ![c] = t(r, Found(c, r))]
        /\ row_lock' = [row_lock EXCEPT ![r] = c]
        /\ UNCHANGED <<tables, batch_lock, reply, keyring, clock, next_id, bounds>>
  BY DEF RevokeRow, Becomes
<1>2. PICK row \in SecretRow : row = Found(c, r)
  BY <1>1, SeenTyped
<1>3. Tail(tx[c].todo) \in Seq(Mutation) /\ Append(tx[c].events, event(row)) \in Seq(Event)
  BY <1>1, AtTyped, TxFields DEF Event, SecretRow
<1>4. t(r, row) \in Tx
  <2>1. [tx[c].dirty EXCEPT ![r] = [row EXCEPT !.state = "revoked"]]
          \in [Ref -> SecretRow \cup {NoRow, Untouched}]
    BY TxFields DEF Tx, SecretRow
  <2>2. [id |-> row.id, version |-> row.current_version] \in [id : Nat, version : Nat]
    BY DEF SecretRow
  <2> HIDE DEF event
  <2> QED BY <1>3, <2>1, <2>2, TxFields, ZenonT(40) DEF Tx
<1>5. AtStatement(t(r, row))
  BY <1>1, TxFields DEF AtStatement, At
<1>6. /\ row_lock' \in [Ref -> Call \cup {Nobody}] /\ next_id' \in Nat \ {0}
      /\ batch_lock' \in [Batch -> Call \cup {Nobody}]
  BY <1>1 DEF TypeInv, TypeOK
<1> HIDE DEF t
<1> QED
  BY <1>1, <1>2, <1>4, <1>5, <1>6, StatementTyped

LEMMA RefusalsTyped ==
  ASSUME TypeInv, NEW c \in Call,
         \/ RefuseReference(c) \/ UpsertRefused(c) \/ RowMissing(c) \/ RefuseBatch(c)
         \/ RefuseCommit(c) \/ RewrapFails(c) \/ ResealFails(c) \/ DeadlockAbort(c)
  PROVE  TypeInv'
<1>1. PICK code \in Code : Rollback(c, code)
  BY Zenon DEF RefuseReference, UpsertRefused, RowMissing, RefuseBatch, RefuseCommit, RewrapFails,
         ResealFails, DeadlockAbort, Code
<1> QED
  BY <1>1, RollbackTyped

-----------------------------------------------------------------------------
(* The statements on batches, and rewrap_all *)

LEMMA InvokeTyped ==
  ASSUME TypeInv, NEW c \in Call, Invoke(c)
  PROVE  TypeInv'
<1> DEFINE t(pc, rq, todo) ==
             [Idle EXCEPT !.pc = pc, !.req = rq, !.began = clock, !.todo = todo]
           muts(rq) == IF rq.op \in {"put", "delete", "revoke"} THEN rq.muts ELSE <<>>
<1>1. PICK rq \in Requests :
        /\ tx' = [tx EXCEPT ![c] = t(First(rq.op), rq, muts(rq))]
        /\ calls' = calls + 1
        /\ UNCHANGED <<tables, locks, reply, keyring, clock, next_id, faults>>
  BY DEF Invoke, Start, Becomes
<1>2. rq \in Request
  BY StoreAssumption
<1>3. rq.op \in {"put", "delete", "revoke", "get", "prepare", "commit", "abort", "rewrap"}
  BY <1>2, RequestOps
<1>4. PICK pc \in Step : pc = First(rq.op)
  BY <1>3 DEF First, Step
<1>5. PICK todo \in Seq(Mutation) : todo = muts(rq)
  <2>1. rq.op \in {"put", "delete", "revoke"} => rq.muts \in Seq(Mutation)
    BY <1>2, RequestFields
  <2>2. <<>> \in Seq(Mutation)
    OBVIOUS
  <2> QED BY <2>1, <2>2
<1>6. t(pc, rq, todo) \in Tx
  <2>1. clock \in Int
    BY DEF TypeInv, TypeOK
  <2> QED BY <1>2, <2>1, IdleTyped DEF Tx
<1>7. AtStatement(t(pc, rq, todo))
  <2>1. /\ IsFiniteSet(t(pc, rq, todo).written)
        /\ t(pc, rq, todo).pc = First(rq.op) /\ t(pc, rq, todo).req = rq
    BY <1>4, IdleTyped DEF AtStatement, Idle
  <2> HIDE DEF t
  <2> QED BY <1>3, <2>1 DEF AtStatement, First
<1>8. tx' \in [Call -> Tx] /\ \A d \in Call : AtStatement(tx'[d])
  <2> HIDE DEF t, muts
  <2> QED BY <1>1, <1>4, <1>5, <1>6, <1>7 DEF TypeInv, TypeOK
<1> QED
  BY <1>1, <1>8 DEF TypeInv, TypeOK, tables, locks

LEMMA BeginTyped ==
  ASSUME TypeInv, NEW c \in Call, Begin(c)
  PROVE  TypeInv'
<1> DEFINE t == [tx[c] EXCEPT !.pc = "take", !.began = clock]
<1>1. clock \in Int
  BY DEF TypeInv, TypeOK
<1>2. t \in Tx
  BY <1>1, TxFields, StepNames DEF Tx
<1>3. AtStatement(t)
  BY TxFields DEF Begin, AtStatement
<1> QED
  BY <1>2, <1>3, StatementTyped DEF Begin, Becomes, TypeInv, TypeOK, locks

LEMMA BatchFields ==
  ASSUME TypeInv, NEW b \in Batch, prepared_transactions[b] # NoRow
  PROVE  /\ prepared_transactions[b] \in BatchRow
         /\ prepared_transactions[b].envelope \in EnvelopeOf(Batch, Payload)
         /\ prepared_transactions[b].envelope.plain.muts \in Seq(Mutation)
<1>1. prepared_transactions[b] \in BatchRow
  BY DEF TypeInv, TypeOK
<1>2. prepared_transactions[b].envelope \in EnvelopeOf(Batch, Payload)
  BY <1>1 DEF BatchRow
<1>3. prepared_transactions[b].envelope.plain.muts \in Seq(BatchMutation)
  BY <1>2 DEF EnvelopeOf, Payload
<1> QED BY <1>1, <1>2, <1>3, BatchSequence

LEMMA TakeBatchTyped ==
  ASSUME TypeInv, NEW c \in Call, TakeBatch(c)
  PROVE  TypeInv'
<1> DEFINE b == tx[c].req.batch
           t(muts) == [tx[c] EXCEPT !.pc = "exec", !.todo = muts]
<1>1. /\ tx[c].pc = "take"
      /\ prepared_transactions[b] # NoRow
      /\ tx' = [tx EXCEPT ![c] = t(prepared_transactions[b].envelope.plain.muts)]
      /\ batch_lock' = [batch_lock EXCEPT ![b] = c]
      /\ UNCHANGED <<tables, row_lock, reply, keyring, clock, next_id, bounds>>
  BY DEF TakeBatch, Becomes, Matches
<1>2. b \in Batch
  BY <1>1, TxFields, RequestFields DEF AtStatement
<1>3. PICK muts \in Seq(Mutation) : muts = prepared_transactions[b].envelope.plain.muts
  BY <1>1, <1>2, BatchFields
<1>4. t(muts) \in Tx /\ AtStatement(t(muts))
  <2>1. t(muts) \in Tx
    BY TxFields, StepNames DEF Tx
  <2>2. AtStatement(t(muts))
    BY <1>1, TxFields DEF AtStatement
  <2> QED BY <2>1, <2>2
<1>5. /\ row_lock' \in [Ref -> Call \cup {Nobody}] /\ next_id' \in Nat \ {0}
      /\ batch_lock' \in [Batch -> Call \cup {Nobody}]
  BY <1>1, <1>2 DEF TypeInv, TypeOK
<1> HIDE DEF t, b
<1> QED
  BY <1>1, <1>3, <1>4, <1>5, StatementTyped

LEMMA SelectVersionsTyped ==
  ASSUME TypeInv, NEW c \in Call, SelectVersions(c)
  PROVE  TypeInv'
<1> DEFINE t(targets) == [tx[c] EXCEPT !.pc = "lock", !.targets = targets]
<1>1. PICK targets \in SUBSET [ref : {r \in Ref : secrets[r] # NoRow},
                               secret_id : {v.secret_id : v \in secret_versions},
                               version : {v.version : v \in secret_versions}] :
        tx' = [tx EXCEPT ![c] = t(targets)]
  BY DEF SelectVersions, Becomes
<1>2. targets \subseteq Target
  BY DEF Target, TypeInv, TypeOK, VersionRow
<1>3. t(targets) \in Tx
  BY <1>2, TxFields, StepNames, ZenonT(40) DEF Tx
<1>4. AtStatement(t(targets))
  BY TxFields DEF SelectVersions, AtStatement
<1> HIDE DEF t
<1> QED
  BY <1>1, <1>3, <1>4, StatementTyped DEF SelectVersions, TypeInv, TypeOK, locks

LEMMA LockVersionsTyped ==
  ASSUME TypeInv, NEW c \in Call, LockVersions(c)
  PROVE  TypeInv'
<1> DEFINE t(targets) == [tx[c] EXCEPT !.targets = targets]
<1>1. PICK targets \in SUBSET tx[c].targets, r \in Ref, holder \in {c, Nobody} :
        /\ tx' = [tx EXCEPT ![c] = t(targets)]
        /\ row_lock' = [row_lock EXCEPT ![r] = holder]
  <2>1. \A r \in ToLock(c) : r \in Ref
    BY TxFields DEF ToLock, TargetRefs, Tx, Target
  <2> QED BY <2>1 DEF LockVersions, Becomes
<1>2. t(targets) \in Tx
  BY TxFields, SMTT(30) DEF Tx
<1>3. AtStatement(t(targets))
  BY TxFields DEF AtStatement
<1>4. row_lock' \in [Ref -> Call \cup {Nobody}]
  BY <1>1 DEF TypeInv, TypeOK
<1> HIDE DEF t
<1> QED
  BY <1>1, <1>2, <1>3, <1>4, StatementTyped DEF LockVersions, TypeInv, TypeOK

LEMMA SelectBatchesTyped ==
  ASSUME TypeInv, NEW c \in Call, SelectBatches(c)
  PROVE  TypeInv'
<1> DEFINE t(held) == [tx[c] EXCEPT !.pc = "resealing", !.began = clock, !.held = held]
<1>1. PICK held \in SUBSET Batch : tx' = [tx EXCEPT ![c] = t(held)]
  BY DEF SelectBatches, Becomes
<1>2. clock \in Int
  BY DEF TypeInv, TypeOK
<1>3. t(held) \in Tx
  BY <1>2, TxFields, StepNames DEF Tx
<1>4. AtStatement(t(held))
  BY TxFields DEF SelectBatches, AtStatement
<1>5. batch_lock' \in [Batch -> Call \cup {Nobody}]
  BY DEF SelectBatches, TypeInv, TypeOK
<1> HIDE DEF t
<1> QED
  BY <1>1, <1>3, <1>4, <1>5, StatementTyped DEF SelectBatches, TypeInv, TypeOK

-----------------------------------------------------------------------------
(* The statements that change the tables *)

LEMMA LoseTyped ==
  ASSUME TypeInv, NEW c \in Call, Lose(c)
  PROVE  TypeInv'
<1>1. reply' \in [Call -> ReplyType] /\ faults' \in Nat
  BY AnswerTyped DEF Lose, Code, TypeInv, TypeOK
<1> QED
  BY <1>1, ReleaseTyped DEF Lose, TypeInv, TypeOK, tables

LEMMA CommitTyped ==
  ASSUME TypeInv, NEW c \in Call, Commit(c)
  PROVE  TypeInv'
<1> DEFINE batch == tx[c].req.op = "commit"
           own == [secret_id |-> 0, action |-> "commit_batch"]
           answer(version) == [Answer("Ok") EXCEPT !.version = version]
<1>1. PICK version \in Nat, events \in Seq(Event) :
        /\ audit_events' = audit_events (+) BagOfSeq(events)
        /\ Reply(c, answer(version))
  <2>1. tx[c].events \in Seq(Event) /\ Append(tx[c].events, own) \in Seq(Event)
    BY TxFields DEF Event
  <2>2. tx[c].found.version \in Nat
    BY TxFields
  <2>3. CASE batch
    <3>1. /\ audit_events' = audit_events (+) BagOfSeq(Append(tx[c].events, own))
          /\ Reply(c, answer(0))
      BY <2>3 DEF Commit
    <3> HIDE DEF answer, own
    <3> QED BY <2>1, <3>1
  <2>4. CASE ~batch
    <3>1. /\ audit_events' = audit_events (+) BagOfSeq(tx[c].events)
          /\ Reply(c, answer(tx[c].found.version))
      BY <2>4 DEF Commit
    <3> HIDE DEF answer
    <3> QED BY <2>1, <2>2, <3>1
  <2> QED BY <2>3, <2>4
<1>2. secrets' \in [Ref -> SecretRow \cup {NoRow}]
  BY SeenTyped DEF Commit, CommittedRows
<1>3. secret_versions' \subseteq VersionRow /\ IsFiniteSet(secret_versions')
  <2> DEFINE kept == {v \in secret_versions : /\ v.secret_id \notin tx[c].dead
                                              /\ ~\E w \in tx[c].written : SameVersion(v, w)}
  <2>1. kept \subseteq VersionRow /\ IsFiniteSet(kept)
    BY FS_Subset DEF TypeInv, TypeOK
  <2>2. tx[c].written \subseteq VersionRow /\ IsFiniteSet(tx[c].written)
    BY TxFields DEF Tx, AtStatement
  <2>3. secret_versions' = kept \cup tx[c].written
    BY DEF Commit, CommittedVersions
  <2> HIDE DEF kept
  <2> QED BY <2>1, <2>2, <2>3, FS_Union
<1>4. prepared_transactions' \in [Batch -> BatchRow \cup {NoRow}]
  BY DEF Commit, TypeInv, TypeOK
<1>5. IsABag(audit_events') /\ DOMAIN audit_events' \subseteq Event
  <2>1. IsABag(audit_events) /\ DOMAIN audit_events \subseteq Event
    BY DEF TypeInv, TypeOK
  <2>2. IsABag(BagOfSeq(events)) /\ DOMAIN BagOfSeq(events) \subseteq Event
    BY EventsBag
  <2>3. audit_events' = audit_events (+) BagOfSeq(events)
    BY <1>1
  <2> QED BY <2>1, <2>2, <2>3, UnionIsABag
<1>6. reply' \in [Call -> ReplyType] /\ faults' \in Nat
  <2>1. answer(version) \in ReplyType
    BY DEF Answer, ReplyType, Code
  <2> HIDE DEF answer
  <2> QED BY <1>1, <2>1, ReplyTyped
<1> QED
  BY <1>2, <1>3, <1>4, <1>5, <1>6, ReleaseTyped DEF Commit, TypeInv, TypeOK

LEMMA GetTyped ==
  ASSUME TypeInv, NEW c \in Call, Get(c)
  PROVE  TypeInv'
<1> DEFINE r == tx[c].req.ref
           row == secrets[r]
<1>1. r \in Ref
  BY TxFields, RequestFields DEF Get, AtStatement
<1>2. ASSUME NEW v \in CurrentVersion(row), row # NoRow
      PROVE  [code |-> "Ok", version |-> row.current_version, value |-> v.envelope.plain]
               \in ReplyType
  <2>1. v \in VersionRow
    BY DEF CurrentVersion, TypeInv, TypeOK
  <2>2. v.envelope.plain \in Value
    BY <2>1 DEF VersionRow, EnvelopeOf
  <2>3. row.current_version \in Nat
    BY <1>1, <1>2 DEF TypeInv, TypeOK, SecretRow
  <2> HIDE DEF row
  <2> QED BY <2>2, <2>3 DEF ReplyType, Code
<1>3. reply' \in [Call -> ReplyType]
  <2>1. \E answer \in ReplyType : reply' = [reply EXCEPT ![c] = answer]
    <3>1. Answer("NotFound") \in ReplyType /\ Answer("Crypto") \in ReplyType
      BY AnswerTyped DEF Code
    <3>2. CASE reply' = [reply EXCEPT ![c] = Answer("NotFound")]
      BY <3>1, <3>2
    <3>3. CASE reply' # [reply EXCEPT ![c] = Answer("NotFound")]
      <4>1. PICK v \in CurrentVersion(row) :
              /\ row # NoRow
              /\ \/ reply' = [reply EXCEPT ![c] = Answer("Crypto")]
                 \/ reply' = [reply EXCEPT ![c] =
                      [code |-> "Ok", version |-> row.current_version,
                       value |-> v.envelope.plain]]
        BY <3>3 DEF Get
      <4> QED BY <1>2, <3>1, <4>1
    <3> QED BY <3>2, <3>3
  <2> QED BY <2>1 DEF TypeInv, TypeOK
<1> QED
  BY <1>3, ReleaseTyped DEF Get, TypeInv, TypeOK, tables, bounds

\* A call that ends after a change to prepared_transactions alone.
LEMMA BatchEndTyped ==
  ASSUME TypeInv, NEW c \in Call, Release(c),
         prepared_transactions' \in [Batch -> BatchRow \cup {NoRow}],
         reply' \in [Call -> ReplyType], faults' \in Nat,
         UNCHANGED <<secrets, secret_versions, audit_events, keyring, clock, next_id, calls>>
  PROVE  TypeInv'
BY ReleaseTyped DEF TypeInv, TypeOK

LEMMA RemovalTyped ==
  ASSUME TypeInv, NEW b
  PROVE  [prepared_transactions EXCEPT ![b] = NoRow] \in [Batch -> BatchRow \cup {NoRow}]
BY DEF TypeInv, TypeOK

LEMMA PrepareTyped ==
  ASSUME TypeInv, NEW c \in Call, Prepare(c)
  PROVE  TypeInv'
<1> DEFINE b == tx[c].req.batch
<1>1. tx[c].req.op = "prepare" /\ tx[c].req \in Request \cup {NoRequest}
  BY TxFields DEF Prepare, AtStatement
<1>2. b \in Batch /\ tx[c].req.muts \in Seq(BatchMutation)
  BY <1>1, RequestFields
<1>3. SealedBatch(c) \in BatchRow
  <2>1. tx[c].began + Lifetime \in Int
    BY TxFields, StoreAssumption
  <2>2. [expires_at |-> tx[c].began + Lifetime, muts |-> tx[c].req.muts] \in Payload
    BY <1>2, <2>1 DEF Payload
  <2> QED BY <1>2, <2>1, <2>2, EnvelopeTyped DEF SealedBatch, BatchRow
<1>4. prepared_transactions' \in [Batch -> BatchRow \cup {NoRow}]
  BY <1>3 DEF Prepare, TypeInv, TypeOK
<1>5. reply' \in [Call -> ReplyType] /\ faults' \in Nat
  <2>1. Answer("Ok") \in ReplyType /\ Answer("Conflict") \in ReplyType
    BY AnswerTyped DEF Code
  <2>2. CASE Reply(c, Answer("Ok"))
    BY <2>1, <2>2, ReplyTyped
  <2>3. CASE reply' = [reply EXCEPT ![c] = Answer("Conflict")] /\ UNCHANGED faults
    BY <2>1, <2>3 DEF TypeInv, TypeOK
  <2> QED BY <2>2, <2>3 DEF Prepare
<1> QED
  BY <1>4, <1>5, BatchEndTyped DEF Prepare

LEMMA DropExpiredTyped ==
  ASSUME TypeInv, NEW c \in Call, DropExpired(c)
  PROVE  TypeInv'
<1>1. Answer("NotFound") \in ReplyType
  BY AnswerTyped DEF Code
<1>2. reply' \in [Call -> ReplyType] /\ faults' \in Nat
  BY <1>1, ReplyTyped DEF DropExpired
<1> QED
  BY <1>2, RemovalTyped, BatchEndTyped DEF DropExpired

LEMMA AbortTyped ==
  ASSUME TypeInv, NEW c \in Call, Abort(c)
  PROVE  TypeInv'
<1>1. Answer("Ok") \in ReplyType /\ Answer("NotFound") \in ReplyType
  BY AnswerTyped DEF Code
<1>2. reply' \in [Call -> ReplyType] /\ faults' \in Nat
  <2>1. CASE Reply(c, Answer("Ok"))
    BY <1>1, <2>1, ReplyTyped
  <2>2. CASE reply' = [reply EXCEPT ![c] = Answer("NotFound")] /\ UNCHANGED faults
    BY <1>1, <2>2 DEF TypeInv, TypeOK
  <2> QED BY <2>1, <2>2 DEF Abort
<1>3. prepared_transactions' \in [Batch -> BatchRow \cup {NoRow}]
  <2>1. CASE UNCHANGED prepared_transactions
    BY <2>1 DEF TypeInv, TypeOK
  <2>2. CASE prepared_transactions' =
               [prepared_transactions EXCEPT ![tx[c].req.batch] = NoRow]
    BY <2>2, RemovalTyped
  <2> QED BY <2>1, <2>2 DEF Abort
<1> QED
  BY <1>2, <1>3, BatchEndTyped DEF Abort

LEMMA PurgeTyped ==
  ASSUME TypeInv, NEW c \in Call, Purge(c)
  PROVE  TypeInv'
<1> DEFINE t(pc) == [tx[c] EXCEPT !.pc = pc]
           next == IF tx[c].req.op = "prepare" THEN "insert" ELSE "begin"
<1>1. prepared_transactions' \in [Batch -> BatchRow \cup {NoRow}]
  BY DEF Purge, TypeInv, TypeOK
<1>2. tx' = [tx EXCEPT ![c] = t(next)] /\ tx[c].pc = "purge"
  BY DEF Purge, Becomes
<1>3. t(next) \in Tx
  BY TxFields, StepNames, ZenonT(40) DEF Tx
<1>4. AtStatement(t(next))
  BY <1>2, TxFields DEF AtStatement
<1>5. tx' \in [Call -> Tx] /\ \A d \in Call : AtStatement(tx'[d])
  <2> HIDE DEF t
  <2> QED BY <1>2, <1>3, <1>4 DEF TypeInv, TypeOK
<1> QED
  BY <1>1, <1>5 DEF Purge, TypeInv, TypeOK, locks, bounds

\* A version keeps its type when its envelope is replaced.
LEMMA ResealTyped ==
  ASSUME TypeInv, NEW c \in Call, NEW Labels, NEW Plain, NEW e \in EnvelopeOf(Labels, Plain)
  PROVE  reseal(keyring[c], e) \in EnvelopeOf(Labels, Plain)
BY EnvelopeTyped DEF reseal, EnvelopeOf

LEMMA RewrappedTyped ==
  ASSUME TypeInv, NEW c \in Call, NEW v \in VersionRow
  PROVE  Rewrapped(c, v) \in VersionRow
BY ResealTyped DEF Rewrapped, VersionRow

LEMMA RewrapVersionsTyped ==
  ASSUME TypeInv, NEW c \in Call, RewrapVersions(c)
  PROVE  TypeInv'
<1> DEFINE S == Selected(c)
           R == {Rewrapped(c, v) : v \in S}
           t(n) == [tx[c] EXCEPT !.pc = "reseal", !.targets = {}, !.count = n]
           counted == [e \in {[secret_id |-> v.secret_id, action |-> "rewrap"] : v \in S} |->
                         Cardinality({v \in S : v.secret_id = e.secret_id})]
<1>1. S \subseteq secret_versions /\ S \subseteq VersionRow /\ IsFiniteSet(S)
  BY FS_Subset DEF Selected, TypeInv, TypeOK
<1>2. R \subseteq VersionRow /\ IsFiniteSet(R)
  <2>1. R \subseteq VersionRow
    BY <1>1, RewrappedTyped
  <2>2. [v \in S |-> Rewrapped(c, v)] \in Surjection(S, R)
    BY DEF Surjection
  <2>3. IsFiniteSet(R)
    BY <1>1, <2>2, FS_Surjection
  <2> QED BY <2>1, <2>3
<1>3. secret_versions' \subseteq VersionRow /\ IsFiniteSet(secret_versions')
  <2>1. secret_versions' = (secret_versions \ S) \cup R
    BY DEF RewrapVersions
  <2>2. secret_versions \ S \subseteq VersionRow /\ IsFiniteSet(secret_versions \ S)
    BY FS_Subset DEF TypeInv, TypeOK
  <2> HIDE DEF S, R
  <2> QED BY <1>2, <2>1, <2>2, FS_Union
<1>4. IsABag(audit_events') /\ DOMAIN audit_events' \subseteq Event
  <2>1. DOMAIN counted \subseteq Event
    BY <1>1 DEF VersionRow, Event
  <2>2. ASSUME NEW e \in DOMAIN counted
        PROVE  counted[e] \in Nat /\ counted[e] > 0
    <3> DEFINE same == {v \in S : v.secret_id = e.secret_id}
    <3>1. PICK v \in S : e = [secret_id |-> v.secret_id, action |-> "rewrap"]
      BY <2>2
    <3>2. v \in same
      BY <3>1
    <3>3. IsFiniteSet(same)
      BY <1>1, FS_Subset
    <3>4. counted[e] = Cardinality(same)
      BY <2>2
    <3> HIDE DEF same, counted
    <3> QED BY <3>2, <3>3, <3>4, FS_CardinalityType, FS_EmptySet
  <2>3. IsABag(counted)
    <3> HIDE DEF S
    <3>1. counted = [e \in DOMAIN counted |-> counted[e]]
      OBVIOUS
    <3> HIDE DEF counted
    <3> QED BY <2>2, <3>1 DEF IsABag
  <2>4. IsABag(audit_events) /\ DOMAIN audit_events \subseteq Event
    BY DEF TypeInv, TypeOK
  <2>5. audit_events' = audit_events (+) counted
    BY DEF RewrapVersions
  <2> HIDE DEF counted
  <2> QED BY <2>1, <2>3, <2>4, <2>5, UnionIsABag
<1>5. Cardinality(S) \in Nat
  BY <1>1, FS_CardinalityType
<1>6. tx' = [tx EXCEPT ![c] = t(Cardinality(S))] /\ tx[c].pc = "lock"
  BY DEF RewrapVersions, Becomes
<1>7. PICK n \in Nat : n = Cardinality(S)
  BY <1>5
<1>8. t(n) \in Tx
  BY TxFields, StepNames DEF Tx
<1>9. AtStatement(t(n))
  BY <1>6, TxFields DEF AtStatement
<1>10. tx' \in [Call -> Tx] /\ \A d \in Call : AtStatement(tx'[d])
  <2> HIDE DEF t, S
  <2> QED BY <1>6, <1>7, <1>8, <1>9 DEF TypeInv, TypeOK
<1>11. row_lock' \in [Ref -> Call \cup {Nobody}]
  BY DEF RewrapVersions, TypeInv, TypeOK
<1> QED
  BY <1>3, <1>4, <1>10, <1>11 DEF RewrapVersions, TypeInv, TypeOK, bounds

LEMMA ResealBatchesTyped ==
  ASSUME TypeInv, NEW c \in Call, ResealBatches(c)
  PROVE  TypeInv'
<1>1. ASSUME NEW b \in Batch, prepared_transactions[b] # NoRow
      PROVE  [prepared_transactions[b] EXCEPT !.envelope = reseal(keyring[c], @)] \in BatchRow
  <2>1. prepared_transactions[b] \in BatchRow
    BY <1>1, BatchFields
  <2>2. reseal(keyring[c], prepared_transactions[b].envelope) \in EnvelopeOf(Batch, Payload)
    BY <1>1, BatchFields, ResealTyped
  <2> QED BY <2>1, <2>2 DEF BatchRow
<1>2. prepared_transactions' \in [Batch -> BatchRow \cup {NoRow}]
  BY <1>1 DEF ResealBatches, ToReseal, TypeInv, TypeOK
<1>3. reply' \in [Call -> ReplyType] /\ faults' \in Nat
  <2>1. [Answer("Ok") EXCEPT !.version = tx[c].count] \in ReplyType
    BY TxFields DEF Answer, ReplyType, Code, Tx
  <2> QED BY <2>1, ReplyTyped DEF ResealBatches
<1> QED
  BY <1>2, <1>3, BatchEndTyped DEF ResealBatches

LEMMA RewriteExpiryTyped ==
  ASSUME TypeInv, RewriteExpiry
  PROVE  TypeInv'
<1>1. PICK b \in Batch, time \in {0, MaxClock + 1} :
        /\ prepared_transactions[b] # NoRow
        /\ prepared_transactions' = [prepared_transactions EXCEPT ![b].expires_at = time]
  BY DEF RewriteExpiry
<1>2. time \in Int
  BY StoreAssumption
<1>3. [prepared_transactions[b] EXCEPT !.expires_at = time] \in BatchRow
  BY <1>1, <1>2, BatchFields DEF BatchRow
<1>4. prepared_transactions' \in [Batch -> BatchRow \cup {NoRow}]
  BY <1>1, <1>3 DEF TypeInv, TypeOK
<1> QED
  BY <1>4 DEF RewriteExpiry, TypeInv, TypeOK, locks

LEMMA TickTyped ==
  ASSUME TypeInv, Tick
  PROVE  TypeInv'
BY DEF Tick, TypeInv, TypeOK, tables, locks, bounds

-----------------------------------------------------------------------------
\* Every step of every call, and of what surrounds the calls, keeps the shapes.
LEMMA TypeStep ==
  ASSUME TypeInv, [Next]_vars
  PROVE  TypeInv'
<1>1. CASE UNCHANGED vars
  BY <1>1 DEF vars, tables, locks, bounds, TypeInv, TypeOK
<1>2. ASSUME NEW c \in Call, Progress(c)
      PROVE  TypeInv'
  BY <1>2, RefusalsTyped, BlockTyped, SelectForUpdateTyped, UpsertTyped, DeleteRowTyped,
     RevokeRowTyped, CommitTyped, GetTyped, PurgeTyped, PrepareTyped, BeginTyped,
     TakeBatchTyped, DropExpiredTyped, AbortTyped, SelectVersionsTyped, LockVersionsTyped,
     RewrapVersionsTyped, SelectBatchesTyped, ResealBatchesTyped
  DEF Progress
<1> QED
  BY <1>1, <1>2, InvokeTyped, LoseTyped, RewriteExpiryTyped, TickTyped DEF Next

\* Type correctness of the store's rows, transactions and replies
\* (crates/secrets-postgres), in every reachable state.
THEOREM TypeCorrect == Spec => []TypeOK
<1>1. TypeInv => TypeOK
  BY DEF TypeInv
<1> QED
  BY <1>1, InitTyped, TypeStep, PTL DEF Spec

-----------------------------------------------------------------------------
(***************************************************************************)
(* HeldBatchInTime holds in every reachable state of PostgresStore: a      *)
(* commit that has taken its batch keeps the lock of the batch's row to    *)
(* its end, and whatever deletes, replaces, re-seals or edits a row of     *)
(* prepared_transactions waits for that lock.                              *)
(***************************************************************************)
\* A commit that runs its mutations holds the row of its batch, in time.
HoldsBatch(c) ==
  tx[c].req.op = "commit" /\ tx[c].pc \in {"exec", "upsert"} =>
    LET b == tx[c].req.batch
        row == prepared_transactions[b]
    IN  /\ batch_lock[b] = c
        /\ row # NoRow
        /\ tx[c].began < row.expires_at
        /\ tx[c].began < row.envelope.plain.expires_at
BatchInv == TypeInv /\ \A c \in Call : HoldsBatch(c)

\* The row of b stays, and so do both its expiries.
SameExpiry(b) ==
  prepared_transactions[b] # NoRow =>
    /\ prepared_transactions'[b] # NoRow
    /\ prepared_transactions'[b].expires_at = prepared_transactions[b].expires_at
    /\ prepared_transactions'[b].envelope.plain.expires_at
         = prepared_transactions[b].envelope.plain.expires_at
\* What other calls hold is left to them.
Respects(c) ==
  /\ \A d \in Call \ {c} : tx'[d] = tx[d]
  /\ \A b \in Batch : \A d \in Call \ {c} :
       batch_lock[b] = d => batch_lock'[b] = d /\ SameExpiry(b)

LEMMA BatchOfCommit ==
  ASSUME TypeInv, NEW c \in Call, tx[c].req.op \in {"prepare", "commit", "abort"}
  PROVE  tx[c].req.batch \in Batch
<1>1. tx[c].req \in Request \cup {NoRequest}
  BY DEF TypeInv, TypeOK, Tx
<1> QED BY <1>1, RequestFields

LEMMA BatchStep ==
  ASSUME BatchInv, NEW c \in Call, Respects(c), HoldsBatch(c)'
  PROVE  \A d \in Call : HoldsBatch(d)'
<1> SUFFICES ASSUME NEW d \in Call \ {c}, tx[d].req.op = "commit", tx[d].pc \in {"exec", "upsert"}
             PROVE  HoldsBatch(d)'
  BY DEF Respects, HoldsBatch
<1>1. PICK b \in Batch : b = tx[d].req.batch
  BY BatchOfCommit DEF BatchInv
<1>2. /\ batch_lock[b] = d /\ prepared_transactions[b] # NoRow
      /\ tx[d].began < prepared_transactions[b].expires_at
      /\ tx[d].began < prepared_transactions[b].envelope.plain.expires_at
  BY <1>1 DEF BatchInv, HoldsBatch
<1> QED BY <1>1, <1>2, SMTT(30) DEF Respects, SameExpiry, HoldsBatch

-----------------------------------------------------------------------------
(* The ends of calls *)

LEMMA ReleaseHolds ==
  ASSUME BatchInv, NEW c \in Call, Release(c),
         \A b \in Batch : \A d \in Call \ {c} : batch_lock[b] = d => SameExpiry(b)
  PROVE  \A d \in Call : HoldsBatch(d)'
<1>1. tx' = [tx EXCEPT ![c] = Idle] /\ tx \in [Call -> Tx]
  BY DEF Release, Becomes, BatchInv, TypeInv, TypeOK
<1>2. HoldsBatch(c)'
  BY <1>1 DEF HoldsBatch, Idle
<1>3. \A b \in Batch : batch_lock[b] # c => batch_lock'[b] = batch_lock[b]
  BY DEF Release
<1>4. Respects(c)
  BY <1>1, <1>3 DEF Respects
<1> QED BY <1>2, <1>4, BatchStep

LEMMA EndHolds ==
  ASSUME BatchInv, NEW c \in Call,
         \/ RefuseReference(c) \/ UpsertRefused(c) \/ RowMissing(c) \/ RefuseBatch(c)
         \/ RefuseCommit(c) \/ RewrapFails(c) \/ ResealFails(c) \/ DeadlockAbort(c)
         \/ Lose(c) \/ Get(c)
  PROVE  \A d \in Call : HoldsBatch(d)'
<1>1. Release(c) /\ UNCHANGED prepared_transactions
  BY Zenon DEF RefuseReference, UpsertRefused, RowMissing, RefuseBatch, RefuseCommit, RewrapFails,
         ResealFails, DeadlockAbort, Rollback, Lose, Get, tables
<1> QED BY <1>1, ReleaseHolds, SMTT(30) DEF SameExpiry

\* prepare, abort and an expired commit write the row of their batch when
\* nobody else holds it; a commit its own.
LEMMA OwnBatchHolds ==
  ASSUME BatchInv, NEW c \in Call,
         Prepare(c) \/ DropExpired(c) \/ Abort(c) \/ Commit(c)
  PROVE  \A d \in Call : HoldsBatch(d)'
<1>1. Release(c)
  BY DEF Prepare, DropExpired, Abort, Commit
<1>2. ASSUME NEW b \in Batch, NEW d \in Call \ {c}, batch_lock[b] = d
      PROVE  prepared_transactions'[b] = prepared_transactions[b]
  <2>0. prepared_transactions \in [Batch -> BatchRow \cup {NoRow}] /\ d # Nobody
    BY StoreAssumption DEF BatchInv, TypeInv, TypeOK
  <2>1. CASE Prepare(c)
    BY <1>2, <2>0, <2>1, SMTT(30) DEF Prepare, HeldByOther
  <2>2. CASE DropExpired(c)
    BY <1>2, <2>0, <2>2 DEF DropExpired, HeldByOther
  <2>3. CASE Abort(c)
    BY <1>2, <2>0, <2>3 DEF Abort, HeldByOther
  <2>4. CASE Commit(c)
    <3>1. CASE tx[c].req.op = "commit"
      <4>1. batch_lock[tx[c].req.batch] = c
        BY <2>4, <3>1 DEF Commit, BatchInv, HoldsBatch
      <4> QED BY <1>2, <2>4, <4>1 DEF Commit
    <3>2. CASE tx[c].req.op # "commit"
      BY <2>4, <3>2 DEF Commit
    <3> QED BY <3>1, <3>2
  <2> QED BY <2>1, <2>2, <2>3, <2>4
<1> QED BY <1>1, <1>2, ReleaseHolds, SMTT(30) DEF SameExpiry

\* reseal_batches waits for the rows it selected.
LEMMA ResealHolds ==
  ASSUME BatchInv, NEW c \in Call, ResealBatches(c)
  PROVE  \A d \in Call : HoldsBatch(d)'
<1>1. ASSUME NEW b \in Batch, NEW d \in Call \ {c}, batch_lock[b] = d
      PROVE  prepared_transactions'[b] = prepared_transactions[b]
  <2>1. b \notin tx[c].held
    BY <1>1, StoreAssumption DEF ResealBatches, AtReseal, HeldByOther
  <2>2. b \notin ToReseal(c)
    BY <2>1 DEF ToReseal
  <2> QED BY <1>1, <2>2 DEF ResealBatches
<1>2. Release(c)
  BY DEF ResealBatches
<1> QED BY <1>1, <1>2, ReleaseHolds DEF SameExpiry

-----------------------------------------------------------------------------
(* The other steps *)

\* The statements of a transaction change neither its batch nor its start.
LEMMA StatementHolds ==
  ASSUME BatchInv, NEW c \in Call,
         Block(c) \/ SelectForUpdate(c) \/ Upsert(c) \/ DeleteRow(c) \/ RevokeRow(c)
  PROVE  \A d \in Call : HoldsBatch(d)'
<1>1. UNCHANGED <<prepared_transactions, batch_lock>> /\ tx[c].pc \in {"exec", "upsert"}
  BY DEF Block, SelectForUpdate, Upsert, DeleteRow, RevokeRow, At, AtUpsert, tables, locks
<1>2. tx \in [Call -> Tx] /\ tx[c] \in Tx
  BY DEF BatchInv, TypeInv, TypeOK
<1>3. /\ tx'[c].req = tx[c].req /\ tx'[c].began = tx[c].began
      /\ \A d \in Call \ {c} : tx'[d] = tx[d]
  <2>1. CASE Block(c)
    <3>1. PICK id : tx' = [tx EXCEPT ![c] = [tx[c] EXCEPT !.snap = id]]
      BY <2>1 DEF Block, Becomes
    <3> QED BY <1>2, <3>1 DEF Tx
  <2>2. CASE SelectForUpdate(c)
    <3>1. PICK found : tx' = [tx EXCEPT ![c] = [tx[c] EXCEPT !.pc = "upsert", !.snap = 0,
                                                             !.found = found]]
      BY <2>2 DEF SelectForUpdate, Becomes
    <3> QED BY <1>2, <3>1 DEF Tx
  <2>3. CASE Upsert(c)
    <3> DEFINE t(r) == [tx[c] EXCEPT
                          !.pc = "exec", !.todo = Tail(@),
                          !.dirty[r] = UpsertRow(c, r),
                          !.written = @ \cup {NewVersion(c, r)},
                          !.events = Append(@, [secret_id |-> tx[c].found.id, action |-> "put"])]
    <3>1. PICK r \in Ref : tx' = [tx EXCEPT ![c] = t(r)]
      BY <2>3 DEF Upsert, Becomes
    <3>2. t(r).req = tx[c].req /\ t(r).began = tx[c].began
      BY <1>2 DEF Tx
    <3> HIDE DEF t
    <3> QED BY <1>2, <3>1, <3>2
  <2>4. CASE DeleteRow(c)
    <3> DEFINE t(r, id) ==
                 [tx[c] EXCEPT !.todo = Tail(@), !.snap = 0, !.dirty[r] = NoRow,
                    !.dead = @ \cup {id}, !.written = {v \in @ : v.secret_id # id},
                    !.events = Append(@, [secret_id |-> id, action |-> "delete"])]
    <3>1. PICK r \in Ref : tx' = [tx EXCEPT ![c] = t(r, Found(c, r).id)]
      BY <2>4 DEF DeleteRow, Becomes
    <3>2. \A id : t(r, id).req = tx[c].req /\ t(r, id).began = tx[c].began
      BY <1>2 DEF Tx
    <3> HIDE DEF t
    <3> QED BY <1>2, <3>1, <3>2, SMTT(30)
  <2>5. CASE RevokeRow(c)
    <3> DEFINE t(r, row) ==
                 [tx[c] EXCEPT !.todo = Tail(@), !.snap = 0,
                    !.found = [id |-> row.id, version |-> row.current_version],
                    !.dirty[r] = [row EXCEPT !.state = "revoked"],
                    !.events = Append(@, [secret_id |-> row.id, action |-> "revoke"])]
    <3>1. PICK r \in Ref : tx' = [tx EXCEPT ![c] = t(r, Found(c, r))]
      BY <2>5 DEF RevokeRow, Becomes
    <3>2. \A row : t(r, row).req = tx[c].req /\ t(r, row).began = tx[c].began
      BY <1>2 DEF Tx
    <3> HIDE DEF t
    <3> QED BY <1>2, <3>1, <3>2
  <2> QED BY <2>1, <2>2, <2>3, <2>4, <2>5
<1>4. HoldsBatch(c)'
  BY <1>1, <1>3 DEF BatchInv, HoldsBatch
<1>5. Respects(c)
  BY <1>1, <1>3 DEF Respects, SameExpiry
<1> QED BY <1>4, <1>5, BatchStep, SMTT(30)

\* The DELETE ... RETURNING of commit takes the row, and both expiries are checked.
LEMMA TakeHolds ==
  ASSUME BatchInv, NEW c \in Call, TakeBatch(c)
  PROVE  \A d \in Call : HoldsBatch(d)'
<1> DEFINE b == tx[c].req.batch
<1>1. tx \in [Call -> Tx] /\ tx[c] \in Tx
  BY SMTT(30) DEF BatchInv, TypeInv, TypeOK
<1>2. tx[c].req.op = "commit" /\ b \in Batch
  <2>1. tx[c].pc = "take"
    BY Zenon DEF TakeBatch
  <2>2. TypeInv
    BY DEF BatchInv
  <2>3. tx[c].req.op = "commit"
    BY <2>1, <2>2 DEF TypeInv, AtStatement
  <2> QED BY <2>2, <2>3, BatchOfCommit
<1>3. PICK todo : tx' = [tx EXCEPT ![c] = [tx[c] EXCEPT !.pc = "exec", !.todo = todo]]
  BY DEF TakeBatch, Becomes
<1>4. /\ tx'[c].req = tx[c].req /\ tx'[c].began = tx[c].began
      /\ \A d \in Call \ {c} : tx'[d] = tx[d]
  BY <1>1, <1>3, SMTT(30) DEF Tx
<1>5. /\ prepared_transactions[b] # NoRow /\ UNCHANGED prepared_transactions
      /\ prepared_transactions[b].expires_at > tx[c].began
      /\ prepared_transactions[b].envelope.plain.expires_at > tx[c].began
      /\ batch_lock' = [batch_lock EXCEPT ![b] = c] /\ ~HeldByOther(c, b)
  BY DEF TakeBatch, Matches, tables
<1>6. batch_lock \in [Batch -> Call \cup {Nobody}]
  BY DEF BatchInv, TypeInv, TypeOK
<1>7. prepared_transactions[b].expires_at \in Int
      /\ prepared_transactions[b].envelope.plain.expires_at \in Int /\ tx[c].began \in Int
  BY <1>2, <1>5, BatchFields, TxFields DEF BatchInv, BatchRow, EnvelopeOf, Payload
<1>8. HoldsBatch(c)'
  BY <1>2, <1>4, <1>5, <1>6, <1>7 DEF HoldsBatch
<1>9. Respects(c)
  BY <1>4, <1>5, <1>6, StoreAssumption DEF Respects, SameExpiry, HeldByOther
<1> QED BY <1>8, <1>9, BatchStep

\* The statements of calls that are no transaction on rows.  A purge, of prepare
\* or of rewrap_all, waits for the rows it matches.
LEMMA OtherHolds ==
  ASSUME BatchInv, NEW c \in Call,
         \/ Purge(c) \/ Begin(c) \/ SelectVersions(c) \/ LockVersions(c) \/ RewrapVersions(c)
         \/ SelectBatches(c)
  PROVE  \A d \in Call : HoldsBatch(d)'
<1>1. tx \in [Call -> Tx] /\ tx[c] \in Tx
  BY DEF BatchInv, TypeInv, TypeOK
<1>2. tx'[c].pc \notin {"exec", "upsert"} /\ \A d \in Call \ {c} : tx'[d] = tx[d]
  <2>1. CASE Purge(c)
    BY <1>1, <2>1 DEF Purge, Becomes, Tx
  <2>2. CASE Begin(c)
    BY <1>1, <2>2 DEF Begin, Becomes, Tx
  <2>3. CASE SelectVersions(c)
    <3>1. PICK S : tx' = [tx EXCEPT ![c] = [tx[c] EXCEPT !.pc = "lock", !.targets = S]]
      BY <2>3 DEF SelectVersions, Becomes
    <3> QED BY <1>1, <3>1, SMTT(30) DEF Tx
  <2>4. CASE LockVersions(c)
    <3>1. PICK S : tx' = [tx EXCEPT ![c] = [tx[c] EXCEPT !.targets = S]] /\ tx[c].pc = "lock"
      BY <2>4 DEF LockVersions, Becomes
    <3> QED BY <1>1, <3>1 DEF Tx
  <2>5. CASE RewrapVersions(c)
    <3>1. PICK n : tx' = [tx EXCEPT ![c] = [tx[c] EXCEPT !.pc = "reseal", !.targets = {},
                                                         !.count = n]]
      BY <2>5 DEF RewrapVersions, Becomes
    <3> QED BY <1>1, <3>1 DEF Tx
  <2>6. CASE SelectBatches(c)
    <3>1. PICK S : tx' = [tx EXCEPT ![c] = [tx[c] EXCEPT !.pc = "resealing", !.began = clock,
                                                         !.held = S]]
      BY <2>6 DEF SelectBatches, Becomes
    <3> QED BY <1>1, <3>1 DEF Tx
  <2> QED BY <2>1, <2>2, <2>3, <2>4, <2>5, <2>6, SMTT(30)
<1>3. ASSUME NEW b \in Batch, NEW d \in Call \ {c}, batch_lock[b] = d
      PROVE  batch_lock'[b] = d /\ prepared_transactions'[b] = prepared_transactions[b]
  <2>1. HeldByOther(c, b)
    BY <1>3, StoreAssumption, SMTT(30) DEF HeldByOther
  <2>2. CASE Purge(c)
    BY <1>3, <2>1, <2>2 DEF Purge, locks
  <2>3. CASE SelectBatches(c)
    BY <1>3, <2>1, <2>3 DEF SelectBatches, tables
  <2>4. CASE Begin(c) \/ SelectVersions(c) \/ LockVersions(c) \/ RewrapVersions(c)
    BY <1>3, <2>4 DEF Begin, SelectVersions, LockVersions, RewrapVersions, tables, locks
  <2> QED BY <2>2, <2>3, <2>4
<1>4. HoldsBatch(c)'
  BY <1>2 DEF HoldsBatch
<1>5. Respects(c)
  BY <1>2, <1>3 DEF Respects, SameExpiry
<1> QED BY <1>4, <1>5, BatchStep

LEMMA InvokeHolds ==
  ASSUME BatchInv, NEW c \in Call, Invoke(c)
  PROVE  \A d \in Call : HoldsBatch(d)'
<1> DEFINE t(pc, rq, todo) ==
             [Idle EXCEPT !.pc = pc, !.req = rq, !.began = clock, !.todo = todo]
           muts(rq) == IF rq.op \in {"put", "delete", "revoke"} THEN rq.muts ELSE <<>>
<1>1. PICK rq \in Requests :
        /\ tx' = [tx EXCEPT ![c] = t(First(rq.op), rq, muts(rq))]
        /\ UNCHANGED <<prepared_transactions, batch_lock>>
  BY DEF Invoke, Start, Becomes, tables, locks
<1>2. /\ t(First(rq.op), rq, muts(rq)).pc = First(rq.op)
      /\ t(First(rq.op), rq, muts(rq)).req = rq
  BY DEF Idle
<1>3. rq.op = "commit" => First(rq.op) = "purge"
  BY DEF First
<1>4. tx \in [Call -> Tx]
  BY DEF BatchInv, TypeInv, TypeOK
<1> HIDE DEF t, muts
<1>5. HoldsBatch(c)'
  BY <1>1, <1>2, <1>3, <1>4 DEF HoldsBatch
<1>6. Respects(c)
  BY <1>1, <1>4 DEF Respects, SameExpiry
<1> QED BY <1>5, <1>6, BatchStep

\* Nobody rewrites a row that is locked.
LEMMA IdleHolds ==
  ASSUME BatchInv, RewriteExpiry \/ Tick \/ UNCHANGED vars
  PROVE  \A d \in Call : HoldsBatch(d)'
<1>1. UNCHANGED <<tx, batch_lock>>
  BY DEF RewriteExpiry, Tick, vars, locks
<1>2. ASSUME NEW b \in Batch, batch_lock[b] \in Call
      PROVE  prepared_transactions'[b] = prepared_transactions[b]
  <2>1. CASE RewriteExpiry
    BY <1>2, <2>1, StoreAssumption DEF RewriteExpiry, BatchInv, TypeInv, TypeOK
  <2>2. CASE Tick \/ UNCHANGED vars
    BY <2>2 DEF Tick, vars, tables
  <2> QED BY <2>1, <2>2
<1> SUFFICES ASSUME NEW d \in Call, tx[d].req.op = "commit", tx[d].pc \in {"exec", "upsert"}
             PROVE  HoldsBatch(d)'
  BY <1>1 DEF HoldsBatch
<1>3. tx[d].req.batch \in Batch /\ HoldsBatch(d)
  BY BatchOfCommit DEF BatchInv
<1> QED BY <1>1, <1>2, <1>3 DEF HoldsBatch

-----------------------------------------------------------------------------
LEMMA InitHolds == Init => BatchInv
<1>1. ASSUME Init, NEW c \in Call PROVE HoldsBatch(c)
  BY <1>1 DEF Init, Idle, HoldsBatch
<1> QED BY <1>1, InitTyped DEF BatchInv

LEMMA HoldsStep == BatchInv /\ [Next]_vars => BatchInv'
<1> SUFFICES ASSUME BatchInv, [Next]_vars PROVE BatchInv'
  OBVIOUS
<1>1. TypeInv'
  BY TypeStep DEF BatchInv
<1>2. ASSUME NEW c \in Call, Progress(c) PROVE \A d \in Call : HoldsBatch(d)'
  BY <1>2, EndHolds, OwnBatchHolds, ResealHolds, StatementHolds, TakeHolds, OtherHolds DEF Progress
<1>3. \A d \in Call : HoldsBatch(d)'
  BY <1>2, InvokeHolds, EndHolds, IdleHolds DEF Next
<1> QED BY <1>1, <1>3 DEF BatchInv

\* A commit that runs its batch began before the batch expired, by the column
\* and by the sealed expiry, whatever purges, aborts, re-seals and edits of the
\* column come meanwhile (crates/secrets-postgres, commit).
THEOREM HeldBatchAlwaysInTime == Spec => []HeldBatchInTime
<1>1. BatchInv => HeldBatchInTime
  BY DEF BatchInv, HoldsBatch, HeldBatchInTime
<1> QED BY <1>1, InitHolds, HoldsStep, PTL DEF Spec

-----------------------------------------------------------------------------
(***************************************************************************)
(* VersionsDense holds in every reachable state of PostgresStore.  It is   *)
(* not inductive: what a transaction has not committed yet must be dense   *)
(* as well once it is laid over the tables, and the ids it touches must    *)
(* be out of the reach of every other transaction, behind a row lock or    *)
(* because they are new.                                                   *)
(***************************************************************************)

IsRow(row) == row \notin {NoRow, Untouched}

\* The ids a transaction has written to.
Touched(c) ==
  {tx[c].dirty[r].id : r \in {s \in Ref : IsRow(tx[c].dirty[s])}}
  \cup tx[c].dead \cup {v.secret_id : v \in tx[c].written}

\* An id is that of a committed row c has written over, or of no committed row
\* and of no other transaction.
Committed(id) == \E r \in Ref : secrets[r] # NoRow /\ secrets[r].id = id
WrittenOver(c, id) ==
  \E r \in Ref : tx[c].dirty[r] # Untouched /\ secrets[r] # NoRow /\ secrets[r].id = id
OwnId(c, id) == ~Committed(id) /\ \A d \in Call \ {c} : id \notin Touched(d)

\* put_tx between its SELECT and its INSERTs holds the row it read, or an id
\* nobody else has.
HoldsRow(c, r) ==
  /\ row_lock[r] = c
  /\ Seen(c, r) # NoRow
  /\ tx[c].found = [id |-> Seen(c, r).id, version |-> Seen(c, r).current_version + 1]
NewId(c, id) ==
  /\ id < next_id /\ ~Committed(id)
  /\ \A d \in Call : id \notin Touched(d)
  /\ \A d \in Call \ {c} : tx[d].pc = "upsert" => tx[d].found.id # id
HoldsNewId(c) == tx[c].found.version = 1 /\ NewId(c, tx[c].found.id)

WritesOnlyInTransaction(c) ==
  tx[c].pc \notin {"exec", "upsert"} =>
    tx[c].dirty = [r \in Ref |-> Untouched] /\ tx[c].written = {} /\ tx[c].dead = {}
WritesBehindLocks(c) == \A r \in Ref : tx[c].dirty[r] # Untouched => row_lock[r] = c
WrittenDense(c) ==
  \A r \in Ref : IsRow(tx[c].dirty[r]) =>
    VersionsIn(CommittedVersions(c), tx[c].dirty[r].id) = 1 .. tx[c].dirty[r].current_version
WrittenHaveRows(c) ==
  \A v \in tx[c].written : \E r \in Ref :
    IsRow(tx[c].dirty[r]) /\ tx[c].dirty[r].id = v.secret_id
WrittenOnce(c) == \A v, w \in tx[c].written : SameVersion(v, w) => v = w
DirtyIdsDiffer(c) ==
  \A r, s \in Ref :
    IsRow(tx[c].dirty[r]) /\ IsRow(tx[c].dirty[s]) /\ tx[c].dirty[r].id = tx[c].dirty[s].id
      => r = s
ReplacedAreDead(c) ==
  \A r \in Ref :
    tx[c].dirty[r] # Untouched /\ secrets[r] # NoRow =>
      \/ secrets[r].id \in tx[c].dead
      \/ IsRow(tx[c].dirty[r]) /\ tx[c].dirty[r].id = secrets[r].id
TouchedIsolated(c) ==
  \A id \in Touched(c) : id < next_id /\ (WrittenOver(c, id) \/ OwnId(c, id))
FoundIsolated(c) ==
  tx[c].pc = "upsert" => HoldsRow(c, Head(tx[c].todo).ref) \/ HoldsNewId(c)

WritesInv(c) ==
  /\ WritesOnlyInTransaction(c) /\ WritesBehindLocks(c)
  /\ WrittenDense(c) /\ WrittenHaveRows(c) /\ WrittenOnce(c)
  /\ DirtyIdsDiffer(c) /\ ReplacedAreDead(c)
  /\ TouchedIsolated(c)

IdsUsed == \A r \in Ref : secrets[r] # NoRow => secrets[r].id < next_id

RowInv ==
  /\ TypeInv
  /\ VersionsDense
  /\ IdsUsed
  /\ \A c \in Call : WritesInv(c) /\ FoundIsolated(c)

-----------------------------------------------------------------------------
(* Consequences of the invariant *)

\* A committed row that c has not written over is beyond what it touched.
LEMMA UntouchedRow ==
  ASSUME RowInv, NEW c \in Call, NEW r \in Ref,
         tx[c].dirty[r] = Untouched, secrets[r] # NoRow
  PROVE  secrets[r].id \notin Touched(c)
<1> SUFFICES ASSUME secrets[r].id \in Touched(c) PROVE FALSE
  OBVIOUS
<1>1. WrittenOver(c, secrets[r].id) \/ OwnId(c, secrets[r].id)
  BY DEF RowInv, WritesInv, TouchedIsolated
<1>2. \A s \in Ref : secrets[s] # NoRow /\ secrets[s].id = secrets[r].id => s = r
  BY DEF RowInv, VersionsDense
<1> QED
  BY <1>1, <1>2 DEF WrittenOver, OwnId, Committed

\* Two transactions touch different ids.
LEMMA TouchedDisjoint ==
  ASSUME RowInv, NEW c \in Call, NEW d \in Call \ {c}, NEW id \in Touched(c)
  PROVE  id \notin Touched(d)
<1> SUFFICES ASSUME id \in Touched(d) PROVE FALSE
  OBVIOUS
<1>1. WrittenOver(c, id) \/ OwnId(c, id)
  BY DEF RowInv, WritesInv, TouchedIsolated
<1>2. WrittenOver(d, id) \/ OwnId(d, id)
  BY DEF RowInv, WritesInv, TouchedIsolated
<1>3. WrittenOver(c, id) /\ WrittenOver(d, id)
  BY <1>1, <1>2 DEF OwnId
<1>4. PICK r \in Ref, s \in Ref :
        /\ tx[c].dirty[r] # Untouched /\ secrets[r] # NoRow /\ secrets[r].id = id
        /\ tx[d].dirty[s] # Untouched /\ secrets[s] # NoRow /\ secrets[s].id = id
  BY <1>3 DEF WrittenOver
<1>5. r = s
  BY <1>4 DEF RowInv, VersionsDense
<1>6. row_lock[r] = c /\ row_lock[s] = d
  BY <1>4 DEF RowInv, WritesInv, WritesBehindLocks
<1> QED BY <1>5, <1>6

\* Beyond what c touched, its versions are the committed ones.
LEMMA VersionsBeyond ==
  ASSUME NEW c \in Call, NEW id, id \notin Touched(c), NEW v, v.secret_id = id
  PROVE  v \in CommittedVersions(c) <=> v \in secret_versions
BY DEF CommittedVersions, Touched, SameVersion

LEMMA VersionsInBeyond ==
  ASSUME NEW c \in Call, NEW id, id \notin Touched(c)
  PROVE  VersionsIn(CommittedVersions(c), id) = VersionsIn(secret_versions, id)
<1>1. \A v : v.secret_id = id => (v \in CommittedVersions(c) <=> v \in secret_versions)
  BY VersionsBeyond
<1> QED BY <1>1 DEF VersionsIn

\* A dirty row's id is touched.
LEMMA DirtyTouched ==
  ASSUME NEW c \in Call, NEW r \in Ref, IsRow(tx[c].dirty[r])
  PROVE  tx[c].dirty[r].id \in Touched(c)
BY DEF Touched

-----------------------------------------------------------------------------
(* Steps that write to no row *)

\* What d wrote is kept, with its locks; or d has written nothing.
Kept(d) ==
  /\ tx'[d].dirty = tx[d].dirty /\ tx'[d].written = tx[d].written /\ tx'[d].dead = tx[d].dead
  /\ tx'[d].pc \notin {"exec", "upsert"} => tx[d].pc \notin {"exec", "upsert"}
  /\ \A r \in Ref : row_lock[r] = d => row_lock'[r] = d
Cleared(d) ==
  /\ tx'[d].dirty = [r \in Ref |-> Untouched] /\ tx'[d].written = {} /\ tx'[d].dead = {}
  /\ tx'[d].pc # "upsert"

LEMMA KeptTouched ==
  ASSUME NEW d \in Call, Kept(d) \/ Cleared(d)
  PROVE  Touched(d)' \subseteq Touched(d)
<1>1. CASE Kept(d)
  BY <1>1 DEF Kept, Touched
<1>2. CASE Cleared(d)
  BY <1>2 DEF Cleared, Touched, IsRow
<1> QED BY <1>1, <1>2

\* The versions are the same but for their envelopes.
SameKeys ==
  /\ \A v \in secret_versions : \E w \in secret_versions' : SameVersion(v, w)
  /\ \A w \in secret_versions' : \E v \in secret_versions : SameVersion(v, w)
  /\ \A v, w \in secret_versions' : SameVersion(v, w) => v = w

LEMMA UnchangedKeys ==
  ASSUME RowInv, UNCHANGED secret_versions
  PROVE  SameKeys
BY DEF RowInv, VersionsDense, SameKeys, SameVersion

LEMMA SameNumbers ==
  ASSUME SameKeys, NEW id
  PROVE  VersionsIn(secret_versions', id) = VersionsIn(secret_versions, id)
BY DEF SameKeys, SameVersion, VersionsIn

LEMMA SameCommittedNumbers ==
  ASSUME SameKeys, NEW d \in Call, tx'[d].written = tx[d].written, tx'[d].dead = tx[d].dead,
         NEW id
  PROVE  VersionsIn(CommittedVersions(d)', id) = VersionsIn(CommittedVersions(d), id)
<1>1. ASSUME NEW v \in CommittedVersions(d)
      PROVE  \E w \in CommittedVersions(d)' : SameVersion(v, w)
  BY DEF SameKeys, SameVersion, CommittedVersions
<1>2. ASSUME NEW w \in CommittedVersions(d)'
      PROVE  \E v \in CommittedVersions(d) : SameVersion(v, w)
  BY DEF SameKeys, SameVersion, CommittedVersions
<1> QED BY <1>1, <1>2 DEF VersionsIn, SameVersion

LEMMA SameWrites ==
  ASSUME RowInv, UNCHANGED secrets, SameKeys,
         TypeInv', next_id' >= next_id,
         \A d \in Call : Kept(d) \/ Cleared(d)
  PROVE  /\ VersionsDense' /\ IdsUsed'
         /\ \A d \in Call : WritesInv(d)'
<1>1. VersionsDense'
  <2>1. VersionsDense
    BY DEF RowInv
  <2>2. \A r \in Ref : secrets[r] # NoRow =>
          VersionsIn(secret_versions', secrets[r].id) = 1 .. secrets[r].current_version
    BY <2>1, SameNumbers DEF VersionsDense
  <2>3. \A v \in secret_versions' :
          \E r \in Ref : secrets[r] # NoRow /\ secrets[r].id = v.secret_id
    BY <2>1 DEF VersionsDense, SameKeys, SameVersion
  <2> QED BY <2>1, <2>2, <2>3 DEF VersionsDense, SameKeys, SameVersion
<1>2. IdsUsed'
  BY DEF RowInv, IdsUsed, TypeInv, TypeOK, SecretRow
<1>3. \A d \in Call : Touched(d)' \subseteq Touched(d)
  BY KeptTouched
<1>4. ASSUME NEW d \in Call PROVE WritesInv(d)'
  <2>1. CASE Cleared(d)
    BY <2>1 DEF Cleared, WritesInv, WritesOnlyInTransaction, WritesBehindLocks, WrittenDense,
                WrittenHaveRows, WrittenOnce, DirtyIdsDiffer, ReplacedAreDead, TouchedIsolated,
                Touched, IsRow
  <2>2. CASE Kept(d)
    <3>1. WritesInv(d)
      BY DEF RowInv
    <3>2. WritesOnlyInTransaction(d)' /\ WritesBehindLocks(d)'
      BY <2>2, <3>1 DEF Kept, WritesInv, WritesOnlyInTransaction, WritesBehindLocks
    <3>3. \A id : VersionsIn(CommittedVersions(d)', id) = VersionsIn(CommittedVersions(d), id)
      BY <2>2, SameCommittedNumbers DEF Kept
    <3>4. WrittenDense(d)'
      BY <2>2, <3>1, <3>3 DEF Kept, WritesInv, WrittenDense
    <3>5. WrittenHaveRows(d)' /\ WrittenOnce(d)' /\ DirtyIdsDiffer(d)' /\ ReplacedAreDead(d)'
      BY <2>2, <3>1 DEF Kept, WritesInv, WrittenHaveRows, WrittenOnce, DirtyIdsDiffer,
                        ReplacedAreDead, SameVersion
    <3>6. TouchedIsolated(d)'
      <4> SUFFICES ASSUME NEW id \in Touched(d)'
                   PROVE  id < next_id' /\ (WrittenOver(d, id)' \/ OwnId(d, id)')
        BY DEF TouchedIsolated
      <4>1. id \in Touched(d) /\ id \in Int
        BY <1>3, <2>2, TxFields DEF Kept, Touched, Tx, RowInv, VersionRow, SecretRow, IsRow
      <4>2. id < next_id /\ (WrittenOver(d, id) \/ OwnId(d, id))
        BY <3>1, <4>1 DEF WritesInv, TouchedIsolated
      <4>3. id < next_id'
        BY <4>1, <4>2 DEF RowInv, TypeInv, TypeOK
      <4>4. WrittenOver(d, id) => WrittenOver(d, id)'
        BY <2>2 DEF WrittenOver, Kept
      <4>5. OwnId(d, id) => OwnId(d, id)'
        BY <1>3 DEF OwnId, Committed
      <4> QED BY <4>2, <4>3, <4>4, <4>5
    <3> QED BY <3>2, <3>4, <3>5, <3>6 DEF WritesInv
  <2> QED BY <2>1, <2>2
<1> QED BY <1>1, <1>2, <1>4

\* No call comes to the inserts of put_tx, and those that are there stay as they are.
Waits(d) ==
  tx'[d].pc = "upsert" =>
    tx[d].pc = "upsert" /\ tx'[d].found = tx[d].found /\ tx'[d].todo = tx[d].todo

LEMMA FoundTyped ==
  ASSUME TypeInv, NEW c \in Call, tx[c].pc = "upsert"
  PROVE  Head(tx[c].todo) \in PutMutation /\ Head(tx[c].todo).ref \in Ref
BY TxFields, MutationFields DEF AtStatement, Mutation, BatchMutation

LEMMA KeptHoldsRow ==
  ASSUME NEW c \in Call, NEW r \in Ref, HoldsRow(c, r), Kept(c), UNCHANGED secrets,
         tx'[c].found = tx[c].found
  PROVE  HoldsRow(c, r)'
BY DEF HoldsRow, Kept, Seen

LEMMA QuietStep ==
  ASSUME RowInv, UNCHANGED secrets, SameKeys,
         TypeInv', next_id' >= next_id,
         \A d \in Call : (Kept(d) \/ Cleared(d)) /\ Waits(d)
  PROVE  RowInv'
<1>1. \A d \in Call : Touched(d)' \subseteq Touched(d)
  BY KeptTouched
<1>2. ASSUME NEW c \in Call, tx'[c].pc = "upsert"
      PROVE  FoundIsolated(c)'
  <2>1. /\ Kept(c) /\ tx[c].pc = "upsert"
        /\ tx'[c].found = tx[c].found /\ tx'[c].todo = tx[c].todo
    BY <1>2 DEF Cleared, Waits
  <2>2. PICK r \in Ref : r = Head(tx[c].todo).ref
    BY <2>1, FoundTyped DEF RowInv
  <2>3. CASE HoldsRow(c, r)
    <3>1. HoldsRow(c, r)'
      BY <2>1, <2>3, KeptHoldsRow
    <3> QED BY <2>1, <2>2, <3>1 DEF FoundIsolated
  <2>4. CASE HoldsNewId(c)
    <3>1. tx[c].found.id \in Int /\ next_id \in Int /\ next_id' \in Int
      BY TxFields DEF RowInv, TypeInv, TypeOK
    <3>2. \A d \in Call \ {c} : tx'[d].pc = "upsert" => tx'[d].found.id # tx[c].found.id
      BY <2>4 DEF HoldsNewId, NewId, Waits
    <3>3. HoldsNewId(c)'
      BY <1>1, <2>1, <2>4, <3>1, <3>2 DEF HoldsNewId, NewId, Committed
    <3> QED BY <3>3 DEF FoundIsolated
  <2> QED BY <2>1, <2>2, <2>3, <2>4 DEF RowInv, FoundIsolated
<1>3. \A c \in Call : FoundIsolated(c)'
  BY <1>2 DEF FoundIsolated
<1> QED
  BY <1>3, SameWrites DEF RowInv

\* A call that ends without changing a row.
LEMMA ReleaseQuiet ==
  ASSUME RowInv, TypeInv', NEW c \in Call, Release(c),
         UNCHANGED <<secrets, secret_versions, next_id>>
  PROVE  RowInv'
<1>1. tx' = [tx EXCEPT ![c] = Idle]
  BY DEF Release, Becomes
<1>2. Cleared(c) /\ Waits(c)
  BY <1>1 DEF Cleared, Waits, Idle, RowInv, TypeInv, TypeOK
<1>3. \A d \in Call \ {c} : Kept(d) /\ Waits(d)
  BY <1>1 DEF Kept, Waits, Release, RowInv, TypeInv, TypeOK
<1>4. next_id' >= next_id
  BY DEF RowInv, TypeInv, TypeOK
<1> QED
  BY <1>2, <1>3, <1>4, UnchangedKeys, QuietStep

\* A statement that changes no row and goes on with what the call has written.
OnlyReads(c) ==
  /\ \A d \in Call \ {c} : tx'[d] = tx[d]
  /\ tx'[c].dirty = tx[c].dirty /\ tx'[c].written = tx[c].written /\ tx'[c].dead = tx[c].dead
  /\ tx'[c].pc # "upsert"
  /\ tx'[c].pc = "exec" \/ tx[c].pc \notin {"exec", "upsert"}

LEMMA StatementQuiet ==
  ASSUME RowInv, TypeInv', NEW c \in Call, OnlyReads(c),
         \A r \in Ref : row_lock[r] # Nobody => row_lock'[r] = row_lock[r],
         UNCHANGED <<secrets, secret_versions, next_id>>
  PROVE  RowInv'
<1>1. \A d \in Call : Kept(d) /\ Waits(d)
  BY StoreAssumption DEF OnlyReads, Kept, Waits
<1>2. next_id' >= next_id
  BY DEF RowInv, TypeInv, TypeOK
<1> QED
  BY <1>1, <1>2, UnchangedKeys, QuietStep

LEMMA InvokeRows ==
  ASSUME RowInv, TypeInv', NEW c \in Call, Invoke(c)
  PROVE  RowInv'
<1> DEFINE t(pc, rq, todo) ==
             [Idle EXCEPT !.pc = pc, !.req = rq, !.began = clock, !.todo = todo]
           muts(rq) == IF rq.op \in {"put", "delete", "revoke"} THEN rq.muts ELSE <<>>
<1>1. PICK rq \in Requests :
        /\ tx' = [tx EXCEPT ![c] = t(First(rq.op), rq, muts(rq))]
        /\ UNCHANGED <<tables, locks, next_id>>
  BY DEF Invoke, Start, Becomes
<1>2. PICK pc : pc = First(rq.op) /\ pc # "upsert"
  <2>1. rq.op \in {"put", "delete", "revoke", "get", "prepare", "commit", "abort", "rewrap"}
    BY StoreAssumption, RequestOps
  <2> QED BY <2>1 DEF First
<1>3. /\ t(pc, rq, muts(rq)).dirty = [r \in Ref |-> Untouched]
      /\ t(pc, rq, muts(rq)).written = {} /\ t(pc, rq, muts(rq)).dead = {}
      /\ t(pc, rq, muts(rq)).pc # "upsert"
  BY <1>2 DEF Idle
<1> HIDE DEF t, muts
<1>4. Cleared(c) /\ Waits(c)
  BY <1>1, <1>2, <1>3 DEF Cleared, Waits, RowInv, TypeInv, TypeOK
<1>5. \A d \in Call \ {c} : Kept(d) /\ Waits(d)
  BY <1>1 DEF Kept, Waits, RowInv, TypeInv, TypeOK, locks
<1>6. next_id' >= next_id /\ UNCHANGED <<secrets, secret_versions>>
  BY <1>1 DEF RowInv, TypeInv, TypeOK, tables
<1> QED
  BY <1>4, <1>5, <1>6, UnchangedKeys, QuietStep

\* The statements that read, wait, or are about batches.
LEMMA ReadRows ==
  ASSUME RowInv, TypeInv', NEW c \in Call,
         \/ Block(c) \/ Purge(c) \/ Begin(c) \/ TakeBatch(c) \/ SelectVersions(c)
         \/ LockVersions(c) \/ SelectBatches(c)
  PROVE  RowInv'
<1>1. /\ UNCHANGED <<secrets, secret_versions, next_id>>
      /\ \A r \in Ref : row_lock[r] # Nobody => row_lock'[r] = row_lock[r]
  BY DEF Block, Purge, Begin, TakeBatch, SelectVersions, LockVersions, SelectBatches,
         tables, locks, RowInv, TypeInv, TypeOK
<1>2. OnlyReads(c)
  <2>1. tx \in [Call -> Tx] /\ tx[c] \in Tx
    BY TxFields DEF RowInv, TypeInv, TypeOK
  <2>2. CASE Block(c)
    <3>1. PICK id : tx' = [tx EXCEPT ![c] = [tx[c] EXCEPT !.snap = id]] /\ tx[c].pc = "exec"
      BY <2>2 DEF Block, Becomes, At
    <3> QED BY <2>1, <3>1 DEF OnlyReads, Tx
  <2>3. CASE Purge(c)
    BY <2>1, <2>3 DEF Purge, Becomes, OnlyReads, Tx
  <2>4. CASE Begin(c)
    BY <2>1, <2>4, SMTT(30) DEF Begin, Becomes, OnlyReads, Tx
  <2>5. CASE TakeBatch(c)
    BY <2>1, <2>5 DEF TakeBatch, Becomes, OnlyReads, Tx
  <2>6. CASE SelectVersions(c)
    <3>1. PICK S : tx' = [tx EXCEPT ![c] = [tx[c] EXCEPT !.pc = "lock", !.targets = S]]
      BY <2>6 DEF SelectVersions, Becomes
    <3> QED BY <2>1, <2>6, <3>1, SMTT(30) DEF SelectVersions, OnlyReads, Tx
  <2>7. CASE LockVersions(c)
    <3>1. PICK S : tx' = [tx EXCEPT ![c] = [tx[c] EXCEPT !.targets = S]] /\ tx[c].pc = "lock"
      BY <2>7 DEF LockVersions, Becomes
    <3> QED BY <2>1, <3>1 DEF OnlyReads, Tx
  <2>8. CASE SelectBatches(c)
    <3>1. PICK S : tx' = [tx EXCEPT ![c] = [tx[c] EXCEPT !.pc = "resealing", !.began = clock,
                                                         !.held = S]]
      BY <2>8 DEF SelectBatches, Becomes
    <3> QED BY <2>1, <2>8, <3>1 DEF SelectBatches, OnlyReads, Tx
  <2> QED BY <2>2, <2>3, <2>4, <2>5, <2>6, <2>7, <2>8
<1> QED
  BY <1>1, <1>2, StatementQuiet, SMTT(30)

\* The calls that end without a change to a row: refusals, losses, reads, and
\* what prepare, abort and reseal_batches do to batches.
LEMMA EndRows ==
  ASSUME RowInv, TypeInv', NEW c \in Call,
         \/ RefuseReference(c) \/ UpsertRefused(c) \/ RowMissing(c) \/ RefuseBatch(c)
         \/ RefuseCommit(c) \/ RewrapFails(c) \/ ResealFails(c) \/ DeadlockAbort(c)
         \/ Lose(c) \/ Get(c) \/ Prepare(c) \/ DropExpired(c) \/ Abort(c) \/ ResealBatches(c)
  PROVE  RowInv'
<1>1. Release(c) /\ UNCHANGED <<secrets, secret_versions, next_id>>
  BY Zenon DEF RefuseReference, UpsertRefused, RowMissing, RefuseBatch, RefuseCommit, RewrapFails,
         ResealFails, DeadlockAbort, Rollback, Lose, Get, Prepare, DropExpired, Abort,
         ResealBatches, tables
<1> QED
  BY <1>1, ReleaseQuiet, SMTT(30)

\* Nothing of a call, a row or a version changes.
LEMMA IdleRows ==
  ASSUME RowInv, TypeInv', RewriteExpiry \/ Tick \/ UNCHANGED vars
  PROVE  RowInv'
<1>1. UNCHANGED <<secrets, secret_versions, next_id, tx, row_lock>>
  BY DEF RewriteExpiry, Tick, vars, tables, locks, bounds
<1>2. \A d \in Call : Kept(d) /\ Waits(d)
  BY <1>1 DEF Kept, Waits
<1>3. next_id' >= next_id
  BY <1>1 DEF RowInv, TypeInv, TypeOK
<1> QED
  BY <1>1, <1>2, <1>3, UnchangedKeys, QuietStep

\* rewrap_all replaces envelopes under the same numbers.
LEMMA RewrapRows ==
  ASSUME RowInv, TypeInv', NEW c \in Call, RewrapVersions(c)
  PROVE  RowInv'
<1> DEFINE S == Selected(c)
<1>1. S \subseteq secret_versions /\ \A v \in S : v \in VersionRow
  BY DEF Selected, RowInv, TypeInv, TypeOK
<1>2. \A v \in S : SameVersion(v, Rewrapped(c, v)) /\ SameVersion(Rewrapped(c, v), v)
  BY <1>1 DEF Rewrapped, SameVersion, VersionRow
<1>3. secret_versions' = (secret_versions \ S) \cup {Rewrapped(c, v) : v \in S}
  BY DEF RewrapVersions
<1>4. \A v, w \in secret_versions : SameVersion(v, w) => v = w
  BY DEF RowInv, VersionsDense
<1>5. SameKeys
  <2> HIDE DEF S
  <2>1. \A v \in secret_versions : \E w \in secret_versions' : SameVersion(v, w)
    BY <1>1, <1>2, <1>3 DEF SameVersion
  <2>2. \A w \in secret_versions' :
          w \in secret_versions \ S \/ \E v \in S : w = Rewrapped(c, v)
    BY <1>3
  <2>3. \A w \in secret_versions' : \E v \in secret_versions : SameVersion(v, w)
    BY <1>1, <1>2, <2>2 DEF SameVersion
  <2>4. ASSUME NEW v \in secret_versions', NEW w \in secret_versions', SameVersion(v, w)
        PROVE  v = w
    <3>1. CASE v \in secret_versions \ S /\ w \in secret_versions \ S
      BY <1>4, <2>4, <3>1
    <3>2. CASE v \in secret_versions \ S /\ \E x \in S : w = Rewrapped(c, x)
      BY <1>1, <1>2, <1>4, <2>4, <3>2 DEF SameVersion
    <3>3. CASE w \in secret_versions \ S /\ \E x \in S : v = Rewrapped(c, x)
      BY <1>1, <1>2, <1>4, <2>4, <3>3 DEF SameVersion
    <3>4. ASSUME NEW x \in S, NEW y \in S, v = Rewrapped(c, x), w = Rewrapped(c, y)
          PROVE  v = w
      <4>1. SameVersion(x, y)
        BY <1>2, <2>4, <3>4 DEF SameVersion
      <4> QED BY <1>1, <1>4, <3>4, <4>1
    <3> QED BY <2>2, <3>1, <3>2, <3>3, <3>4
  <2> QED BY <2>1, <2>3, <2>4 DEF SameKeys
<1>6. /\ UNCHANGED <<secrets, next_id>>
      /\ tx[c].pc = "lock"
      /\ \A r \in Ref : row_lock[r] # c => row_lock'[r] = row_lock[r]
  BY DEF RewrapVersions
<1>7. PICK n : tx' = [tx EXCEPT ![c] = [tx[c] EXCEPT !.pc = "reseal", !.targets = {}, !.count = n]]
  BY DEF RewrapVersions, Becomes
<1>8. tx \in [Call -> Tx] /\ tx[c] \in Tx
  BY TxFields DEF RowInv, TypeInv, TypeOK
<1>9. Cleared(c) /\ Waits(c)
  <2>1. tx[c].dirty = [r \in Ref |-> Untouched] /\ tx[c].written = {} /\ tx[c].dead = {}
    BY <1>6 DEF RowInv, WritesInv, WritesOnlyInTransaction
  <2> QED BY <1>7, <1>8, <2>1 DEF Cleared, Waits, Tx
<1>10. \A d \in Call \ {c} : Kept(d) /\ Waits(d)
  BY <1>6, <1>7, <1>8 DEF Kept, Waits
<1>11. next_id' >= next_id
  BY <1>6 DEF RowInv, TypeInv, TypeOK
<1> QED
  BY <1>5, <1>6, <1>9, <1>10, <1>11, QuietStep
-----------------------------------------------------------------------------
(* What a statement finds *)

\* The row a call sees is its own or a committed one that no other call has
\* written over, its id is used, and its versions are dense.
LEMMA SeenRow ==
  ASSUME RowInv, NEW c \in Call, NEW r \in Ref, Seen(c, r) # NoRow
  PROVE  /\ Seen(c, r) \in SecretRow
         /\ \/ tx[c].dirty[r] = Untouched /\ secrets[r] = Seen(c, r) /\ Committed(Seen(c, r).id)
            \/ /\ IsRow(tx[c].dirty[r]) /\ tx[c].dirty[r] = Seen(c, r)
               /\ Seen(c, r).id \in Touched(c)
         /\ Seen(c, r).id < next_id
         /\ \A s \in Ref : IsRow(tx[c].dirty[s]) /\ tx[c].dirty[s].id = Seen(c, r).id => s = r
         /\ VersionsIn(CommittedVersions(c), Seen(c, r).id) = 1 .. Seen(c, r).current_version
<1>1. Seen(c, r) \in SecretRow
  BY SeenTyped DEF RowInv
<1>2. CASE tx[c].dirty[r] = Untouched
  <2>1. secrets[r] = Seen(c, r) /\ Committed(Seen(c, r).id)
    BY <1>2 DEF Seen, Committed
  <2>2. Seen(c, r).id \notin Touched(c)
    BY <1>2, <2>1, UntouchedRow
  <2>3. \A s \in Ref : IsRow(tx[c].dirty[s]) => tx[c].dirty[s].id # Seen(c, r).id
    BY <2>2, DirtyTouched
  <2>4. VersionsIn(CommittedVersions(c), Seen(c, r).id) = VersionsIn(secret_versions, Seen(c, r).id)
    BY <2>2, VersionsInBeyond
  <2>5. VersionsIn(secret_versions, Seen(c, r).id) = 1 .. Seen(c, r).current_version
    BY <2>1 DEF RowInv, VersionsDense
  <2>6. Seen(c, r).id < next_id
    BY <2>1 DEF RowInv, IdsUsed
  <2> QED BY <1>1, <1>2, <2>1, <2>3, <2>4, <2>5, <2>6
<1>3. CASE tx[c].dirty[r] # Untouched
  <2>1. IsRow(tx[c].dirty[r]) /\ tx[c].dirty[r] = Seen(c, r)
    BY <1>3 DEF Seen, IsRow
  <2>2. Seen(c, r).id \in Touched(c)
    BY <2>1, DirtyTouched
  <2>3. Seen(c, r).id < next_id
    BY <2>2 DEF RowInv, WritesInv, TouchedIsolated
  <2>4. \A s \in Ref : IsRow(tx[c].dirty[s]) /\ tx[c].dirty[s].id = Seen(c, r).id => s = r
    BY <2>1 DEF RowInv, WritesInv, DirtyIdsDiffer
  <2>5. VersionsIn(CommittedVersions(c), Seen(c, r).id) = 1 .. Seen(c, r).current_version
    BY <2>1 DEF RowInv, WritesInv, WrittenDense
  <2> QED BY <1>1, <2>1, <2>2, <2>3, <2>4, <2>5
<1> QED BY <1>2, <1>3

\* A statement that goes on with a row has its lock, or nobody has.
LEMMA FoundFree ==
  ASSUME RowInv, NEW c \in Call, NEW r \in Ref, Ready(c, r), Found(c, r) # NoRow
  PROVE  Free(c, r) /\ Found(c, r) = Seen(c, r)
<1>1. Found(c, r) = Seen(c, r)
  BY DEF Found
<1>2. tx[c].dirty[r] # Untouched => row_lock[r] = c
  BY DEF RowInv, WritesInv, WritesBehindLocks
<1> QED
  BY <1>1, <1>2 DEF Ready, Free, Seen

LEMMA SelectForUpdateRows ==
  ASSUME RowInv, TypeInv', NEW c \in Call, SelectForUpdate(c)
  PROVE  RowInv'
<1> DEFINE t(found) == [tx[c] EXCEPT !.pc = "upsert", !.snap = 0, !.found = found]
           New == [id |-> next_id, version |-> 1]
           After(row) == [id |-> row.id, version |-> row.current_version + 1]
<1>1. PICK r \in Ref :
        /\ At(c, r, "put") /\ Ready(c, r)
        /\ \/ /\ tx' = [tx EXCEPT ![c] = t(New)]
              /\ next_id' = next_id + 1 /\ UNCHANGED row_lock
           \/ /\ Found(c, r) # NoRow
              /\ tx' = [tx EXCEPT ![c] = t(After(Found(c, r)))]
              /\ row_lock' = [row_lock EXCEPT ![r] = c] /\ UNCHANGED next_id
        /\ UNCHANGED <<secrets, secret_versions>>
  BY DEF SelectForUpdate, Becomes, tables
<1>2. tx[c] \in Tx /\ tx \in [Call -> Tx] /\ next_id \in Nat /\ tx[c].pc = "exec"
      /\ row_lock \in [Ref -> Call \cup {Nobody}]
  BY <1>1, TxFields DEF RowInv, TypeInv, TypeOK, At
<1>3. ASSUME NEW found
      PROVE  /\ t(found).dirty = tx[c].dirty /\ t(found).written = tx[c].written
             /\ t(found).dead = tx[c].dead /\ t(found).todo = tx[c].todo
             /\ t(found).pc = "upsert" /\ t(found).found = found
  BY <1>2 DEF Tx
<1> HIDE DEF t, New, After
<1>4. /\ tx'[c].dirty = tx[c].dirty /\ tx'[c].written = tx[c].written
      /\ tx'[c].dead = tx[c].dead /\ tx'[c].todo = tx[c].todo /\ tx'[c].pc = "upsert"
      /\ \A d \in Call \ {c} : tx'[d] = tx[d]
  BY <1>1, <1>2, <1>3
<1>5. \/ tx'[c].found = New /\ next_id' = next_id + 1 /\ UNCHANGED row_lock
      \/ /\ Found(c, r) # NoRow /\ tx'[c].found = After(Found(c, r))
         /\ row_lock' = [row_lock EXCEPT ![r] = c] /\ UNCHANGED next_id
  BY <1>1, <1>2, <1>3
<1>6. Head(tx'[c].todo).ref = r
  BY <1>1, <1>4 DEF At
<1>7. Found(c, r) # NoRow => Found(c, r) = Seen(c, r) /\ row_lock[r] \in {Nobody, c}
  BY <1>1, FoundFree DEF Free
<1>8. \A d \in Call : Kept(d)
  BY <1>2, <1>4, <1>5, <1>7, StoreAssumption DEF Kept
<1>9. next_id' >= next_id
  BY <1>2, <1>5
<1>10. VersionsDense' /\ IdsUsed' /\ \A d \in Call : WritesInv(d)'
  BY <1>1, <1>8, <1>9, UnchangedKeys, SameWrites
<1>11. \A d \in Call : Touched(d)' \subseteq Touched(d)
  BY <1>8, KeptTouched
<1>12. \A d \in Call : \A id \in Touched(d) : id < next_id
  BY DEF RowInv, WritesInv, TouchedIsolated
<1>13. ASSUME NEW d \in Call, tx[d].pc = "upsert"
       PROVE  tx[d].found.id < next_id /\ tx[d].found.id \in Int
  <2>1. PICK s \in Ref : s = Head(tx[d].todo).ref
    BY <1>13, FoundTyped DEF RowInv
  <2>2. HoldsRow(d, s) \/ HoldsNewId(d)
    BY <1>13, <2>1 DEF RowInv, FoundIsolated
  <2>3. HoldsRow(d, s) => tx[d].found.id < next_id
    BY SeenRow DEF HoldsRow
  <2> QED BY <2>2, <2>3, TxFields DEF HoldsNewId, NewId, RowInv
<1>14. FoundIsolated(c)'
  <2>1. CASE tx'[c].found = New /\ next_id' = next_id + 1
    <3> PICK id \in Nat : id = next_id
      BY <1>2
    <3>1. ~Committed(id)
      BY <1>2 DEF RowInv, IdsUsed, Committed
    <3>2. \A d \in Call : id \notin Touched(d)'
      BY <1>2, <1>11, <1>12
    <3>3. \A d \in Call \ {c} : tx'[d].pc = "upsert" => tx'[d].found.id # id
      BY <1>2, <1>4, <1>13
    <3>4. tx'[c].found.id = id /\ tx'[c].found.version = 1 /\ id < next_id'
      BY <1>2, <2>1 DEF New
    <3>5. NewId(c, id)'
      BY <1>1, <3>1, <3>2, <3>3, <3>4 DEF NewId, Committed
    <3> QED BY <3>4, <3>5 DEF FoundIsolated, HoldsNewId
  <2>2. CASE /\ Found(c, r) # NoRow /\ tx'[c].found = After(Found(c, r))
             /\ row_lock' = [row_lock EXCEPT ![r] = c]
    <3>1. Seen(c, r)' = Seen(c, r) /\ row_lock'[r] = c
      BY <1>1, <1>2, <1>4, <2>2 DEF Seen
    <3>2. HoldsRow(c, r)'
      BY <1>7, <2>2, <3>1 DEF HoldsRow, After
    <3> QED BY <1>6, <3>2 DEF FoundIsolated
  <2> QED BY <1>5, <2>1, <2>2
<1>15. ASSUME NEW d \in Call \ {c}, tx[d].pc = "upsert"
       PROVE  FoundIsolated(d)'
  <2>1. PICK s \in Ref : s = Head(tx[d].todo).ref
    BY <1>15, FoundTyped DEF RowInv
  <2>2. CASE HoldsRow(d, s)
    <3>1. HoldsRow(d, s)'
      BY <1>1, <1>4, <1>8, <2>2, KeptHoldsRow
    <3> QED BY <1>4, <2>1, <3>1 DEF FoundIsolated
  <2>3. CASE HoldsNewId(d)
    <3>1. tx'[c].found.id # tx[d].found.id
      <4>1. CASE tx'[c].found = New
        BY <1>2, <1>13, <1>15, <4>1 DEF New
      <4>2. CASE Found(c, r) # NoRow /\ tx'[c].found = After(Found(c, r))
        <5>1. tx'[c].found.id = Seen(c, r).id /\ Seen(c, r) # NoRow
          BY <1>7, <4>2 DEF After
        <5> QED BY <2>3, <5>1, SeenRow DEF HoldsNewId, NewId
      <4> QED BY <1>5, <4>1, <4>2
    <3>2. tx[d].found.id < next_id'
      BY <1>2, <1>5, <1>13, <1>15
    <3>3. \A e \in Call \ {d} : tx'[e].pc = "upsert" => tx'[e].found.id # tx[d].found.id
      BY <1>4, <2>3, <3>1 DEF HoldsNewId, NewId
    <3>4. HoldsNewId(d)'
      BY <1>1, <1>4, <1>11, <2>3, <3>2, <3>3 DEF HoldsNewId, NewId, Committed
    <3> QED BY <3>4 DEF FoundIsolated
  <2> QED BY <1>15, <2>1, <2>2, <2>3 DEF RowInv, FoundIsolated
<1>16. \A d \in Call : FoundIsolated(d)'
  BY <1>4, <1>14, <1>15 DEF FoundIsolated
<1> QED
  BY <1>10, <1>16 DEF RowInv
-----------------------------------------------------------------------------
(* Statements that write a row *)

\* The id c writes under r: that of the row it sees, or a new one.
WritesId(c, r, id) ==
  \/ Seen(c, r) # NoRow /\ id = Seen(c, r).id
  \/ Seen(c, r) = NoRow /\ NewId(c, id)

\* c writes the row of r, and r is locked by c.
RowWritten(c, r, id) ==
  /\ Free(c, r) /\ WritesId(c, r, id)
  /\ row_lock' = [row_lock EXCEPT ![r] = c]
  /\ UNCHANGED <<secrets, secret_versions, next_id>>
  /\ \A d \in Call \ {c} : tx'[d] = tx[d]
  /\ tx'[c].pc = "exec"
  /\ \A s \in Ref \ {r} : tx'[c].dirty[s] = tx[c].dirty[s]
  /\ \/ tx'[c].dirty[r] = NoRow /\ id \in tx'[c].dead
     \/ IsRow(tx'[c].dirty[r]) /\ tx'[c].dirty[r].id = id
  /\ tx[c].dead \subseteq tx'[c].dead
  /\ tx'[c].dead \subseteq tx[c].dead \cup {id}
  /\ \A v \in tx'[c].written : v \in tx[c].written \/ v.secret_id = id

LEMMA WrittenIds ==
  ASSUME RowInv, NEW c \in Call, NEW r \in Ref, NEW id, RowWritten(c, r, id)
  PROVE  Touched(c)' \subseteq Touched(c) \cup {id}
<1>1. ASSUME NEW s \in Ref, IsRow(tx'[c].dirty[s])
      PROVE  tx'[c].dirty[s].id \in Touched(c) \cup {id}
  <2>1. CASE s = r
    BY <1>1, <2>1 DEF RowWritten, IsRow
  <2>2. CASE s # r
    BY <1>1, <2>2, DirtyTouched DEF RowWritten
  <2> QED BY <2>1, <2>2
<1>2. \A i \in tx'[c].dead : i \in Touched(c) \cup {id}
  BY DEF RowWritten, Touched
<1>3. \A v \in tx'[c].written : v.secret_id \in Touched(c) \cup {id}
  BY DEF RowWritten, Touched
<1> QED
  BY <1>1, <1>2, <1>3, SMTT(30) DEF Touched, IsRow

\* Beyond the id and what c had touched, nobody's ids are taken by the write.
LEMMA WrittenApart ==
  ASSUME RowInv, NEW c \in Call, NEW r \in Ref, NEW id, RowWritten(c, r, id),
         NEW d \in Call \ {c}
  PROVE  /\ \A i \in Touched(d) : OwnId(d, i) => OwnId(d, i)'
         /\ tx[d].pc = "upsert" /\ HoldsNewId(d) => HoldsNewId(d)'
<1>1. Touched(c)' \subseteq Touched(c) \cup {id}
  BY WrittenIds
<1>2. \A e \in Call \ {c} : Touched(e)' = Touched(e)
  BY DEF RowWritten, Touched
<1>3. \/ Committed(id) \/ id \in Touched(c) \/ NewId(c, id)
  BY SeenRow DEF RowWritten, WritesId
<1>4. \A i : Committed(i)' <=> Committed(i)
  BY DEF RowWritten, Committed
<1>5. ASSUME NEW i \in Touched(d), OwnId(d, i)
      PROVE  OwnId(d, i)'
  <2>1. i \notin Touched(c)
    BY <1>5, TouchedDisjoint
  <2>2. i # id
    BY <1>3, <1>5, <2>1 DEF OwnId, NewId
  <2> QED BY <1>1, <1>2, <1>4, <1>5, <2>1, <2>2 DEF OwnId
<1>6. ASSUME tx[d].pc = "upsert", HoldsNewId(d)
      PROVE  HoldsNewId(d)'
  <2>1. tx[d].found.id # id
    BY <1>3, <1>6 DEF HoldsNewId, NewId
  <2>2. tx'[d] = tx[d] /\ next_id' = next_id /\ tx'[c].pc = "exec"
    BY DEF RowWritten
  <2>3. \A e \in Call : tx[d].found.id \notin Touched(e)'
    BY <1>1, <1>2, <1>6, <2>1 DEF HoldsNewId, NewId
  <2>4. \A e \in Call \ {d} : tx'[e].pc = "upsert" => tx'[e].found.id # tx[d].found.id
    BY <1>6, <2>2 DEF HoldsNewId, NewId, RowWritten
  <2> QED BY <1>4, <1>6, <2>2, <2>3, <2>4 DEF HoldsNewId, NewId
<1> QED BY <1>5, <1>6

\* What a write leaves to be shown is that the versions of c still match.
LEMMA RowWrittenRows ==
  ASSUME RowInv, TypeInv', NEW c \in Call, NEW r \in Ref, NEW id, RowWritten(c, r, id),
         (WrittenDense(c) /\ WrittenHaveRows(c) /\ WrittenOnce(c))'
  PROVE  RowInv'
<1>1. VersionsDense' /\ IdsUsed'
  BY DEF RowWritten, RowInv, VersionsDense, IdsUsed
<1>2. row_lock \in [Ref -> Call \cup {Nobody}]
  BY DEF RowInv, TypeInv, TypeOK
<1>3. ASSUME NEW d \in Call \ {c}
      PROVE  WritesInv(d)' /\ FoundIsolated(d)'
  <2>1. tx'[d] = tx[d] /\ UNCHANGED <<secrets, secret_versions, next_id>>
    BY DEF RowWritten
  <2>2. \A s \in Ref : row_lock[s] = d => row_lock'[s] = d
    BY <1>2, StoreAssumption DEF RowWritten, Free
  <2>3. WritesInv(d)
    BY DEF RowInv
  <2>4. WritesOnlyInTransaction(d)' /\ WritesBehindLocks(d)'
    BY <2>1, <2>2, <2>3 DEF WritesInv, WritesOnlyInTransaction, WritesBehindLocks
  <2>5. WrittenDense(d)' /\ WrittenHaveRows(d)' /\ WrittenOnce(d)'
    BY <2>1, <2>3 DEF WritesInv, WrittenDense, WrittenHaveRows, WrittenOnce, CommittedVersions
  <2>6. DirtyIdsDiffer(d)' /\ ReplacedAreDead(d)'
    BY <2>1, <2>3 DEF WritesInv, DirtyIdsDiffer, ReplacedAreDead
  <2>7. TouchedIsolated(d)'
    <3>1. Touched(d)' = Touched(d)
      BY <2>1 DEF Touched
    <3>2. \A i \in Touched(d) : WrittenOver(d, i) => WrittenOver(d, i)'
      BY <2>1 DEF WrittenOver
    <3> QED
      BY <2>1, <2>3, <3>1, <3>2, WrittenApart DEF WritesInv, TouchedIsolated
  <2>8. FoundIsolated(d)'
    <3> SUFFICES ASSUME tx[d].pc = "upsert"
                 PROVE  HoldsRow(d, Head(tx[d].todo).ref)' \/ HoldsNewId(d)'
      BY <2>1 DEF FoundIsolated
    <3>1. PICK s \in Ref : s = Head(tx[d].todo).ref
      BY FoundTyped DEF RowInv
    <3>2. HoldsRow(d, s) => HoldsRow(d, s)'
      BY <2>1, <2>2 DEF HoldsRow, Seen
    <3> QED BY <2>1, <3>1, <3>2, WrittenApart DEF RowInv, FoundIsolated
  <2> QED BY <2>3, <2>4, <2>5, <2>6, <2>7, <2>8 DEF WritesInv
<1>4. WritesInv(c)
  BY DEF RowInv
<1>5. \A s \in Ref : s # r => tx'[c].dirty[s] = tx[c].dirty[s]
  BY DEF RowWritten
<1>6. WritesOnlyInTransaction(c)' /\ FoundIsolated(c)'
  BY DEF RowWritten, WritesOnlyInTransaction, FoundIsolated
<1>7. WritesBehindLocks(c)'
  BY <1>2, <1>4, <1>5 DEF RowWritten, WritesInv, WritesBehindLocks
<1>8. DirtyIdsDiffer(c)'
  <2>1. \A s \in Ref : IsRow(tx[c].dirty[s]) /\ tx[c].dirty[s].id = id => s = r
    BY SeenRow, DirtyTouched DEF RowWritten, WritesId, NewId
  <2>2. IsRow(tx'[c].dirty[r]) => tx'[c].dirty[r].id = id
    BY DEF RowWritten, IsRow
  <2> QED BY <1>4, <1>5, <2>1, <2>2 DEF WritesInv, DirtyIdsDiffer
<1>9. ReplacedAreDead(c)'
  <2>1. ASSUME secrets[r] # NoRow
        PROVE  \/ secrets[r].id \in tx'[c].dead
               \/ IsRow(tx'[c].dirty[r]) /\ tx'[c].dirty[r].id = secrets[r].id
    <3>1. CASE tx[c].dirty[r] = Untouched
      <4>1. id = secrets[r].id
        BY <2>1, <3>1 DEF RowWritten, WritesId, Seen
      <4> QED BY <4>1 DEF RowWritten
    <3>2. CASE tx[c].dirty[r] # Untouched /\ secrets[r].id \in tx[c].dead
      BY <3>2 DEF RowWritten
    <3>3. CASE IsRow(tx[c].dirty[r]) /\ tx[c].dirty[r].id = secrets[r].id
      <4>1. id = secrets[r].id
        BY <3>3 DEF RowWritten, WritesId, Seen, IsRow
      <4> QED BY <4>1 DEF RowWritten
    <3> QED BY <1>4, <2>1, <3>1, <3>2, <3>3 DEF WritesInv, ReplacedAreDead
  <2>2. secrets' = secrets /\ tx[c].dead \subseteq tx'[c].dead
    BY DEF RowWritten
  <2> QED BY <1>4, <1>5, <2>1, <2>2 DEF WritesInv, ReplacedAreDead
<1>10. TouchedIsolated(c)'
  <2> SUFFICES ASSUME NEW i \in Touched(c)'
               PROVE  i < next_id' /\ (WrittenOver(c, i)' \/ OwnId(c, i)')
    BY DEF TouchedIsolated
  <2>1. /\ secrets' = secrets /\ next_id' = next_id
        /\ tx'[c].dirty[r] # Untouched
        /\ \A e \in Call \ {c} : Touched(e)' = Touched(e)
    BY StoreAssumption DEF RowWritten, IsRow, Touched
  <2>2. ASSUME i \in Touched(c)
        PROVE  i < next_id' /\ (WrittenOver(c, i)' \/ OwnId(c, i)')
    <3>1. i < next_id /\ (WrittenOver(c, i) \/ OwnId(c, i))
      BY <1>4, <2>2 DEF WritesInv, TouchedIsolated
    <3>2. WrittenOver(c, i) => WrittenOver(c, i)'
      BY <1>5, <2>1 DEF WrittenOver
    <3>3. OwnId(c, i) => OwnId(c, i)'
      BY <2>1 DEF OwnId, Committed
    <3> QED BY <2>1, <3>1, <3>2, <3>3
  <2>3. ASSUME i = id, i \notin Touched(c)
        PROVE  i < next_id' /\ (WrittenOver(c, i)' \/ OwnId(c, i)')
    <3>1. CASE Seen(c, r) # NoRow
      <4>1. i < next_id /\ secrets[r] # NoRow /\ secrets[r].id = i
        BY <2>3, <3>1, SeenRow DEF RowWritten, WritesId
      <4> QED BY <2>1, <4>1 DEF WrittenOver
    <3>2. CASE Seen(c, r) = NoRow
      <4>1. NewId(c, i)
        BY <2>3, <3>2 DEF RowWritten, WritesId
      <4>2. OwnId(c, i)'
        BY <2>1, <4>1 DEF NewId, OwnId, Committed
      <4> QED BY <2>1, <4>1, <4>2 DEF NewId
    <3> QED BY <3>1, <3>2
  <2> QED BY <2>2, <2>3, WrittenIds
<1> QED
  BY <1>1, <1>3, <1>6, <1>7, <1>8, <1>9, <1>10 DEF RowInv, WritesInv
LEMMA UpsertRows ==
  ASSUME RowInv, TypeInv', NEW c \in Call, Upsert(c)
  PROVE  RowInv'
<1> DEFINE event == [secret_id |-> tx[c].found.id, action |-> "put"]
           t(r, row, v) ==
             [tx[c] EXCEPT !.pc = "exec", !.todo = Tail(@), !.dirty[r] = row,
                           !.written = @ \cup {v}, !.events = Append(@, event)]
<1>1. PICK r \in Ref :
        /\ AtUpsert(c, r) /\ ForeignKeyHolds(c, r) /\ PrimaryKeyFree(c, r)
        /\ tx' = [tx EXCEPT ![c] = t(r, UpsertRow(c, r), NewVersion(c, r))]
        /\ row_lock' = [row_lock EXCEPT ![r] = c]
        /\ UNCHANGED <<secrets, secret_versions, next_id>>
  BY DEF Upsert, Becomes, tables
<1>2. PICK id, n \in Nat : id = tx[c].found.id /\ n = tx[c].found.version
  BY TxFields DEF RowInv
<1>3. PICK row \in SecretRow : row = UpsertRow(c, r) /\ row.id = id /\ row.current_version = n
  BY <1>1, <1>2, UpsertRowTyped DEF RowInv, ForeignKeyHolds, UpsertRow
<1>4. PICK v \in VersionRow : v = NewVersion(c, r) /\ v.secret_id = id /\ v.version = n
  <2>1. NewVersion(c, r).secret_id = id /\ NewVersion(c, r).version = n
    BY <1>2 DEF NewVersion
  <2> QED BY <1>1, <2>1, NewVersionTyped DEF RowInv
<1>5. tx[c] \in Tx /\ tx \in [Call -> Tx]
  BY TxFields DEF RowInv, TypeInv, TypeOK
<1>6. /\ t(r, row, v).dirty = [tx[c].dirty EXCEPT ![r] = row]
      /\ t(r, row, v).written = tx[c].written \cup {v}
      /\ t(r, row, v).dead = tx[c].dead /\ t(r, row, v).pc = "exec"
  BY <1>5 DEF Tx
<1> HIDE DEF t
<1>7. /\ tx'[c].dirty = [tx[c].dirty EXCEPT ![r] = row]
      /\ tx'[c].written = tx[c].written \cup {v}
      /\ tx'[c].dead = tx[c].dead /\ tx'[c].pc = "exec"
      /\ \A d \in Call \ {c} : tx'[d] = tx[d]
  BY <1>1, <1>3, <1>4, <1>5, <1>6
<1>8. /\ tx'[c].dirty[r] = row /\ IsRow(row)
      /\ \A s \in Ref \ {r} : tx'[c].dirty[s] = tx[c].dirty[s]
  BY <1>5, <1>7, StoreAssumption DEF Tx, IsRow
<1>9. \/ HoldsRow(c, r)
      \/ HoldsNewId(c)
  BY <1>1 DEF AtUpsert, RowInv, FoundIsolated
<1>10. WritesId(c, r, id)
  <2>1. HoldsRow(c, r) => WritesId(c, r, id)
    BY <1>2 DEF HoldsRow, WritesId
  <2>2. ASSUME HoldsNewId(c), Seen(c, r) # NoRow PROVE FALSE
    <3>1. id = Seen(c, r).id
      BY <1>3, <2>2 DEF UpsertRow
    <3> QED BY <1>2, <2>2, <3>1, SeenRow DEF HoldsNewId, NewId
  <2> QED BY <1>2, <1>9, <2>1, <2>2 DEF HoldsNewId, WritesId
<1>11. RowWritten(c, r, id)
  BY <1>1, <1>3, <1>4, <1>7, <1>8, <1>10 DEF RowWritten, AtUpsert
<1>12. ~\E w \in secret_versions \cup tx[c].written : SameVersion(w, v)
  BY <1>1, <1>4 DEF PrimaryKeyFree
<1>13. CommittedVersions(c)' = CommittedVersions(c) \cup {v}
  BY <1>1, <1>7, <1>12 DEF CommittedVersions, SameVersion
<1>14. WritesInv(c)
  BY DEF RowInv
<1>15. WrittenOnce(c)'
  BY <1>7, <1>12, <1>14 DEF WritesInv, WrittenOnce, SameVersion
<1>16. \A s \in Ref : IsRow(tx[c].dirty[s]) /\ tx[c].dirty[s].id = id => s = r
  BY <1>10, SeenRow, DirtyTouched DEF WritesId, NewId
<1>17. IsRow(tx[c].dirty[r]) => tx[c].dirty[r].id = id
  BY <1>10, StoreAssumption DEF WritesId, Seen, IsRow
<1>18. WrittenHaveRows(c)'
  <2>1. ASSUME NEW w \in tx[c].written
        PROVE  \E s \in Ref : IsRow(tx'[c].dirty[s]) /\ tx'[c].dirty[s].id = w.secret_id
    <3>1. PICK s \in Ref : IsRow(tx[c].dirty[s]) /\ tx[c].dirty[s].id = w.secret_id
      BY <1>14, <2>1 DEF WritesInv, WrittenHaveRows
    <3> QED BY <1>3, <1>8, <1>17, <3>1
  <2> QED BY <1>3, <1>4, <1>7, <1>8, <2>1 DEF WrittenHaveRows
<1>19. VersionsIn(CommittedVersions(c), id) = 1 .. n - 1
  <2>1. CASE HoldsRow(c, r)
    <3>1. /\ Seen(c, r) # NoRow /\ id = Seen(c, r).id /\ n = Seen(c, r).current_version + 1
          /\ Seen(c, r).current_version \in Nat
      BY <1>2, <2>1, SeenRow DEF HoldsRow, SecretRow
    <3> QED BY <3>1, SeenRow
  <2>2. CASE HoldsNewId(c)
    <3>1. ~Committed(id) /\ id \notin Touched(c) /\ n = 1
      BY <1>2, <2>2 DEF HoldsNewId, NewId
    <3>2. VersionsIn(secret_versions, id) = {}
      BY <3>1 DEF RowInv, VersionsDense, VersionsIn, Committed
    <3> QED BY <3>1, <3>2, VersionsInBeyond
  <2> QED BY <1>9, <2>1, <2>2
<1>20. n > 0
  BY <1>2, <1>9, SeenRow DEF HoldsRow, HoldsNewId, SecretRow
<1>21. VersionsIn(CommittedVersions(c)', id) = 1 .. n
  <2>1. VersionsIn(CommittedVersions(c)', id) = VersionsIn(CommittedVersions(c), id) \cup {n}
    BY <1>4, <1>13 DEF VersionsIn
  <2> QED BY <1>2, <1>19, <1>20, <2>1
<1>22. \A i : i # id => VersionsIn(CommittedVersions(c)', i) = VersionsIn(CommittedVersions(c), i)
  BY <1>4, <1>13 DEF VersionsIn
<1>23. WrittenDense(c)'
  <2> SUFFICES ASSUME NEW s \in Ref, IsRow(tx'[c].dirty[s])
               PROVE  VersionsIn(CommittedVersions(c)', tx'[c].dirty[s].id)
                        = 1 .. tx'[c].dirty[s].current_version
    BY DEF WrittenDense, IsRow
  <2>1. CASE s = r
    BY <1>3, <1>8, <1>21, <2>1
  <2>2. CASE s # r
    <3>1. tx'[c].dirty[s] = tx[c].dirty[s] /\ tx[c].dirty[s].id # id
      BY <1>8, <1>16, <2>2
    <3> QED BY <1>14, <1>22, <3>1 DEF WritesInv, WrittenDense
  <2> QED BY <2>1, <2>2
<1> QED
  BY <1>11, <1>15, <1>18, <1>23, RowWrittenRows

LEMMA DeleteRows ==
  ASSUME RowInv, TypeInv', NEW c \in Call, DeleteRow(c)
  PROVE  RowInv'
<1> DEFINE t(r, id) ==
             [tx[c] EXCEPT !.todo = Tail(@), !.snap = 0, !.dirty[r] = NoRow,
                           !.dead = @ \cup {id}, !.written = {v \in @ : v.secret_id # id},
                           !.events = Append(@, [secret_id |-> id, action |-> "delete"])]
<1>1. PICK r \in Ref :
        /\ At(c, r, "delete") /\ Ready(c, r) /\ Found(c, r) # NoRow
        /\ tx' = [tx EXCEPT ![c] = t(r, Found(c, r).id)]
        /\ row_lock' = [row_lock EXCEPT ![r] = c]
        /\ UNCHANGED <<secrets, secret_versions, next_id>>
  BY DEF DeleteRow, Becomes, tables
<1>2. PICK id : id = Found(c, r).id
  OBVIOUS
<1>3. Free(c, r) /\ Seen(c, r) # NoRow /\ id = Seen(c, r).id
  BY <1>1, <1>2, FoundFree
<1>4. tx[c] \in Tx /\ tx \in [Call -> Tx] /\ tx[c].pc = "exec"
  BY <1>1, TxFields DEF RowInv, TypeInv, TypeOK, At
<1>5. /\ t(r, id).dirty = [tx[c].dirty EXCEPT ![r] = NoRow]
      /\ t(r, id).written = {v \in tx[c].written : v.secret_id # id}
      /\ t(r, id).dead = tx[c].dead \cup {id} /\ t(r, id).pc = "exec"
  BY <1>4 DEF Tx
<1> HIDE DEF t
<1>6. /\ tx'[c].dirty = [tx[c].dirty EXCEPT ![r] = NoRow]
      /\ tx'[c].written = {v \in tx[c].written : v.secret_id # id}
      /\ tx'[c].dead = tx[c].dead \cup {id} /\ tx'[c].pc = "exec"
      /\ \A d \in Call \ {c} : tx'[d] = tx[d]
  BY <1>1, <1>2, <1>4, <1>5
<1>7. /\ tx'[c].dirty[r] = NoRow
      /\ \A s \in Ref \ {r} : tx'[c].dirty[s] = tx[c].dirty[s]
  BY <1>4, <1>6 DEF Tx
<1>8. RowWritten(c, r, id)
  BY <1>1, <1>3, <1>6, <1>7 DEF RowWritten, WritesId
<1>9. WritesInv(c)
  BY DEF RowInv
<1>10. WrittenOnce(c)'
  BY <1>6, <1>9 DEF WritesInv, WrittenOnce, SameVersion
<1>11. \A s \in Ref : IsRow(tx[c].dirty[s]) /\ tx[c].dirty[s].id = id => s = r
  BY <1>3, SeenRow
<1>12. IsRow(tx[c].dirty[r]) => tx[c].dirty[r].id = id
  BY <1>3 DEF Seen, IsRow
<1>13. WrittenHaveRows(c)'
  <2> SUFFICES ASSUME NEW w \in tx[c].written, w.secret_id # id
               PROVE  \E s \in Ref : IsRow(tx'[c].dirty[s]) /\ tx'[c].dirty[s].id = w.secret_id
    BY <1>6 DEF WrittenHaveRows, IsRow
  <2>1. PICK s \in Ref : IsRow(tx[c].dirty[s]) /\ tx[c].dirty[s].id = w.secret_id
    BY <1>9 DEF WritesInv, WrittenHaveRows
  <2> QED BY <1>7, <1>12, <2>1
<1>14. ASSUME NEW i, i # id
       PROVE  VersionsIn(CommittedVersions(c)', i) = VersionsIn(CommittedVersions(c), i)
  <2>1. \A v : v.secret_id = i => (v \in CommittedVersions(c)' <=> v \in CommittedVersions(c))
    BY <1>1, <1>6, <1>14 DEF CommittedVersions, SameVersion
  <2> QED BY <2>1 DEF VersionsIn
<1>15. WrittenDense(c)'
  <2> SUFFICES ASSUME NEW s \in Ref, IsRow(tx'[c].dirty[s])
               PROVE  VersionsIn(CommittedVersions(c)', tx'[c].dirty[s].id)
                        = 1 .. tx'[c].dirty[s].current_version
    BY DEF WrittenDense, IsRow
  <2>1. s # r
    BY <1>7 DEF IsRow
  <2>2. tx'[c].dirty[s] = tx[c].dirty[s] /\ tx[c].dirty[s].id # id
    BY <1>7, <1>11, <2>1
  <2> QED BY <1>9, <1>14, <2>2 DEF WritesInv, WrittenDense
<1> QED
  BY <1>8, <1>10, <1>13, <1>15, RowWrittenRows

LEMMA RevokeRows ==
  ASSUME RowInv, TypeInv', NEW c \in Call, RevokeRow(c)
  PROVE  RowInv'
<1> DEFINE revoked(row) == [row EXCEPT !.state = "revoked"]
           t(r, row) ==
             [tx[c] EXCEPT !.todo = Tail(@), !.snap = 0,
                           !.found = [id |-> row.id, version |-> row.current_version],
                           !.dirty[r] = revoked(row),
                           !.events = Append(@, [secret_id |-> row.id, action |-> "revoke"])]
<1>1. PICK r \in Ref :
        /\ At(c, r, "revoke") /\ Ready(c, r) /\ Found(c, r) # NoRow
        /\ tx' = [tx EXCEPT ![c] = t(r, Found(c, r))]
        /\ row_lock' = [row_lock EXCEPT ![r] = c]
        /\ UNCHANGED <<secrets, secret_versions, next_id>>
  BY DEF RevokeRow, Becomes, tables
<1>2. /\ Free(c, r) /\ Seen(c, r) # NoRow /\ Found(c, r) = Seen(c, r)
      /\ Seen(c, r) \in SecretRow
  BY <1>1, FoundFree, SeenRow
<1>3. PICK row \in SecretRow :
        /\ row = revoked(Found(c, r)) /\ row.id = Seen(c, r).id
        /\ row.current_version = Seen(c, r).current_version
  <2>1. /\ revoked(Seen(c, r)) \in SecretRow /\ revoked(Seen(c, r)).id = Seen(c, r).id
        /\ revoked(Seen(c, r)).current_version = Seen(c, r).current_version
    BY <1>2 DEF SecretRow
  <2> HIDE DEF revoked
  <2> QED BY <1>2, <2>1
<1>4. PICK id : id = Seen(c, r).id
  OBVIOUS
<1>5. tx[c] \in Tx /\ tx \in [Call -> Tx] /\ tx[c].pc = "exec"
  BY <1>1, TxFields DEF RowInv, TypeInv, TypeOK, At
<1>6. /\ t(r, Found(c, r)).dirty = [tx[c].dirty EXCEPT ![r] = revoked(Found(c, r))]
      /\ t(r, Found(c, r)).written = tx[c].written
      /\ t(r, Found(c, r)).dead = tx[c].dead /\ t(r, Found(c, r)).pc = "exec"
  BY <1>5 DEF Tx
<1> HIDE DEF t, revoked
<1>7. /\ tx'[c].dirty = [tx[c].dirty EXCEPT ![r] = row]
      /\ tx'[c].written = tx[c].written
      /\ tx'[c].dead = tx[c].dead /\ tx'[c].pc = "exec"
      /\ \A d \in Call \ {c} : tx'[d] = tx[d]
  BY <1>1, <1>3, <1>5, <1>6
<1>8. /\ tx'[c].dirty[r] = row /\ IsRow(row)
      /\ \A s \in Ref \ {r} : tx'[c].dirty[s] = tx[c].dirty[s]
  BY <1>5, <1>7, StoreAssumption DEF Tx, IsRow
<1>9. RowWritten(c, r, id)
  BY <1>1, <1>2, <1>3, <1>4, <1>7, <1>8 DEF RowWritten, WritesId
<1>10. WritesInv(c)
  BY DEF RowInv
<1>11. CommittedVersions(c)' = CommittedVersions(c)
  BY <1>1, <1>7 DEF CommittedVersions
<1>12. IsRow(tx[c].dirty[r]) => tx[c].dirty[r].id = id
  BY <1>4 DEF Seen, IsRow
<1>13. WrittenOnce(c)'
  BY <1>7, <1>10 DEF WritesInv, WrittenOnce
<1>14. WrittenHaveRows(c)'
  <2> SUFFICES ASSUME NEW w \in tx[c].written
               PROVE  \E s \in Ref : IsRow(tx'[c].dirty[s]) /\ tx'[c].dirty[s].id = w.secret_id
    BY <1>7 DEF WrittenHaveRows, IsRow
  <2>1. PICK s \in Ref : IsRow(tx[c].dirty[s]) /\ tx[c].dirty[s].id = w.secret_id
    BY <1>10 DEF WritesInv, WrittenHaveRows
  <2> QED BY <1>3, <1>4, <1>8, <1>12, <2>1
<1>15. WrittenDense(c)'
  <2> SUFFICES ASSUME NEW s \in Ref, IsRow(tx'[c].dirty[s])
               PROVE  VersionsIn(CommittedVersions(c), tx'[c].dirty[s].id)
                        = 1 .. tx'[c].dirty[s].current_version
    BY <1>11 DEF WrittenDense, IsRow
  <2>1. CASE s = r
    BY <1>2, <1>3, <1>8, <2>1, SeenRow
  <2>2. CASE s # r
    BY <1>8, <1>10, <2>2 DEF WritesInv, WrittenDense
  <2> QED BY <2>1, <2>2
<1> QED
  BY <1>9, <1>13, <1>14, <1>15, RowWrittenRows
-----------------------------------------------------------------------------
(* COMMIT *)

\* What c lays over the tables is dense by itself.
LEMMA CommitDense ==
  ASSUME RowInv, NEW c \in Call,
         secrets' = CommittedRows(c), secret_versions' = CommittedVersions(c),
         next_id' = next_id
  PROVE  VersionsDense' /\ IdsUsed'
<1>1. \A r \in Ref : secrets'[r] = Seen(c, r)
  BY DEF CommittedRows
<1>2. WritesInv(c) /\ VersionsDense
  BY DEF RowInv
<1>3. IdsUsed'
  BY <1>1, SeenRow DEF IdsUsed
<1>4. ASSUME NEW r \in Ref, secrets'[r] # NoRow
      PROVE  VersionsIn(secret_versions', secrets'[r].id) = 1 .. secrets'[r].current_version
  BY <1>1, <1>4, SeenRow
<1>5. ASSUME NEW v \in secret_versions'
      PROVE  \E r \in Ref : secrets'[r] # NoRow /\ secrets'[r].id = v.secret_id
  <2>1. CASE v \in tx[c].written
    <3>1. PICK r \in Ref : IsRow(tx[c].dirty[r]) /\ tx[c].dirty[r].id = v.secret_id
      BY <1>2, <2>1 DEF WritesInv, WrittenHaveRows
    <3> QED BY <1>1, <3>1 DEF Seen, IsRow
  <2>2. CASE v \in secret_versions /\ v.secret_id \notin tx[c].dead
    <3>1. PICK r \in Ref : secrets[r] # NoRow /\ secrets[r].id = v.secret_id
      BY <1>2, <2>2 DEF VersionsDense
    <3>2. tx[c].dirty[r] # Untouched => IsRow(tx[c].dirty[r]) /\ tx[c].dirty[r].id = v.secret_id
      BY <1>2, <2>2, <3>1 DEF WritesInv, ReplacedAreDead
    <3> QED BY <1>1, <3>1, <3>2 DEF Seen, IsRow
  <2> QED BY <1>5, <2>1, <2>2 DEF CommittedVersions
<1>6. \A v, w \in secret_versions' : SameVersion(v, w) => v = w
  BY <1>2 DEF CommittedVersions, VersionsDense, WritesInv, WrittenOnce, SameVersion
<1>7. ASSUME NEW r \in Ref, NEW s \in Ref, secrets'[r] # NoRow, secrets'[s] # NoRow,
             secrets'[r].id = secrets'[s].id
      PROVE  r = s
  <2>1. Seen(c, r) # NoRow /\ Seen(c, s) # NoRow /\ Seen(c, r).id = Seen(c, s).id
    BY <1>1, <1>7
  <2>2. CASE IsRow(tx[c].dirty[r]) /\ tx[c].dirty[r] = Seen(c, r)
    BY <2>1, <2>2, SeenRow
  <2>3. CASE IsRow(tx[c].dirty[s]) /\ tx[c].dirty[s] = Seen(c, s)
    BY <2>1, <2>3, SeenRow
  <2>4. CASE secrets[r] = Seen(c, r) /\ secrets[s] = Seen(c, s)
    BY <1>2, <2>1, <2>4 DEF VersionsDense
  <2> QED BY <2>1, <2>2, <2>3, <2>4, SeenRow
<1> QED
  BY <1>3, <1>4, <1>5, <1>6, <1>7 DEF VersionsDense

LEMMA CommitRows ==
  ASSUME RowInv, TypeInv', NEW c \in Call, Commit(c)
  PROVE  RowInv'
<1>1. /\ secrets' = CommittedRows(c) /\ secret_versions' = CommittedVersions(c)
      /\ next_id' = next_id
      /\ tx' = [tx EXCEPT ![c] = Idle]
      /\ \A r \in Ref : row_lock[r] # c => row_lock'[r] = row_lock[r]
  BY DEF Commit, Release, Becomes
<1>2. VersionsDense' /\ IdsUsed'
  BY <1>1, CommitDense
<1>3. tx'[c] = Idle /\ \A d \in Call \ {c} : tx'[d] = tx[d]
  BY <1>1 DEF RowInv, TypeInv, TypeOK
<1>4. Touched(c)' = {}
  BY <1>3 DEF Touched, Idle, IsRow
<1>5. \A d \in Call \ {c} : Touched(d)' = Touched(d)
  BY <1>3 DEF Touched
<1>6. WritesInv(c)' /\ FoundIsolated(c)'
  <2>1. /\ tx'[c].dirty = [r \in Ref |-> Untouched] /\ tx'[c].written = {}
        /\ tx'[c].dead = {} /\ tx'[c].pc = "idle"
    BY <1>3 DEF Idle
  <2> QED
    BY <1>4, <2>1 DEF WritesInv, WritesOnlyInTransaction, WritesBehindLocks, WrittenDense,
      WrittenHaveRows, WrittenOnce, DirtyIdsDiffer, ReplacedAreDead, TouchedIsolated,
      FoundIsolated, IsRow
<1>7. ASSUME NEW id, Committed(id)'
      PROVE  Committed(id) \/ id \in Touched(c)
  <2>1. PICK r \in Ref : secrets'[r] # NoRow /\ secrets'[r].id = id
    BY <1>7 DEF Committed
  <2>2. secrets'[r] = Seen(c, r)
    BY <1>1 DEF CommittedRows
  <2> QED BY <2>1, <2>2, SeenRow
<1>8. ASSUME NEW d \in Call \ {c}
      PROVE  WritesInv(d)' /\ FoundIsolated(d)'
  <2>1. WritesInv(d) /\ tx'[d] = tx[d]
    BY <1>3 DEF RowInv
  <2>2. ASSUME NEW r \in Ref, row_lock[r] = d
        PROVE  row_lock'[r] = d /\ secrets'[r] = secrets[r]
    <3>1. tx[c].dirty[r] = Untouched
      BY <2>2 DEF RowInv, WritesInv, WritesBehindLocks
    <3> QED BY <1>1, <2>2, <3>1 DEF CommittedRows, Seen
  <2>3. \A r \in Ref : tx[d].dirty[r] # Untouched => row_lock[r] = d
    BY <2>1 DEF WritesInv, WritesBehindLocks
  <2>4. WritesOnlyInTransaction(d)' /\ WritesBehindLocks(d)'
    BY <2>1, <2>2, <2>3 DEF WritesInv, WritesOnlyInTransaction, WritesBehindLocks
  <2>5. ASSUME NEW id \in Touched(d)
        PROVE  VersionsIn(CommittedVersions(d)', id) = VersionsIn(CommittedVersions(d), id)
    <3>1. id \notin Touched(c)
      BY TouchedDisjoint
    <3>2. \A v : v.secret_id = id => (v \in secret_versions' <=> v \in secret_versions)
      BY <1>1, <3>1, VersionsBeyond
    <3>3. \A v : v.secret_id = id => (v \in CommittedVersions(d)' <=> v \in CommittedVersions(d))
      BY <2>1, <3>2 DEF CommittedVersions
    <3> QED BY <3>3 DEF VersionsIn
  <2>6. WrittenDense(d)'
    BY <2>1, <2>5, DirtyTouched DEF WritesInv, WrittenDense
  <2>7. WrittenHaveRows(d)' /\ WrittenOnce(d)' /\ DirtyIdsDiffer(d)'
    BY <2>1 DEF WritesInv, WrittenHaveRows, WrittenOnce, DirtyIdsDiffer
  <2>8. ReplacedAreDead(d)'
    BY <2>1, <2>2, <2>3 DEF WritesInv, ReplacedAreDead
  <2>9. TouchedIsolated(d)'
    <3> SUFFICES ASSUME NEW id \in Touched(d)
                 PROVE  id < next_id' /\ (WrittenOver(d, id)' \/ OwnId(d, id)')
      BY <1>5 DEF TouchedIsolated
    <3>1. id < next_id /\ (WrittenOver(d, id) \/ OwnId(d, id))
      BY <2>1 DEF WritesInv, TouchedIsolated
    <3>2. WrittenOver(d, id) => WrittenOver(d, id)'
      BY <2>1, <2>2, <2>3 DEF WrittenOver
    <3>3. id \notin Touched(c)
      BY TouchedDisjoint
    <3>4. OwnId(d, id) => OwnId(d, id)'
      BY <1>4, <1>5, <1>7, <3>3 DEF OwnId
    <3> QED BY <1>1, <3>1, <3>2, <3>4
  <2>10. FoundIsolated(d)'
    <3> SUFFICES ASSUME tx[d].pc = "upsert"
                 PROVE  HoldsRow(d, Head(tx[d].todo).ref)' \/ HoldsNewId(d)'
      BY <2>1 DEF FoundIsolated
    <3>1. PICK s \in Ref : s = Head(tx[d].todo).ref
      BY FoundTyped DEF RowInv
    <3>2. HoldsRow(d, s) => HoldsRow(d, s)'
      BY <2>1, <2>2 DEF HoldsRow, Seen
    <3>3. ASSUME HoldsNewId(d) PROVE HoldsNewId(d)'
      <4>1. tx[d].found.id \notin Touched(c) /\ ~Committed(tx[d].found.id)
        BY <3>3 DEF HoldsNewId, NewId
      <4>2. PICK id : id = tx[d].found.id
        OBVIOUS
      <4>3. NewId(d, id)'
        BY <1>1, <1>3, <1>4, <1>5, <1>7, <3>3, <4>1, <4>2 DEF HoldsNewId, NewId, Idle
      <4> QED BY <2>1, <3>3, <4>2, <4>3 DEF HoldsNewId
    <3> QED BY <2>1, <3>1, <3>2, <3>3 DEF RowInv, FoundIsolated
  <2> QED BY <2>4, <2>6, <2>7, <2>8, <2>9, <2>10 DEF WritesInv
<1> QED
  BY <1>2, <1>6, <1>8 DEF RowInv

-----------------------------------------------------------------------------
LEMMA InitRows == Init => RowInv
<1> SUFFICES ASSUME Init PROVE RowInv
  OBVIOUS
<1>1. TypeInv
  BY InitTyped
<1>2. VersionsDense /\ IdsUsed
  BY DEF Init, VersionsDense, IdsUsed
<1>3. ASSUME NEW c \in Call
      PROVE  WritesInv(c) /\ FoundIsolated(c)
  <2>1. /\ tx[c].dirty = [r \in Ref |-> Untouched] /\ tx[c].written = {}
        /\ tx[c].dead = {} /\ tx[c].pc = "idle"
    BY DEF Init, Idle
  <2>2. Touched(c) = {}
    BY <2>1 DEF Touched, IsRow
  <2> QED
    BY <2>1, <2>2 DEF WritesInv, WritesOnlyInTransaction, WritesBehindLocks, WrittenDense,
      WrittenHaveRows, WrittenOnce, DirtyIdsDiffer, ReplacedAreDead, TouchedIsolated,
      FoundIsolated, IsRow
<1> QED
  BY <1>1, <1>2, <1>3 DEF RowInv

\* Every step of every call, and of what surrounds the calls, keeps the rows.
LEMMA RowStep ==
  ASSUME RowInv, [Next]_vars
  PROVE  RowInv'
<1>1. TypeInv'
  BY TypeStep DEF RowInv
<1>2. ASSUME NEW c \in Call, Progress(c)
      PROVE  RowInv'
  BY <1>1, <1>2, ReadRows, EndRows, SelectForUpdateRows, UpsertRows, DeleteRows, RevokeRows,
     CommitRows, RewrapRows
  DEF Progress
<1> QED
  BY <1>1, <1>2, InvokeRows, EndRows, IdleRows DEF Next

\* Whatever transactions of put, delete, revoke, commit and rewrap_all overlap
\* (crates/secrets-postgres), the committed versions of a secret are 1 up to its
\* current one, each once, and every version belongs to one secret.
THEOREM VersionsAlwaysDense == Spec => []VersionsDense
<1>1. RowInv => VersionsDense
  BY DEF RowInv
<1> QED
  BY <1>1, InitRows, RowStep, PTL DEF Spec

-----------------------------------------------------------------------------
(***************************************************************************)
(* CurrentVersionOpens holds in every reachable state of PostgresStore.    *)
(* The row of a secret and the envelope of its current version are written *)
(* by different statements, and rewrap_all replaces the envelope later.    *)
(* The invariant says the same of what each transaction has not committed  *)
(* yet, and RowInv that nobody else writes to the ids it touches.          *)
(***************************************************************************)
\* S holds the current version of a row of r, sealed for what the row says.
SealedIn(S, r, row) ==
  \E v \in S :
    /\ v.secret_id = row.id /\ v.version = row.current_version
    /\ v.envelope.aad = associated_data(r, row.current_version, row.disclosure)

CommittedSealed == \A r \in Ref : secrets[r] # NoRow => SealedIn(secret_versions, r, secrets[r])
WrittenSealed(c) ==
  \A r \in Ref : IsRow(tx[c].dirty[r]) => SealedIn(CommittedVersions(c), r, tx[c].dirty[r])
Sealed == CommittedSealed /\ \A c \in Call : WrittenSealed(c)
SealedInv == RowInv /\ Sealed

\* What a call sees is sealed among the versions it would leave.
LEMMA SeenSealed ==
  ASSUME SealedInv, NEW c \in Call, NEW r \in Ref, Seen(c, r) # NoRow
  PROVE  SealedIn(CommittedVersions(c), r, Seen(c, r))
<1>1. CASE tx[c].dirty[r] = Untouched
  <2>1. Seen(c, r) = secrets[r] /\ secrets[r] # NoRow
    BY <1>1 DEF Seen
  <2>2. secrets[r].id \notin Touched(c)
    BY <1>1, <2>1, UntouchedRow DEF SealedInv
  <2>3. PICK v \in secret_versions :
          /\ v.secret_id = secrets[r].id /\ v.version = secrets[r].current_version
          /\ v.envelope.aad = associated_data(r, secrets[r].current_version, secrets[r].disclosure)
    BY <2>1 DEF SealedInv, Sealed, CommittedSealed, SealedIn
  <2>4. v \in CommittedVersions(c)
    BY <2>2, <2>3, VersionsBeyond
  <2> QED BY <2>1, <2>3, <2>4 DEF SealedIn
<1>2. CASE tx[c].dirty[r] # Untouched
  BY <1>2 DEF Seen, IsRow, SealedInv, Sealed, WrittenSealed
<1> QED BY <1>1, <1>2

\* The same versions are there, for the same associated data.
SameData ==
  \A v \in secret_versions :
    \E w \in secret_versions' : SameVersion(v, w) /\ w.envelope.aad = v.envelope.aad
\* A call keeps what it has written and audited, or has written nothing.
KeptOrCleared(d) ==
  \/ /\ tx'[d].dirty = tx[d].dirty /\ tx'[d].written = tx[d].written
     /\ tx'[d].dead = tx[d].dead /\ tx'[d].events = tx[d].events
  \/ /\ tx'[d].dirty = [r \in Ref |-> Untouched] /\ tx'[d].written = {}
     /\ tx'[d].dead = {} /\ tx'[d].events = <<>>

LEMMA SealedQuiet ==
  ASSUME Sealed, UNCHANGED secrets, SameData, \A d \in Call : KeptOrCleared(d)
  PROVE  Sealed'
<1>1. CommittedSealed'
  BY DEF Sealed, CommittedSealed, SealedIn, SameData, SameVersion
<1>2. ASSUME NEW d \in Call, NEW r \in Ref, IsRow(tx'[d].dirty[r])
      PROVE  SealedIn(CommittedVersions(d)', r, tx'[d].dirty[r])
  <2>1. /\ tx'[d].dirty = tx[d].dirty /\ tx'[d].written = tx[d].written
        /\ tx'[d].dead = tx[d].dead
    BY <1>2 DEF KeptOrCleared, IsRow
  <2>2. PICK v \in CommittedVersions(d) :
          /\ v.secret_id = tx[d].dirty[r].id /\ v.version = tx[d].dirty[r].current_version
          /\ v.envelope.aad = associated_data(r, tx[d].dirty[r].current_version,
                                              tx[d].dirty[r].disclosure)
    BY <1>2, <2>1 DEF Sealed, WrittenSealed, SealedIn
  <2>3. PICK w \in CommittedVersions(d)' : SameVersion(v, w) /\ w.envelope.aad = v.envelope.aad
    <3>1. CASE v \in tx[d].written
      BY <2>1, <3>1 DEF CommittedVersions, SameVersion
    <3>2. CASE v \in secret_versions /\ v.secret_id \notin tx[d].dead
               /\ ~\E x \in tx[d].written : SameVersion(v, x)
      BY <2>1, <3>2 DEF CommittedVersions, SameVersion, SameData
    <3> QED BY <3>1, <3>2 DEF CommittedVersions
  <2> QED BY <2>1, <2>2, <2>3 DEF SealedIn, SameVersion
<1> QED BY <1>1, <1>2 DEF Sealed, WrittenSealed, IsRow

LEMMA SameVersionsData == ASSUME UNCHANGED secret_versions PROVE SameData
BY DEF SameData, SameVersion

-----------------------------------------------------------------------------
(* Steps that write no row *)

\* Nothing is written to the rows, and nobody comes to the inserts of put_tx.
Quiet ==
  /\ UNCHANGED <<secrets, secret_versions, audit_events, next_id>>
  /\ \A d \in Call : KeptOrCleared(d) /\ Waits(d)

\* A call that ends without a commit.
LEMMA EndQuiet ==
  ASSUME RowInv, NEW c \in Call,
         \/ RefuseReference(c) \/ UpsertRefused(c) \/ RowMissing(c) \/ RefuseBatch(c)
         \/ RefuseCommit(c) \/ RewrapFails(c) \/ ResealFails(c) \/ DeadlockAbort(c)
         \/ Lose(c) \/ Get(c) \/ Prepare(c) \/ DropExpired(c) \/ Abort(c) \/ ResealBatches(c)
  PROVE  Quiet
<1>1. Release(c) /\ UNCHANGED <<secrets, secret_versions, audit_events, next_id>>
  BY Zenon DEF RefuseReference, UpsertRefused, RowMissing, RefuseBatch, RefuseCommit, RewrapFails,
         ResealFails, DeadlockAbort, Rollback, Lose, Get, Prepare, DropExpired, Abort,
         ResealBatches, tables
<1>2. tx' = [tx EXCEPT ![c] = Idle] /\ tx \in [Call -> Tx]
  BY <1>1 DEF Release, Becomes, RowInv, TypeInv, TypeOK
<1>3. \A d \in Call : KeptOrCleared(d) /\ Waits(d)
  BY <1>2 DEF KeptOrCleared, Waits, Idle
<1> QED BY <1>1, <1>3, SMTT(30) DEF Quiet

LEMMA InvokeQuiet ==
  ASSUME RowInv, NEW c \in Call, Invoke(c)
  PROVE  Quiet
<1> DEFINE t(pc, rq, todo) ==
             [Idle EXCEPT !.pc = pc, !.req = rq, !.began = clock, !.todo = todo]
           muts(rq) == IF rq.op \in {"put", "delete", "revoke"} THEN rq.muts ELSE <<>>
<1>1. PICK rq \in Requests :
        /\ tx' = [tx EXCEPT ![c] = t(First(rq.op), rq, muts(rq))]
        /\ UNCHANGED <<secrets, secret_versions, audit_events, next_id>>
  BY DEF Invoke, Start, Becomes, tables
<1>2. PICK pc : pc = First(rq.op) /\ pc # "upsert"
  <2>1. rq.op \in {"put", "delete", "revoke", "get", "prepare", "commit", "abort", "rewrap"}
    BY StoreAssumption, RequestOps
  <2> QED BY <2>1 DEF First
<1>3. /\ t(pc, rq, muts(rq)).dirty = [r \in Ref |-> Untouched]
      /\ t(pc, rq, muts(rq)).written = {} /\ t(pc, rq, muts(rq)).dead = {}
      /\ t(pc, rq, muts(rq)).events = <<>> /\ t(pc, rq, muts(rq)).pc = pc
  BY DEF Idle
<1>4. tx \in [Call -> Tx]
  BY DEF RowInv, TypeInv, TypeOK
<1> HIDE DEF t, muts
<1>5. \A d \in Call : KeptOrCleared(d) /\ Waits(d)
  BY <1>1, <1>2, <1>3, <1>4 DEF KeptOrCleared, Waits
<1> QED BY <1>1, <1>5 DEF Quiet

\* A statement goes on with what the call has written and audited.
Continued(c) ==
  /\ tx'[c].dirty = tx[c].dirty /\ tx'[c].written = tx[c].written
  /\ tx'[c].dead = tx[c].dead /\ tx'[c].events = tx[c].events
  /\ \A d \in Call \ {c} : tx'[d] = tx[d]

\* A statement that reads, waits or is about batches.
LEMMA ReadContinues ==
  ASSUME RowInv, NEW c \in Call,
         \/ Block(c) \/ Purge(c) \/ Begin(c) \/ TakeBatch(c) \/ SelectVersions(c)
         \/ LockVersions(c) \/ SelectBatches(c)
  PROVE  /\ Continued(c) /\ tx'[c].pc # "upsert"
         /\ UNCHANGED <<secrets, secret_versions, audit_events, next_id>>
<1>1. UNCHANGED <<secrets, secret_versions, audit_events, next_id>>
  BY DEF Block, Purge, Begin, TakeBatch, SelectVersions, LockVersions, SelectBatches, tables
<1>2. tx \in [Call -> Tx] /\ tx[c] \in Tx
  BY DEF RowInv, TypeInv, TypeOK
<1>10. ASSUME NEW t, tx' = [tx EXCEPT ![c] = t], t.pc # "upsert",
              t.dirty = tx[c].dirty, t.written = tx[c].written,
              t.dead = tx[c].dead, t.events = tx[c].events
       PROVE  Continued(c) /\ tx'[c].pc # "upsert"
  BY <1>2, <1>10 DEF Continued
<1>3. CASE Block(c)
  <2>1. PICK id : tx' = [tx EXCEPT ![c] = [tx[c] EXCEPT !.snap = id]] /\ tx[c].pc = "exec"
    BY <1>3, Zenon DEF Block, Becomes, At
  <2> DEFINE t == [tx[c] EXCEPT !.snap = id]
  <2>2. /\ t.pc # "upsert" /\ t.dirty = tx[c].dirty /\ t.written = tx[c].written
        /\ t.dead = tx[c].dead /\ t.events = tx[c].events
    BY <1>2, <2>1 DEF Tx
  <2>3. tx' = [tx EXCEPT ![c] = t]
    BY <2>1, Zenon
  <2> HIDE DEF t
  <2> QED BY <1>1, <1>10, <2>2, <2>3
<1>4. CASE Purge(c)
  <2>1. PICK pc \in {"insert", "begin"} : tx' = [tx EXCEPT ![c] = [tx[c] EXCEPT !.pc = pc]]
    BY <1>4, Zenon DEF Purge, Becomes
  <2> DEFINE t == [tx[c] EXCEPT !.pc = pc]
  <2>2. /\ t.pc # "upsert" /\ t.dirty = tx[c].dirty /\ t.written = tx[c].written
        /\ t.dead = tx[c].dead /\ t.events = tx[c].events
    BY <1>2, <2>1 DEF Tx
  <2>3. tx' = [tx EXCEPT ![c] = t]
    BY <2>1, Zenon
  <2> HIDE DEF t
  <2> QED BY <1>1, <1>10, <2>2, <2>3
<1>5. CASE Begin(c)
  <2>1. tx' = [tx EXCEPT ![c] = [tx[c] EXCEPT !.pc = "take", !.began = clock]]
    BY <1>5, Zenon DEF Begin, Becomes
  <2> DEFINE t == [tx[c] EXCEPT !.pc = "take", !.began = clock]
  <2>2. /\ t.pc # "upsert" /\ t.dirty = tx[c].dirty /\ t.written = tx[c].written
        /\ t.dead = tx[c].dead /\ t.events = tx[c].events
    BY <1>2, <2>1 DEF Tx
  <2>3. tx' = [tx EXCEPT ![c] = t]
    BY <2>1, Zenon
  <2> HIDE DEF t
  <2> QED BY <1>1, <1>10, <2>2, <2>3
<1>6. CASE TakeBatch(c)
  <2>1. PICK todo : tx' = [tx EXCEPT ![c] = [tx[c] EXCEPT !.pc = "exec", !.todo = todo]]
    BY <1>6, Zenon DEF TakeBatch, Becomes
  <2> DEFINE t == [tx[c] EXCEPT !.pc = "exec", !.todo = todo]
  <2>2. /\ t.pc # "upsert" /\ t.dirty = tx[c].dirty /\ t.written = tx[c].written
        /\ t.dead = tx[c].dead /\ t.events = tx[c].events
    BY <1>2, <2>1 DEF Tx
  <2>3. tx' = [tx EXCEPT ![c] = t]
    BY <2>1, Zenon
  <2> HIDE DEF t
  <2> QED BY <1>1, <1>10, <2>2, <2>3
<1>7. CASE SelectVersions(c)
  <2>1. PICK S : tx' = [tx EXCEPT ![c] = [tx[c] EXCEPT !.pc = "lock", !.targets = S]]
    BY <1>7, Zenon DEF SelectVersions, Becomes
  <2> DEFINE t == [tx[c] EXCEPT !.pc = "lock", !.targets = S]
  <2>2. /\ t.pc # "upsert" /\ t.dirty = tx[c].dirty /\ t.written = tx[c].written
        /\ t.dead = tx[c].dead /\ t.events = tx[c].events
    BY <1>2, <2>1 DEF Tx
  <2>3. tx' = [tx EXCEPT ![c] = t]
    BY <2>1, Zenon
  <2> HIDE DEF t
  <2> QED BY <1>1, <1>10, <2>2, <2>3
<1>8. CASE LockVersions(c)
  <2>1. PICK S : tx' = [tx EXCEPT ![c] = [tx[c] EXCEPT !.targets = S]] /\ tx[c].pc = "lock"
    BY <1>8, Zenon DEF LockVersions, Becomes
  <2> DEFINE t == [tx[c] EXCEPT !.targets = S]
  <2>2. /\ t.pc # "upsert" /\ t.dirty = tx[c].dirty /\ t.written = tx[c].written
        /\ t.dead = tx[c].dead /\ t.events = tx[c].events
    BY <1>2, <2>1 DEF Tx
  <2>3. tx' = [tx EXCEPT ![c] = t]
    BY <2>1, Zenon
  <2> HIDE DEF t
  <2> QED BY <1>1, <1>10, <2>2, <2>3
<1>9. CASE SelectBatches(c)
  <2>1. PICK S : 
          tx' = [tx EXCEPT ![c] = [tx[c] EXCEPT !.pc = "resealing", !.began = clock, !.held = S]]
    BY <1>9, Zenon DEF SelectBatches, Becomes
  <2> DEFINE t == [tx[c] EXCEPT !.pc = "resealing", !.began = clock, !.held = S]
  <2>2. /\ t.pc # "upsert" /\ t.dirty = tx[c].dirty /\ t.written = tx[c].written
        /\ t.dead = tx[c].dead /\ t.events = tx[c].events
    BY <1>2, <2>1 DEF Tx
  <2>3. tx' = [tx EXCEPT ![c] = t]
    BY <2>1, Zenon
  <2> HIDE DEF t
  <2> QED BY <1>1, <1>10, <2>2, <2>3
<1> QED BY <1>3, <1>4, <1>5, <1>6, <1>7, <1>8, <1>9, ZenonT(40)

LEMMA ReadQuiet ==
  ASSUME RowInv, NEW c \in Call,
         \/ Block(c) \/ Purge(c) \/ Begin(c) \/ TakeBatch(c) \/ SelectVersions(c)
         \/ LockVersions(c) \/ SelectBatches(c)
  PROVE  Quiet
<1>1. \A d \in Call : KeptOrCleared(d) /\ Waits(d)
  BY ReadContinues DEF Continued, KeptOrCleared, Waits
<1> QED BY <1>1, ReadContinues DEF Quiet

LEMMA IdleQuiet == RewriteExpiry \/ Tick \/ UNCHANGED vars => Quiet
BY DEF RewriteExpiry, Tick, vars, tables, locks, bounds, Quiet, KeptOrCleared, Waits

LEMMA QuietSealed == ASSUME SealedInv, Quiet PROVE Sealed'
BY SameVersionsData, SealedQuiet DEF SealedInv, Quiet

\* The SELECT of put_tx writes nothing.
LEMMA SelectContinues ==
  ASSUME RowInv, NEW c \in Call, SelectForUpdate(c)
  PROVE  Continued(c) /\ UNCHANGED <<secrets, secret_versions, audit_events>>
<1>1. tx \in [Call -> Tx] /\ tx[c] \in Tx
  BY DEF RowInv, TypeInv, TypeOK
<1>2. PICK found : tx' = [tx EXCEPT ![c] = [tx[c] EXCEPT !.pc = "upsert", !.snap = 0,
                                                         !.found = found]]
  BY DEF SelectForUpdate, Becomes
<1> QED BY <1>1, <1>2 DEF Tx, Continued, SelectForUpdate, tables

LEMMA SelectSealed ==
  ASSUME SealedInv, NEW c \in Call, SelectForUpdate(c)
  PROVE  Sealed'
<1>1. Continued(c) /\ UNCHANGED <<secrets, secret_versions>>
  BY SelectContinues DEF SealedInv
<1>2. \A d \in Call : KeptOrCleared(d)
  BY <1>1 DEF Continued, KeptOrCleared
<1> QED BY <1>1, <1>2, SameVersionsData, SealedQuiet DEF SealedInv

\* rewrap_all seals again what it opened, for the same associated data.
LEMMA RewrapSealed ==
  ASSUME SealedInv, NEW c \in Call, RewrapVersions(c)
  PROVE  Sealed'
<1>1. Selected(c) \subseteq secret_versions /\ secret_versions \subseteq VersionRow
  BY DEF Selected, SealedInv, RowInv, TypeInv, TypeOK
<1>2. ASSUME NEW v \in Selected(c)
      PROVE  SameVersion(v, Rewrapped(c, v)) /\ Rewrapped(c, v).envelope.aad = v.envelope.aad
  BY <1>1 DEF Rewrapped, SameVersion, VersionRow, reseal, seal
<1>3. secret_versions' = (secret_versions \ Selected(c)) \cup {Rewrapped(c, v) : v \in Selected(c)}
  BY DEF RewrapVersions
<1>4. SameData
  <2> SUFFICES ASSUME NEW v \in secret_versions
               PROVE  \E w \in secret_versions' : SameVersion(v, w) /\ w.envelope.aad = v.envelope.aad
    BY DEF SameData
  <2>1. CASE v \in Selected(c)
    BY <1>2, <1>3, <2>1
  <2>2. CASE v \notin Selected(c)
    BY <1>3, <2>2 DEF SameVersion
  <2> QED BY <2>1, <2>2
<1>5. PICK n : tx' = [tx EXCEPT ![c] = [tx[c] EXCEPT !.pc = "reseal", !.targets = {}, !.count = n]]
  BY DEF RewrapVersions, Becomes
<1>6. tx \in [Call -> Tx] /\ tx[c] \in Tx
  BY DEF SealedInv, RowInv, TypeInv, TypeOK
<1>7. \A d \in Call : KeptOrCleared(d)
  BY <1>5, <1>6 DEF KeptOrCleared, Tx
<1> QED BY <1>4, <1>7, SealedQuiet DEF SealedInv, RewrapVersions

-----------------------------------------------------------------------------
(* Statements that write a row, and COMMIT *)

\* Only c has written, and the tables are as they were.
LEMMA OnlyWriter ==
  ASSUME SealedInv, NEW c \in Call, UNCHANGED <<secrets, secret_versions>>,
         \A d \in Call \ {c} : tx'[d] = tx[d], WrittenSealed(c)'
  PROVE  Sealed'
<1>1. CommittedSealed'
  BY DEF SealedInv, Sealed, CommittedSealed
<1>2. ASSUME NEW d \in Call \ {c} PROVE WrittenSealed(d)'
  BY DEF SealedInv, Sealed, WrittenSealed, CommittedVersions
<1> QED BY <1>1, <1>2 DEF Sealed

\* The row and the version of one put agree.
LEMMA UpsertSealed ==
  ASSUME SealedInv, NEW c \in Call, Upsert(c)
  PROVE  Sealed'
<1> DEFINE event == [secret_id |-> tx[c].found.id, action |-> "put"]
           t(r, row, v) ==
             [tx[c] EXCEPT !.pc = "exec", !.todo = Tail(@), !.dirty[r] = row,
                           !.written = @ \cup {v}, !.events = Append(@, event)]
<1>1. PICK r \in Ref :
        /\ AtUpsert(c, r) /\ ForeignKeyHolds(c, r)
        /\ tx' = [tx EXCEPT ![c] = t(r, UpsertRow(c, r), NewVersion(c, r))]
        /\ UNCHANGED <<secrets, secret_versions>>
  BY DEF Upsert, Becomes, tables
<1>2. PICK row, v : row = UpsertRow(c, r) /\ v = NewVersion(c, r)
  OBVIOUS
<1>3. /\ v.secret_id = row.id /\ v.version = row.current_version
      /\ v.envelope.aad = associated_data(r, row.current_version, row.disclosure)
  BY <1>1, <1>2 DEF ForeignKeyHolds, UpsertRow, NewVersion, seal
<1>4. tx[c] \in Tx /\ tx \in [Call -> Tx]
  BY DEF SealedInv, RowInv, TypeInv, TypeOK
<1>5. /\ t(r, row, v).dirty = [tx[c].dirty EXCEPT ![r] = row]
      /\ t(r, row, v).written = tx[c].written \cup {v} /\ t(r, row, v).dead = tx[c].dead
  BY <1>4 DEF Tx
<1> HIDE DEF t
<1>6. /\ tx'[c].dirty = [tx[c].dirty EXCEPT ![r] = row]
      /\ tx'[c].written = tx[c].written \cup {v} /\ tx'[c].dead = tx[c].dead
      /\ \A d \in Call \ {c} : tx'[d] = tx[d]
  BY <1>1, <1>2, <1>4, <1>5
<1>7. ASSUME NEW w \in CommittedVersions(c)
      PROVE  w \in CommittedVersions(c)' \/ SameVersion(w, v)
  BY <1>1, <1>6 DEF CommittedVersions, SameVersion
<1>8. PICK id : id = row.id
  OBVIOUS
<1>9. \A s \in Ref : IsRow(tx[c].dirty[s]) /\ tx[c].dirty[s].id = id => s = r
  <2>1. CASE HoldsRow(c, r)
    <3>1. Seen(c, r) # NoRow /\ id = Seen(c, r).id
      BY <1>2, <1>8, <2>1 DEF HoldsRow, UpsertRow
    <3> QED BY <3>1, SeenRow DEF SealedInv
  <2>2. CASE HoldsNewId(c)
    <3>1. id = tx[c].found.id
      BY <1>1, <1>2, <1>8 DEF ForeignKeyHolds
    <3> QED BY <2>2, <3>1, DirtyTouched DEF HoldsNewId, NewId
  <2> QED BY <1>1, <2>1, <2>2 DEF AtUpsert, SealedInv, RowInv, FoundIsolated
<1>10. ASSUME NEW s \in Ref, IsRow(tx'[c].dirty[s])
       PROVE  SealedIn(CommittedVersions(c)', s, tx'[c].dirty[s])
  <2>1. CASE s = r
    <3>1. tx'[c].dirty[s] = row /\ v \in CommittedVersions(c)'
      BY <1>4, <1>6, <2>1 DEF Tx, CommittedVersions
    <3> QED BY <1>3, <2>1, <3>1 DEF SealedIn
  <2>2. CASE s # r
    <3>1. tx'[c].dirty[s] = tx[c].dirty[s] /\ tx[c].dirty[s].id # id
      BY <1>4, <1>6, <1>9, <1>10, <2>2 DEF Tx, IsRow
    <3>2. PICK w \in CommittedVersions(c) :
            /\ w.secret_id = tx[c].dirty[s].id /\ w.version = tx[c].dirty[s].current_version
            /\ w.envelope.aad = associated_data(s, tx[c].dirty[s].current_version,
                                                tx[c].dirty[s].disclosure)
      BY <1>10, <3>1 DEF SealedInv, Sealed, WrittenSealed, SealedIn, IsRow
    <3>3. w \in CommittedVersions(c)'
      BY <1>3, <1>7, <1>8, <3>1, <3>2 DEF SameVersion
    <3> QED BY <3>1, <3>2, <3>3 DEF SealedIn
  <2> QED BY <2>1, <2>2
<1>11. WrittenSealed(c)'
  BY <1>10 DEF WrittenSealed, IsRow
<1> QED BY <1>1, <1>6, <1>11, OnlyWriter

LEMMA DeleteSealed ==
  ASSUME SealedInv, NEW c \in Call, DeleteRow(c)
  PROVE  Sealed'
<1> DEFINE t(r, id) ==
             [tx[c] EXCEPT !.todo = Tail(@), !.snap = 0, !.dirty[r] = NoRow,
                           !.dead = @ \cup {id}, !.written = {v \in @ : v.secret_id # id},
                           !.events = Append(@, [secret_id |-> id, action |-> "delete"])]
<1>1. PICK r \in Ref :
        /\ Ready(c, r) /\ Found(c, r) # NoRow
        /\ tx' = [tx EXCEPT ![c] = t(r, Found(c, r).id)]
        /\ UNCHANGED <<secrets, secret_versions>>
  BY DEF DeleteRow, Becomes, tables
<1>2. PICK id : id = Found(c, r).id
  OBVIOUS
<1>3. Seen(c, r) # NoRow /\ id = Seen(c, r).id
  BY <1>1, <1>2, FoundFree DEF SealedInv
<1>4. tx[c] \in Tx /\ tx \in [Call -> Tx]
  BY DEF SealedInv, RowInv, TypeInv, TypeOK
<1>5. /\ t(r, id).dirty = [tx[c].dirty EXCEPT ![r] = NoRow]
      /\ t(r, id).written = {v \in tx[c].written : v.secret_id # id}
      /\ t(r, id).dead = tx[c].dead \cup {id}
  BY <1>4 DEF Tx
<1> HIDE DEF t
<1>6. /\ tx'[c].dirty = [tx[c].dirty EXCEPT ![r] = NoRow]
      /\ tx'[c].written = {v \in tx[c].written : v.secret_id # id}
      /\ tx'[c].dead = tx[c].dead \cup {id}
      /\ \A d \in Call \ {c} : tx'[d] = tx[d]
  BY <1>1, <1>2, <1>4, <1>5
<1>7. ASSUME NEW w \in CommittedVersions(c), w.secret_id # id
      PROVE  w \in CommittedVersions(c)'
  BY <1>1, <1>6, <1>7 DEF CommittedVersions
<1>8. ASSUME NEW s \in Ref, IsRow(tx'[c].dirty[s])
      PROVE  SealedIn(CommittedVersions(c)', s, tx'[c].dirty[s])
  <2>1. s # r /\ tx'[c].dirty[s] = tx[c].dirty[s]
    BY <1>4, <1>6, <1>8 DEF Tx, IsRow
  <2>2. tx[c].dirty[s].id # id
    BY <1>3, <1>8, <2>1, SeenRow DEF SealedInv, IsRow
  <2>3. PICK w \in CommittedVersions(c) :
          /\ w.secret_id = tx[c].dirty[s].id /\ w.version = tx[c].dirty[s].current_version
          /\ w.envelope.aad = associated_data(s, tx[c].dirty[s].current_version,
                                              tx[c].dirty[s].disclosure)
    BY <1>8, <2>1 DEF SealedInv, Sealed, WrittenSealed, SealedIn, IsRow
  <2> QED BY <1>7, <2>1, <2>2, <2>3 DEF SealedIn
<1>9. WrittenSealed(c)'
  BY <1>8 DEF WrittenSealed, IsRow
<1> QED BY <1>1, <1>6, <1>9, OnlyWriter, SMTT(30)

LEMMA RevokeSealed ==
  ASSUME SealedInv, NEW c \in Call, RevokeRow(c)
  PROVE  Sealed'
<1> DEFINE revoked(row) == [row EXCEPT !.state = "revoked"]
           t(r, row) ==
             [tx[c] EXCEPT !.todo = Tail(@), !.snap = 0,
                           !.found = [id |-> row.id, version |-> row.current_version],
                           !.dirty[r] = revoked(row),
                           !.events = Append(@, [secret_id |-> row.id, action |-> "revoke"])]
<1>1. PICK r \in Ref :
        /\ Ready(c, r) /\ Found(c, r) # NoRow
        /\ tx' = [tx EXCEPT ![c] = t(r, Found(c, r))]
        /\ UNCHANGED <<secrets, secret_versions>>
  BY DEF RevokeRow, Becomes, tables
<1>2. Seen(c, r) # NoRow /\ Found(c, r) = Seen(c, r) /\ Seen(c, r) \in SecretRow
  BY <1>1, FoundFree, SeenRow DEF SealedInv
<1>3. PICK row :
        /\ row = revoked(Found(c, r)) /\ row.id = Seen(c, r).id
        /\ row.current_version = Seen(c, r).current_version
        /\ row.disclosure = Seen(c, r).disclosure
  <2>1. /\ revoked(Seen(c, r)).id = Seen(c, r).id
        /\ revoked(Seen(c, r)).current_version = Seen(c, r).current_version
        /\ revoked(Seen(c, r)).disclosure = Seen(c, r).disclosure
    BY <1>2 DEF SecretRow
  <2> HIDE DEF revoked
  <2> QED BY <1>2, <2>1
<1>4. tx[c] \in Tx /\ tx \in [Call -> Tx]
  BY DEF SealedInv, RowInv, TypeInv, TypeOK
<1>5. /\ t(r, Found(c, r)).dirty = [tx[c].dirty EXCEPT ![r] = revoked(Found(c, r))]
      /\ t(r, Found(c, r)).written = tx[c].written
      /\ t(r, Found(c, r)).dead = tx[c].dead
  BY <1>4 DEF Tx
<1> HIDE DEF t, revoked
<1>6. /\ tx'[c].dirty = [tx[c].dirty EXCEPT ![r] = row]
      /\ tx'[c].written = tx[c].written /\ tx'[c].dead = tx[c].dead
      /\ \A d \in Call \ {c} : tx'[d] = tx[d]
  BY <1>1, <1>3, <1>4, <1>5
<1>7. CommittedVersions(c)' = CommittedVersions(c)
  BY <1>1, <1>6 DEF CommittedVersions
<1>8. ASSUME NEW s \in Ref, IsRow(tx'[c].dirty[s])
      PROVE  SealedIn(CommittedVersions(c), s, tx'[c].dirty[s])
  <2>1. CASE s = r
    <3>1. tx'[c].dirty[s] = row
      BY <1>4, <1>6, <2>1 DEF Tx
    <3>2. SealedIn(CommittedVersions(c), r, Seen(c, r))
      BY <1>2, SeenSealed
    <3> QED BY <1>3, <2>1, <3>1, <3>2 DEF SealedIn
  <2>2. CASE s # r
    <3>1. tx'[c].dirty[s] = tx[c].dirty[s]
      BY <1>4, <1>6, <2>2 DEF Tx
    <3> QED BY <1>8, <3>1 DEF SealedInv, Sealed, WrittenSealed, IsRow
  <2> QED BY <2>1, <2>2
<1>9. WrittenSealed(c)'
  BY <1>7, <1>8 DEF WrittenSealed, IsRow
<1> QED BY <1>1, <1>6, <1>9, OnlyWriter

\* What c lays over the tables is sealed by itself, and beyond what any other
\* call touches.
LEMMA CommitSealed ==
  ASSUME SealedInv, NEW c \in Call, Commit(c)
  PROVE  Sealed'
<1>1. /\ secrets' = CommittedRows(c) /\ secret_versions' = CommittedVersions(c)
      /\ tx' = [tx EXCEPT ![c] = Idle]
  BY DEF Commit, Release, Becomes
<1>2. tx'[c] = Idle /\ \A d \in Call \ {c} : tx'[d] = tx[d]
  BY <1>1 DEF SealedInv, RowInv, TypeInv, TypeOK
<1>3. \A r \in Ref : secrets'[r] = Seen(c, r)
  BY <1>1 DEF CommittedRows
<1>4. CommittedSealed'
  BY <1>1, <1>3, SeenSealed DEF CommittedSealed
<1>5. WrittenSealed(c)'
  BY <1>2 DEF WrittenSealed, Idle, IsRow
<1>6. ASSUME NEW d \in Call \ {c}, NEW r \in Ref, IsRow(tx[d].dirty[r])
      PROVE  SealedIn(CommittedVersions(d)', r, tx[d].dirty[r])
  <2>1. PICK v \in CommittedVersions(d) :
          /\ v.secret_id = tx[d].dirty[r].id /\ v.version = tx[d].dirty[r].current_version
          /\ v.envelope.aad = associated_data(r, tx[d].dirty[r].current_version,
                                              tx[d].dirty[r].disclosure)
    BY <1>6 DEF SealedInv, Sealed, WrittenSealed, SealedIn
  <2>2. v.secret_id \notin Touched(c)
    BY <1>6, <2>1, DirtyTouched, TouchedDisjoint DEF SealedInv
  <2>3. v \in secret_versions' <=> v \in secret_versions
    BY <1>1, <2>2, VersionsBeyond
  <2>4. v \in CommittedVersions(d)'
    BY <1>2, <2>3 DEF CommittedVersions
  <2> QED BY <2>1, <2>4 DEF SealedIn
<1>7. ASSUME NEW d \in Call \ {c} PROVE WrittenSealed(d)'
  BY <1>2, <1>6 DEF WrittenSealed, IsRow
<1> QED BY <1>4, <1>5, <1>7 DEF Sealed

-----------------------------------------------------------------------------
LEMMA InitSealed == Init => SealedInv
<1>1. ASSUME Init PROVE Sealed
  <2>1. /\ \A r \in Ref : secrets[r] = NoRow
        /\ \A c \in Call : tx[c].dirty = [r \in Ref |-> Untouched]
    BY <1>1 DEF Init, Idle
  <2> QED BY <2>1 DEF Sealed, CommittedSealed, WrittenSealed, IsRow
<1> QED BY <1>1, InitRows DEF SealedInv

LEMMA SealedStep == SealedInv /\ [Next]_vars => SealedInv'
<1> SUFFICES ASSUME SealedInv, [Next]_vars PROVE SealedInv'
  OBVIOUS
<1>1. RowInv'
  BY RowStep DEF SealedInv
<1>2. ASSUME NEW c \in Call, Progress(c) PROVE Sealed'
  BY <1>2, ReadQuiet, EndQuiet, QuietSealed, SelectSealed, UpsertSealed, DeleteSealed, RevokeSealed, CommitSealed,
     RewrapSealed DEF Progress, SealedInv
<1>3. Sealed'
  BY <1>2, InvokeQuiet, EndQuiet, IdleQuiet, QuietSealed DEF Next, SealedInv
<1> QED BY <1>1, <1>3 DEF SealedInv

\* Whatever calls overlap, and however keys are rotated meanwhile, the current
\* version of every secret is sealed for its reference, number and disclosure
\* (crates/secrets-postgres, put_tx and rewrap_all).
THEOREM CurrentAlwaysOpens == Spec => []CurrentVersionOpens
<1>1. SealedInv => CurrentVersionOpens
  <2> SUFFICES ASSUME SealedInv, NEW r \in Ref, secrets[r] # NoRow
               PROVE  \E v \in CurrentVersion(secrets[r]) :
                        v.envelope.aad = associated_data(r, secrets[r].current_version,
                                                         secrets[r].disclosure)
    BY DEF CurrentVersionOpens
  <2> QED BY DEF SealedInv, Sealed, CommittedSealed, SealedIn, CurrentVersion
<1> QED BY <1>1, InitSealed, SealedStep, PTL DEF Spec

-----------------------------------------------------------------------------
(***************************************************************************)
(* AuditMatchesTables holds in every reachable state of PostgresStore.     *)
(* The invariant counts, for each id a transaction has touched, the audit  *)
(* rows that are committed and those it will add, and says that an id      *)
(* nobody has committed has none.                                          *)
(***************************************************************************)
Copies(bag, e) == IF BagIn(e, bag) THEN bag[e] ELSE 0
Count(s, e) == Cardinality({i \in DOMAIN s : s[i] = e})

EventOf(id, action) == [secret_id |-> id, action |-> action]
Audited(id, action) == Copies(audit_events, EventOf(id, action))
Pending(c, id, action) == Count(tx[c].events, EventOf(id, action))
Total(c, id, action) == Audited(id, action) + Pending(c, id, action)

\* What the audit rows say of a secret that is there, of one that is gone, and
\* of an id that never was one.
Live(row, puts, deletes) == puts = row.current_version /\ puts > 0 /\ deletes = 0
Gone(puts, deletes) == puts > 0 /\ deletes = 1
Fresh(id) == Audited(id, "put") = 0 /\ Audited(id, "delete") = 0

CommittedAudited ==
  /\ \A r \in Ref : secrets[r] # NoRow =>
       Live(secrets[r], Audited(secrets[r].id, "put"), Audited(secrets[r].id, "delete"))
  /\ \A id \in Nat : ~Committed(id) =>
       Fresh(id) \/ Gone(Audited(id, "put"), Audited(id, "delete"))
  /\ \A id \in Nat : id >= next_id => Fresh(id)

RowsAudited(c) ==
  \A r \in Ref : IsRow(tx[c].dirty[r]) =>
    Live(tx[c].dirty[r], Total(c, tx[c].dirty[r].id, "put"), Total(c, tx[c].dirty[r].id, "delete"))
DeadAudited(c) == \A id \in tx[c].dead : Gone(Total(c, id, "put"), Total(c, id, "delete"))
OnlyTouchedAudited(c) ==
  \A id \in Nat : id \notin Touched(c) => Pending(c, id, "put") = 0 /\ Pending(c, id, "delete") = 0
NewAreFresh(c) == \A id \in Touched(c) : ~Committed(id) => Fresh(id)
FoundFresh(c) == tx[c].pc = "upsert" /\ tx[c].found.version = 1 => Fresh(tx[c].found.id)

CallAudited(c) ==
  /\ RowsAudited(c) /\ DeadAudited(c) /\ OnlyTouchedAudited(c) /\ NewAreFresh(c) /\ FoundFresh(c)
Audit == CommittedAudited /\ \A c \in Call : CallAudited(c)
AuditInv == RowInv /\ Audit

-----------------------------------------------------------------------------
(* Counting *)

LEMMA CountType ==
  ASSUME NEW s \in Seq(Event), NEW e
  PROVE  Count(s, e) \in Nat
<1>1. IsFiniteSet(DOMAIN s)
  BY FS_Interval
<1>2. IsFiniteSet({i \in DOMAIN s : s[i] = e})
  BY <1>1, FS_Subset
<1> QED BY <1>2, FS_CardinalityType DEF Count

LEMMA CountEmpty == ASSUME NEW e PROVE Count(<<>>, e) = 0
<1>1. {i \in DOMAIN <<>> : <<>>[i] = e} = {}
  OBVIOUS
<1> QED BY <1>1, FS_EmptySet DEF Count

LEMMA CountAppend ==
  ASSUME NEW s \in Seq(Event), NEW f \in Event, NEW e
  PROVE  Count(Append(s, f), e) = Count(s, e) + (IF e = f THEN 1 ELSE 0)
<1> DEFINE S == {i \in DOMAIN s : s[i] = e}
           T == {i \in DOMAIN Append(s, f) : Append(s, f)[i] = e}
<1>1. IsFiniteSet(S)
  <2>1. IsFiniteSet(DOMAIN s)
    BY FS_Interval
  <2> QED BY <2>1, FS_Subset
<1>2. Len(s) + 1 \notin S
  OBVIOUS
<1>3. CASE e = f
  <2>1. T = S \cup {Len(s) + 1}
    BY <1>3
  <2>2. Cardinality(S \cup {Len(s) + 1}) = Cardinality(S) + 1
    BY <1>1, <1>2, FS_AddElement
  <2> QED BY <1>3, <2>1, <2>2 DEF Count
<1>4. CASE e # f
  <2>1. T = S
    BY <1>4
  <2>2. Cardinality(S) \in Nat
    BY <1>1, FS_CardinalityType
  <2>3. Count(Append(s, f), e) = Cardinality(T) /\ Count(s, e) = Cardinality(S)
    BY DEF Count
  <2> HIDE DEF S, T
  <2> QED BY <1>4, <2>1, <2>2, <2>3
<1> QED BY <1>3, <1>4

LEMMA CopiesType ==
  ASSUME NEW bag, IsABag(bag), NEW e
  PROVE  Copies(bag, e) \in Nat
BY DEF Copies, BagIn, BagToSet, IsABag

LEMMA CopiesOfSeq ==
  ASSUME NEW s \in Seq(Event), NEW e
  PROVE  Copies(BagOfSeq(s), e) = Count(s, e)
<1>1. CASE \E i \in DOMAIN s : s[i] = e
  BY <1>1 DEF Copies, BagIn, BagToSet, BagOfSeq, Count
<1>2. CASE ~\E i \in DOMAIN s : s[i] = e
  <2>1. {i \in DOMAIN s : s[i] = e} = {}
    BY <1>2
  <2> QED BY <1>2, <2>1, FS_EmptySet DEF Copies, BagIn, BagToSet, BagOfSeq, Count
<1> QED BY <1>1, <1>2

LEMMA CopiesOfUnion ==
  ASSUME NEW A, NEW B, IsABag(A), IsABag(B), NEW e
  PROVE  Copies(A (+) B, e) = Copies(A, e) + Copies(B, e)
BY DEF Copies, BagIn, BagToSet, (+), IsABag

LEMMA EventsDiffer ==
  \A i, j, a, b : EventOf(i, a) = EventOf(j, b) <=> i = j /\ a = b
BY DEF EventOf

LEMMA CountTypes ==
  ASSUME TypeInv, NEW c \in Call, NEW id, NEW a
  PROVE  Audited(id, a) \in Nat /\ Pending(c, id, a) \in Nat
BY CopiesType, CountType, TxFields DEF Audited, Pending, TypeInv, TypeOK

-----------------------------------------------------------------------------
(* What a call sees *)

LEMMA SeenAudited ==
  ASSUME AuditInv, NEW c \in Call, NEW r \in Ref, Seen(c, r) # NoRow
  PROVE  Live(Seen(c, r), Total(c, Seen(c, r).id, "put"), Total(c, Seen(c, r).id, "delete"))
<1>1. CASE tx[c].dirty[r] = Untouched
  <2>1. Seen(c, r) = secrets[r] /\ secrets[r] # NoRow
    BY <1>1 DEF Seen
  <2>2. secrets[r].id \notin Touched(c)
    BY <1>1, <2>1, UntouchedRow DEF AuditInv
  <2>3. secrets[r].id \in Nat
    BY <2>1 DEF AuditInv, RowInv, TypeInv, TypeOK, SecretRow
  <2>4. Pending(c, secrets[r].id, "put") = 0 /\ Pending(c, secrets[r].id, "delete") = 0
    BY <2>2, <2>3 DEF AuditInv, Audit, CallAudited, OnlyTouchedAudited
  <2>5. Live(secrets[r], Audited(secrets[r].id, "put"), Audited(secrets[r].id, "delete"))
    BY <2>1 DEF AuditInv, Audit, CommittedAudited
  <2>6. \A a : Audited(secrets[r].id, a) \in Nat
    BY CountTypes DEF AuditInv, RowInv
  <2> QED BY <2>1, <2>4, <2>5, <2>6 DEF Total
<1>2. CASE tx[c].dirty[r] # Untouched
  BY <1>2 DEF Seen, IsRow, AuditInv, Audit, CallAudited, RowsAudited
<1> QED BY <1>1, <1>2

\* put_tx inserts version 1 for a new id only.
LEMMA FirstVersionIsNew ==
  ASSUME AuditInv, NEW c \in Call, tx[c].pc = "upsert", tx[c].found.version = 1
  PROVE  HoldsNewId(c)
<1>1. PICK r \in Ref : r = Head(tx[c].todo).ref
  BY FoundTyped DEF AuditInv, RowInv
<1>2. ASSUME HoldsRow(c, r) PROVE FALSE
  <2>1. Seen(c, r) # NoRow /\ 1 = Seen(c, r).current_version + 1
    BY <1>2 DEF HoldsRow
  <2>2. Seen(c, r).current_version > 0 /\ Seen(c, r).current_version \in Nat
    BY <2>1, SeenAudited, SeenRow DEF Live, AuditInv, SecretRow
  <2> QED BY <2>1, <2>2
<1> QED BY <1>1, <1>2 DEF AuditInv, RowInv, FoundIsolated

-----------------------------------------------------------------------------
(* Steps that write no row *)

SameCounts ==
  \A id \in Nat : /\ Audited(id, "put")' = Audited(id, "put")
                  /\ Audited(id, "delete")' = Audited(id, "delete")

LEMMA TouchedTyped == ASSUME TypeInv, NEW c \in Call PROVE Touched(c) \subseteq Nat
<1>1. tx[c] \in Tx
  BY DEF TypeInv, TypeOK
<1> QED BY <1>1 DEF Touched, Tx, VersionRow, SecretRow, IsRow

LEMMA CallKept ==
  ASSUME AuditInv, UNCHANGED secrets, SameCounts, NEW d \in Call, KeptOrCleared(d), FoundFresh(d)'
  PROVE  CallAudited(d)'
<1>1. CallAudited(d) /\ Touched(d) \subseteq Nat
  BY TouchedTyped DEF AuditInv, Audit, RowInv
<1>2. CASE /\ tx'[d].dirty = tx[d].dirty /\ tx'[d].written = tx[d].written
           /\ tx'[d].dead = tx[d].dead /\ tx'[d].events = tx[d].events
  <2>1. Touched(d)' = Touched(d)
    BY <1>2 DEF Touched
  <2>2. \A id \in Nat : /\ Total(d, id, "put")' = Total(d, id, "put")
                        /\ Total(d, id, "delete")' = Total(d, id, "delete")
    BY <1>2 DEF SameCounts, Total, Pending
  <2>3. RowsAudited(d)'
    BY <1>1, <1>2, <2>2, DirtyTouched DEF CallAudited, RowsAudited
  <2>4. DeadAudited(d)'
    BY <1>1, <1>2, <2>2 DEF CallAudited, DeadAudited, Touched
  <2>5. OnlyTouchedAudited(d)' /\ NewAreFresh(d)'
    BY <1>1, <1>2, <2>1 DEF CallAudited, OnlyTouchedAudited, NewAreFresh, Pending, Fresh, SameCounts,
                            Committed
  <2> QED BY <2>3, <2>4, <2>5 DEF CallAudited
<1>3. CASE /\ tx'[d].dirty = [r \in Ref |-> Untouched] /\ tx'[d].written = {}
           /\ tx'[d].dead = {} /\ tx'[d].events = <<>>
  <2>1. Touched(d)' = {}
    BY <1>3 DEF Touched, IsRow
  <2>2. RowsAudited(d)' /\ DeadAudited(d)'
    BY <1>3 DEF RowsAudited, DeadAudited, IsRow
  <2>3. OnlyTouchedAudited(d)' /\ NewAreFresh(d)'
    BY <1>3, <2>1, CountEmpty DEF OnlyTouchedAudited, NewAreFresh, Pending
  <2> QED BY <2>2, <2>3 DEF CallAudited
<1> QED BY <1>2, <1>3 DEF KeptOrCleared

LEMMA CommittedKept ==
  ASSUME AuditInv, UNCHANGED secrets, SameCounts, next_id' \in Nat, next_id' >= next_id
  PROVE  CommittedAudited'
<1>1. CommittedAudited /\ next_id \in Nat
  BY DEF AuditInv, Audit, RowInv, TypeInv, TypeOK
<1>2. \A r \in Ref : secrets[r] # NoRow => secrets[r].id \in Nat
  BY DEF AuditInv, RowInv, TypeInv, TypeOK, SecretRow
<1> QED BY <1>1, <1>2 DEF CommittedAudited, SameCounts, Committed, Fresh

LEMMA FoundKept ==
  ASSUME AuditInv, SameCounts, NEW d \in Call, Waits(d)
  PROVE  FoundFresh(d)'
<1>1. tx[d].found.id \in Nat
  BY TxFields DEF AuditInv, RowInv
<1> QED BY <1>1 DEF AuditInv, Audit, CallAudited, FoundFresh, Waits, SameCounts, Fresh

LEMMA QuietAudit == ASSUME AuditInv, Quiet PROVE Audit'
<1>1. SameCounts
  BY DEF Quiet, SameCounts, Audited
<1>2. next_id' \in Nat /\ next_id' >= next_id
  BY DEF Quiet, AuditInv, RowInv, TypeInv, TypeOK
<1> QED BY <1>1, <1>2, CallKept, CommittedKept, FoundKept DEF Quiet, Audit

\* rewrap_all audits itself under another name.
LEMMA RewrapAudit == ASSUME AuditInv, NEW c \in Call, RewrapVersions(c) PROVE Audit'
<1> DEFINE S == Selected(c)
           E == {[secret_id |-> v.secret_id, action |-> "rewrap"] : v \in S}
           B == [e \in E |-> Cardinality({v \in S : v.secret_id = e.secret_id})]
<1>1. audit_events' = audit_events (+) B /\ UNCHANGED <<secrets, next_id>>
  BY DEF RewrapVersions
<1>2. \A id : EventOf(id, "put") \notin DOMAIN B /\ EventOf(id, "delete") \notin DOMAIN B
  BY DEF EventOf
<1> HIDE DEF B
<1>3. SameCounts
  <2>1. \A id : \A a : Audited(id, a) \in Nat
    BY CountTypes DEF AuditInv, RowInv
  <2> QED BY <1>1, <1>2, <2>1 DEF SameCounts, Audited, Copies, BagIn, BagToSet, (+)
<1>4. PICK n : tx' = [tx EXCEPT ![c] = [tx[c] EXCEPT !.pc = "reseal", !.targets = {}, !.count = n]]
  BY DEF RewrapVersions, Becomes
<1>5. tx \in [Call -> Tx] /\ tx[c] \in Tx
  BY DEF AuditInv, RowInv, TypeInv, TypeOK
<1>6. \A d \in Call : KeptOrCleared(d) /\ Waits(d)
  BY <1>4, <1>5 DEF KeptOrCleared, Waits, Tx
<1>7. next_id' \in Nat /\ next_id' >= next_id
  BY <1>1 DEF AuditInv, RowInv, TypeInv, TypeOK
<1> QED BY <1>1, <1>3, <1>6, <1>7, CallKept, CommittedKept, FoundKept DEF Audit

\* A new id is one nobody has audited.
LEMMA SelectAudit == ASSUME AuditInv, NEW c \in Call, SelectForUpdate(c) PROVE Audit'
<1>1. Continued(c) /\ UNCHANGED <<secrets, audit_events>>
  BY SelectContinues DEF AuditInv
<1>2. SameCounts
  BY <1>1 DEF SameCounts, Audited
<1>3. next_id \in Nat /\ tx \in [Call -> Tx] /\ tx[c] \in Tx
  BY DEF AuditInv, RowInv, TypeInv, TypeOK
<1> DEFINE t(found) == [tx[c] EXCEPT !.pc = "upsert", !.snap = 0, !.found = found]
           New == [id |-> next_id, version |-> 1]
           After(row) == [id |-> row.id, version |-> row.current_version + 1]
<1>4. PICK r \in Ref :
        /\ Ready(c, r)
        /\ \/ tx' = [tx EXCEPT ![c] = t(New)] /\ next_id' = next_id + 1
           \/ /\ Found(c, r) # NoRow
              /\ tx' = [tx EXCEPT ![c] = t(After(Found(c, r)))]
              /\ next_id' = next_id
  BY DEF SelectForUpdate, Becomes
<1>5. \A found : t(found).found = found
  BY <1>3 DEF Tx
<1> HIDE DEF t
<1>6. next_id' \in Nat /\ next_id' >= next_id
  BY <1>3, <1>4
<1>7. FoundFresh(c)'
  <2>1. CASE tx'[c].found = [id |-> next_id, version |-> 1]
    <3>1. Fresh(next_id)
      BY <1>3 DEF AuditInv, Audit, CommittedAudited
    <3> QED BY <1>2, <1>3, <2>1, <3>1 DEF FoundFresh, Fresh, SameCounts
  <2>2. CASE /\ Found(c, r) # NoRow
             /\ tx'[c].found.version = Found(c, r).current_version + 1
    <3>1. Seen(c, r) # NoRow /\ Found(c, r) = Seen(c, r)
      BY <1>4, <2>2, FoundFree DEF AuditInv
    <3>2. Seen(c, r).current_version > 0 /\ Seen(c, r).current_version \in Nat
      BY <3>1, SeenAudited, SeenRow DEF Live, AuditInv, SecretRow
    <3> QED BY <2>2, <3>1, <3>2 DEF FoundFresh
  <2>3. \/ tx'[c].found = [id |-> next_id, version |-> 1]
        \/ Found(c, r) # NoRow /\ tx'[c].found.version = Found(c, r).current_version + 1
    BY <1>3, <1>4, <1>5
  <2> QED BY <2>1, <2>2, <2>3
<1>8. ASSUME NEW d \in Call PROVE FoundFresh(d)'
  <2>1. CASE d = c
    BY <1>7, <2>1
  <2>2. CASE d # c
    BY <1>1, <1>2, <2>2, FoundKept DEF Continued, Waits
  <2> QED BY <2>1, <2>2
<1>9. \A d \in Call : KeptOrCleared(d)
  BY <1>1 DEF Continued, KeptOrCleared
<1> QED BY <1>1, <1>2, <1>6, <1>8, <1>9, CallKept, CommittedKept DEF Audit

-----------------------------------------------------------------------------
(* Statements that write a row *)

\* c writes the row of r under an id and adds one audit row for it.
WritesAudited(c, r, id, action) ==
  /\ UNCHANGED <<secrets, audit_events, next_id>>
  /\ \A d \in Call \ {c} : tx'[d] = tx[d]
  /\ tx'[c].pc = "exec"
  /\ tx'[c].events = Append(tx[c].events, EventOf(id, action))
  /\ \A s \in Ref \ {r} : tx'[c].dirty[s] = tx[c].dirty[s]
  /\ IsRow(tx'[c].dirty[r]) => tx'[c].dirty[r].id = id
  /\ tx'[c].dead \in {tx[c].dead, tx[c].dead \cup {id}}
  /\ Touched(c)' = Touched(c) \cup {id}
\* Nothing else c has written is about the id, and it is committed or new.
Alone(c, r, id) ==
  /\ \A s \in Ref : IsRow(tx[c].dirty[s]) /\ tx[c].dirty[s].id = id => s = r
  /\ id \notin tx[c].dead
  /\ ~Committed(id) => Fresh(id)

LEMMA WriterAudit ==
  ASSUME AuditInv, NEW c \in Call, UNCHANGED <<secrets, audit_events, next_id>>,
         \A d \in Call \ {c} : tx'[d] = tx[d], CallAudited(c)'
  PROVE  Audit'
<1>1. SameCounts
  BY DEF SameCounts, Audited
<1>2. next_id' \in Nat /\ next_id' >= next_id
  BY DEF AuditInv, RowInv, TypeInv, TypeOK
<1>3. ASSUME NEW d \in Call \ {c} PROVE CallAudited(d)'
  <2>1. KeptOrCleared(d) /\ Waits(d)
    BY DEF KeptOrCleared, Waits
  <2> QED BY <1>1, <2>1, CallKept, FoundKept
<1> QED BY <1>1, <1>2, <1>3, CommittedKept DEF Audit

LEMMA RowAudit ==
  ASSUME AuditInv, NEW c \in Call, NEW r \in Ref, NEW id \in Nat,
         NEW action \in {"put", "delete", "revoke"},
         WritesAudited(c, r, id, action), Alone(c, r, id),
         IsRow(tx'[c].dirty[r]) =>
           Live(tx'[c].dirty[r], Total(c, id, "put")', Total(c, id, "delete")'),
         id \in tx'[c].dead => Gone(Total(c, id, "put")', Total(c, id, "delete")')
  PROVE  Audit'
<1>1. CallAudited(c) /\ Touched(c) \subseteq Nat /\ tx[c].events \in Seq(Event)
  BY TouchedTyped, TxFields DEF AuditInv, Audit, RowInv
<1>2. EventOf(id, action) \in Event
  BY DEF EventOf, Event
<1>3. \A i : \A a : Pending(c, i, a) \in Nat
  BY CountTypes DEF AuditInv, RowInv
<1>4. ASSUME NEW i, i # id, NEW a
      PROVE  Pending(c, i, a)' = Pending(c, i, a) /\ Audited(i, a)' = Audited(i, a)
  <2>1. EventOf(i, a) # EventOf(id, action)
    BY <1>4, EventsDiffer
  <2>2. Count(Append(tx[c].events, EventOf(id, action)), EventOf(i, a))
          = Count(tx[c].events, EventOf(i, a)) + 0
    BY <1>1, <1>2, <2>1, CountAppend
  <2> QED BY <1>3, <2>2 DEF Pending, Audited, WritesAudited
<1>5. ASSUME NEW s \in Ref, IsRow(tx'[c].dirty[s]), NEW i, i = tx'[c].dirty[s].id
      PROVE  Live(tx'[c].dirty[s], Total(c, i, "put")', Total(c, i, "delete")')
  <2>1. CASE s = r
    BY <1>5, <2>1 DEF WritesAudited
  <2>2. CASE s # r
    <3>1. tx'[c].dirty[s] = tx[c].dirty[s] /\ IsRow(tx[c].dirty[s]) /\ tx[c].dirty[s].id = i
          /\ i # id
      BY <1>5, <2>2 DEF WritesAudited, Alone, IsRow
    <3>2. Live(tx[c].dirty[s], Total(c, i, "put"), Total(c, i, "delete"))
      BY <1>1, <3>1 DEF CallAudited, RowsAudited
    <3>3. Total(c, i, "put")' = Total(c, i, "put") /\ Total(c, i, "delete")' = Total(c, i, "delete")
      BY <1>4, <3>1 DEF Total
    <3> QED BY <3>1, <3>2, <3>3
  <2> QED BY <2>1, <2>2
<1>6. ASSUME NEW i \in tx'[c].dead
      PROVE  Gone(Total(c, i, "put")', Total(c, i, "delete")')
  <2>1. CASE i = id
    BY <2>1
  <2>2. CASE i # id
    <3>1. i \in tx[c].dead
      BY <2>2 DEF WritesAudited
    <3>2. Gone(Total(c, i, "put"), Total(c, i, "delete"))
      BY <1>1, <3>1 DEF CallAudited, DeadAudited
    <3>3. Total(c, i, "put")' = Total(c, i, "put") /\ Total(c, i, "delete")' = Total(c, i, "delete")
      BY <1>4, <2>2 DEF Total
    <3> QED BY <3>2, <3>3
  <2> QED BY <2>1, <2>2
<1>7. OnlyTouchedAudited(c)'
  <2> SUFFICES ASSUME NEW i \in Nat, i \notin Touched(c)'
               PROVE  Pending(c, i, "put")' = 0 /\ Pending(c, i, "delete")' = 0
    BY DEF OnlyTouchedAudited
  <2>1. i # id /\ i \notin Touched(c)
    BY DEF WritesAudited
  <2> QED BY <1>1, <1>4, <2>1 DEF CallAudited, OnlyTouchedAudited
<1>8. NewAreFresh(c)'
  BY <1>1 DEF CallAudited, NewAreFresh, WritesAudited, Alone, Committed, Fresh, Audited
<1>9. CallAudited(c)'
  BY <1>5, <1>6, <1>7, <1>8 DEF CallAudited, RowsAudited, DeadAudited, FoundFresh, WritesAudited,
                               IsRow
<1> QED BY <1>9, WriterAudit DEF WritesAudited

\* What one more audit row does to the counts of its id.
LEMMA OneMore ==
  ASSUME AuditInv, NEW c \in Call, NEW id \in Nat, NEW action \in {"put", "delete", "revoke"},
         tx'[c].events = Append(tx[c].events, EventOf(id, action)), UNCHANGED audit_events
  PROVE  /\ Total(c, id, "put")' = Total(c, id, "put") + (IF action = "put" THEN 1 ELSE 0)
         /\ Total(c, id, "delete")' = Total(c, id, "delete") + (IF action = "delete" THEN 1 ELSE 0)
<1>1. tx[c].events \in Seq(Event) /\ EventOf(id, action) \in Event
  BY TxFields DEF AuditInv, RowInv, EventOf, Event
<1>2. ASSUME NEW a
      PROVE  /\ Pending(c, id, a)' = Pending(c, id, a) + (IF a = action THEN 1 ELSE 0)
             /\ Audited(id, a)' = Audited(id, a)
             /\ Pending(c, id, a) \in Nat /\ Audited(id, a) \in Nat
  <2>1. EventOf(id, a) = EventOf(id, action) <=> a = action
    BY EventsDiffer
  <2>2. Count(Append(tx[c].events, EventOf(id, action)), EventOf(id, a))
          = Count(tx[c].events, EventOf(id, a)) + (IF a = action THEN 1 ELSE 0)
    BY <1>1, <2>1, CountAppend
  <2>3. Pending(c, id, a) \in Nat /\ Audited(id, a) \in Nat
    BY CountTypes DEF AuditInv, RowInv
  <2> QED BY <2>2, <2>3 DEF Pending, Audited
<1> QED BY <1>2 DEF Total

\* The row a call sees is the only thing it has written about its id.
LEMMA SeenAlone ==
  ASSUME AuditInv, NEW c \in Call, NEW r \in Ref, Seen(c, r) # NoRow
  PROVE  Alone(c, r, Seen(c, r).id) /\ Seen(c, r).id \in Nat
<1>1. RowInv
  BY DEF AuditInv
<1>2. Seen(c, r).id \in Nat
  BY <1>1, SeenRow DEF SecretRow
<1>3. Seen(c, r).id \notin tx[c].dead
  BY SeenAudited DEF Live, Gone, AuditInv, Audit, CallAudited, DeadAudited
<1>4. ~Committed(Seen(c, r).id) => Fresh(Seen(c, r).id)
  BY <1>1, SeenRow DEF AuditInv, Audit, CallAudited, NewAreFresh
<1> QED BY <1>1, <1>2, <1>3, <1>4, SeenRow DEF Alone

LEMMA TouchedGrows ==
  ASSUME NEW c \in Call, NEW r \in Ref, NEW id,
         \A s \in Ref \ {r} : tx'[c].dirty[s] = tx[c].dirty[s],
         IsRow(tx[c].dirty[r]) => tx[c].dirty[r].id = id,
         IsRow(tx'[c].dirty[r]) => tx'[c].dirty[r].id = id,
         IsRow(tx'[c].dirty[r]) \/ id \in tx'[c].dead,
         tx'[c].dead \in {tx[c].dead, tx[c].dead \cup {id}},
         \A v \in tx[c].written : v.secret_id # id => v \in tx'[c].written,
         \A v \in tx'[c].written : v.secret_id # id => v \in tx[c].written
  PROVE  Touched(c)' = Touched(c) \cup {id}
<1>1. ASSUME NEW i, i # id PROVE i \in Touched(c)' <=> i \in Touched(c)
  <2>1. (\E s \in Ref : IsRow(tx'[c].dirty[s]) /\ i = tx'[c].dirty[s].id)
          <=> (\E s \in Ref : IsRow(tx[c].dirty[s]) /\ i = tx[c].dirty[s].id)
    BY <1>1
  <2>2. (\E v \in tx'[c].written : i = v.secret_id) <=> (\E v \in tx[c].written : i = v.secret_id)
    BY <1>1
  <2>3. i \in tx'[c].dead <=> i \in tx[c].dead
    BY <1>1
  <2> QED BY <2>1, <2>2, <2>3 DEF Touched, IsRow
<1>2. id \in Touched(c)'
  BY DEF Touched, IsRow
<1> QED BY <1>1, <1>2

LEMMA UpsertAudit == ASSUME AuditInv, NEW c \in Call, Upsert(c) PROVE Audit'
<1> DEFINE t(r, row, v, event) ==
             [tx[c] EXCEPT !.pc = "exec", !.todo = Tail(@), !.dirty[r] = row,
                           !.written = @ \cup {v}, !.events = Append(@, event)]
           event == EventOf(tx[c].found.id, "put")
<1>1. PICK r \in Ref :
        /\ AtUpsert(c, r) /\ ForeignKeyHolds(c, r)
        /\ tx' = [tx EXCEPT ![c] = t(r, UpsertRow(c, r), NewVersion(c, r), event)]
        /\ UNCHANGED <<secrets, audit_events, next_id>>
  BY DEF Upsert, Becomes, tables, EventOf
<1>2. PICK id \in Nat, n \in Nat : id = tx[c].found.id /\ n = tx[c].found.version
  BY TxFields DEF AuditInv, RowInv
<1>3. PICK row \in SecretRow : row = UpsertRow(c, r) /\ row.id = id /\ row.current_version = n
  BY <1>1, <1>2, UpsertRowTyped DEF AuditInv, RowInv, ForeignKeyHolds, UpsertRow
<1>4. PICK v : v = NewVersion(c, r) /\ v.secret_id = id
  <2>1. NewVersion(c, r).secret_id = id
    BY <1>2 DEF NewVersion
  <2> QED BY <2>1
<1>5. tx[c] \in Tx /\ tx \in [Call -> Tx]
  BY TxFields DEF AuditInv, RowInv, TypeInv, TypeOK
<1>6. /\ t(r, row, v, event).dirty = [tx[c].dirty EXCEPT ![r] = row]
      /\ t(r, row, v, event).written = tx[c].written \cup {v}
      /\ t(r, row, v, event).dead = tx[c].dead /\ t(r, row, v, event).pc = "exec"
      /\ t(r, row, v, event).events = Append(tx[c].events, event)
  BY <1>5 DEF Tx
<1> HIDE DEF t
<1>7. /\ tx'[c].dirty = [tx[c].dirty EXCEPT ![r] = row]
      /\ tx'[c].written = tx[c].written \cup {v}
      /\ tx'[c].dead = tx[c].dead /\ tx'[c].pc = "exec"
      /\ tx'[c].events = Append(tx[c].events, EventOf(id, "put"))
      /\ \A d \in Call \ {c} : tx'[d] = tx[d]
  BY <1>1, <1>2, <1>3, <1>4, <1>5, <1>6
<1>8. /\ tx'[c].dirty[r] = row /\ IsRow(row)
      /\ \A s \in Ref \ {r} : tx'[c].dirty[s] = tx[c].dirty[s]
  BY <1>5, <1>7, StoreAssumption, SMTT(30) DEF Tx, IsRow
\* The audit rows of the id so far are those of the versions before.
<1>9. /\ Alone(c, r, id)
      /\ IsRow(tx[c].dirty[r]) => tx[c].dirty[r].id = id
      /\ n > 0 /\ Total(c, id, "put") = n - 1 /\ Total(c, id, "delete") = 0
  <2>1. CASE HoldsRow(c, r)
    <3>1. Seen(c, r) # NoRow /\ id = Seen(c, r).id /\ n = Seen(c, r).current_version + 1
      BY <1>2, <2>1 DEF HoldsRow
    <3>2. Live(Seen(c, r), Total(c, id, "put"), Total(c, id, "delete"))
      BY <3>1, SeenAudited
    <3>3. Seen(c, r).current_version \in Nat
      BY <3>1, SeenRow DEF AuditInv, SecretRow
    <3>4. IsRow(tx[c].dirty[r]) => tx[c].dirty[r].id = id
      BY <3>1 DEF Seen, IsRow
    <3> QED BY <3>1, <3>2, <3>3, <3>4, SeenAlone DEF Live
  <2>2. CASE HoldsNewId(c)
    <3>1. n = 1 /\ NewId(c, id) /\ tx[c].pc = "upsert"
      BY <1>1, <1>2, <2>2 DEF HoldsNewId, AtUpsert
    <3>2. Fresh(id)
      BY <1>2, <3>1 DEF AuditInv, Audit, CallAudited, FoundFresh
    <3>3. id \notin Touched(c)
      BY <3>1 DEF NewId
    <3>4. Pending(c, id, "put") = 0 /\ Pending(c, id, "delete") = 0
      BY <3>3 DEF AuditInv, Audit, CallAudited, OnlyTouchedAudited
    <3>5. Alone(c, r, id)
      BY <3>2, <3>3, DirtyTouched DEF Alone, Touched
    <3>6. ~IsRow(tx[c].dirty[r])
      <4>1. Seen(c, r) = NoRow
        <5>1. ASSUME Seen(c, r) # NoRow PROVE FALSE
          <6>1. id = Seen(c, r).id
            BY <1>3, <5>1 DEF UpsertRow
          <6> QED BY <3>1, <5>1, <6>1, SeenRow DEF NewId, AuditInv
        <5> QED BY <5>1
      <4> QED BY <4>1 DEF Seen, IsRow
    <3> QED BY <3>1, <3>2, <3>4, <3>5, <3>6 DEF Fresh, Total
  <2> QED BY <1>1, <2>1, <2>2 DEF AtUpsert, AuditInv, RowInv, FoundIsolated
<1>10. Touched(c)' = Touched(c) \cup {id}
  <2>1. IsRow(tx'[c].dirty[r]) /\ tx'[c].dirty[r].id = id
    BY <1>3, <1>8
  <2>2. /\ \A w \in tx[c].written : w.secret_id # id => w \in tx'[c].written
        /\ \A w \in tx'[c].written : w.secret_id # id => w \in tx[c].written
    BY <1>4, <1>7
  <2> QED BY <1>7, <1>8, <1>9, <2>1, <2>2, TouchedGrows, ZenonT(80) DEF IsRow
<1>11. WritesAudited(c, r, id, "put")
  BY <1>1, <1>3, <1>7, <1>8, <1>10 DEF WritesAudited
<1>12. Total(c, id, "put")' = n /\ Total(c, id, "delete")' = 0
  <2>1. /\ Total(c, id, "put")' = Total(c, id, "put") + 1
        /\ Total(c, id, "delete")' = Total(c, id, "delete") + 0
    BY <1>1, <1>7, OneMore
  <2> QED BY <1>9, <2>1
<1>13. id \notin tx'[c].dead
  BY <1>7, <1>9 DEF Alone
<1>14. Live(row, Total(c, id, "put")', Total(c, id, "delete")')
  BY <1>3, <1>9, <1>12 DEF Live
<1> QED BY <1>8, <1>9, <1>11, <1>13, <1>14, RowAudit

LEMMA DeleteAudit == ASSUME AuditInv, NEW c \in Call, DeleteRow(c) PROVE Audit'
<1> DEFINE t(r, id) ==
             [tx[c] EXCEPT !.todo = Tail(@), !.snap = 0, !.dirty[r] = NoRow,
                           !.dead = @ \cup {id}, !.written = {v \in @ : v.secret_id # id},
                           !.events = Append(@, EventOf(id, "delete"))]
<1>1. PICK r \in Ref :
        /\ Ready(c, r) /\ Found(c, r) # NoRow /\ tx[c].pc = "exec"
        /\ tx' = [tx EXCEPT ![c] = t(r, Found(c, r).id)]
        /\ UNCHANGED <<secrets, audit_events, next_id>>
  BY DEF DeleteRow, Becomes, tables, EventOf, At
<1>2. Seen(c, r) # NoRow /\ Found(c, r) = Seen(c, r)
  BY <1>1, FoundFree DEF AuditInv
<1>3. PICK id \in Nat : id = Seen(c, r).id
  BY <1>2, SeenAlone
<1>4. tx[c] \in Tx /\ tx \in [Call -> Tx]
  BY DEF AuditInv, RowInv, TypeInv, TypeOK
<1>5. /\ t(r, id).dirty = [tx[c].dirty EXCEPT ![r] = NoRow]
      /\ t(r, id).written = {v \in tx[c].written : v.secret_id # id}
      /\ t(r, id).dead = tx[c].dead \cup {id} /\ t(r, id).pc = tx[c].pc
      /\ t(r, id).events = Append(tx[c].events, EventOf(id, "delete"))
  BY <1>4 DEF Tx
<1> HIDE DEF t
<1>6. /\ tx'[c].dirty = [tx[c].dirty EXCEPT ![r] = NoRow]
      /\ tx'[c].written = {v \in tx[c].written : v.secret_id # id}
      /\ tx'[c].dead = tx[c].dead \cup {id} /\ tx'[c].pc = "exec"
      /\ tx'[c].events = Append(tx[c].events, EventOf(id, "delete"))
      /\ \A d \in Call \ {c} : tx'[d] = tx[d]
  BY <1>1, <1>2, <1>3, <1>4, <1>5
<1>7. /\ tx'[c].dirty[r] = NoRow /\ ~IsRow(tx'[c].dirty[r])
      /\ \A s \in Ref \ {r} : tx'[c].dirty[s] = tx[c].dirty[s]
  BY <1>4, <1>6 DEF Tx, IsRow
<1>8. IsRow(tx[c].dirty[r]) => tx[c].dirty[r].id = id
  BY <1>3 DEF Seen, IsRow
<1>9. Touched(c)' = Touched(c) \cup {id}
  BY <1>6, <1>7, <1>8, TouchedGrows, ZenonT(40)
<1>10. WritesAudited(c, r, id, "delete")
  BY <1>1, <1>6, <1>7, <1>9 DEF WritesAudited
<1>11. Alone(c, r, id) /\ Live(Seen(c, r), Total(c, id, "put"), Total(c, id, "delete"))
  BY <1>2, <1>3, SeenAlone, SeenAudited
<1>12. Gone(Total(c, id, "put")', Total(c, id, "delete")')
  <2>1. /\ Total(c, id, "put")' = Total(c, id, "put") + 0
        /\ Total(c, id, "delete")' = Total(c, id, "delete") + 1
    BY <1>1, <1>6, OneMore
  <2>2. Seen(c, r).current_version \in Nat
    BY <1>2, SeenRow DEF AuditInv, SecretRow
  <2> QED BY <1>11, <2>1, <2>2 DEF Live, Gone
<1> QED BY <1>7, <1>10, <1>11, <1>12, RowAudit, SMTT(30)

LEMMA RevokeAudit == ASSUME AuditInv, NEW c \in Call, RevokeRow(c) PROVE Audit'
<1> DEFINE revoked(row) == [row EXCEPT !.state = "revoked"]
           t(r, row) ==
             [tx[c] EXCEPT !.todo = Tail(@), !.snap = 0,
                           !.found = [id |-> row.id, version |-> row.current_version],
                           !.dirty[r] = revoked(row),
                           !.events = Append(@, EventOf(row.id, "revoke"))]
<1>1. PICK r \in Ref :
        /\ Ready(c, r) /\ Found(c, r) # NoRow /\ tx[c].pc = "exec"
        /\ tx' = [tx EXCEPT ![c] = t(r, Found(c, r))]
        /\ UNCHANGED <<secrets, audit_events, next_id>>
  BY DEF RevokeRow, Becomes, tables, EventOf, At
<1>2. Seen(c, r) # NoRow /\ Found(c, r) = Seen(c, r) /\ Seen(c, r) \in SecretRow
  BY <1>1, FoundFree, SeenRow DEF AuditInv
<1>3. PICK id \in Nat : id = Seen(c, r).id
  BY <1>2, SeenAlone
<1>4. PICK row \in SecretRow :
        /\ row = revoked(Found(c, r)) /\ row.id = id
        /\ row.current_version = Seen(c, r).current_version
  <2>1. /\ revoked(Seen(c, r)) \in SecretRow /\ revoked(Seen(c, r)).id = id
        /\ revoked(Seen(c, r)).current_version = Seen(c, r).current_version
    BY <1>2, <1>3 DEF SecretRow
  <2> HIDE DEF revoked
  <2> QED BY <1>2, <2>1
<1>5. tx[c] \in Tx /\ tx \in [Call -> Tx]
  BY DEF AuditInv, RowInv, TypeInv, TypeOK
<1>6. /\ t(r, Found(c, r)).dirty = [tx[c].dirty EXCEPT ![r] = revoked(Found(c, r))]
      /\ t(r, Found(c, r)).written = tx[c].written
      /\ t(r, Found(c, r)).dead = tx[c].dead /\ t(r, Found(c, r)).pc = tx[c].pc
      /\ t(r, Found(c, r)).events = Append(tx[c].events, EventOf(Found(c, r).id, "revoke"))
  BY <1>5 DEF Tx
<1> HIDE DEF t, revoked
<1>7. /\ tx'[c].dirty = [tx[c].dirty EXCEPT ![r] = row]
      /\ tx'[c].written = tx[c].written /\ tx'[c].dead = tx[c].dead /\ tx'[c].pc = "exec"
      /\ tx'[c].events = Append(tx[c].events, EventOf(id, "revoke"))
      /\ \A d \in Call \ {c} : tx'[d] = tx[d]
  BY <1>1, <1>2, <1>3, <1>4, <1>5, <1>6
<1>8. /\ tx'[c].dirty[r] = row /\ IsRow(row)
      /\ \A s \in Ref \ {r} : tx'[c].dirty[s] = tx[c].dirty[s]
  BY <1>5, <1>7, StoreAssumption DEF Tx, IsRow
<1>9. IsRow(tx[c].dirty[r]) => tx[c].dirty[r].id = id
  BY <1>3 DEF Seen, IsRow
<1>10. Touched(c)' = Touched(c) \cup {id}
  <2>1. IsRow(tx'[c].dirty[r]) /\ tx'[c].dirty[r].id = id
    BY <1>4, <1>8
  <2> QED BY <1>7, <1>8, <1>9, <2>1, TouchedGrows, ZenonT(40) DEF IsRow
<1>11. WritesAudited(c, r, id, "revoke")
  BY <1>1, <1>4, <1>7, <1>8, <1>10 DEF WritesAudited
<1>12. Alone(c, r, id) /\ Live(Seen(c, r), Total(c, id, "put"), Total(c, id, "delete"))
  BY <1>2, <1>3, SeenAlone, SeenAudited
<1>13. Live(row, Total(c, id, "put")', Total(c, id, "delete")')
  <2>1. /\ Total(c, id, "put")' = Total(c, id, "put") + 0
        /\ Total(c, id, "delete")' = Total(c, id, "delete") + 0
    BY <1>1, <1>7, OneMore
  <2>2. Seen(c, r).current_version \in Nat
    BY <1>2, SeenRow DEF AuditInv, SecretRow
  <2> QED BY <1>4, <1>12, <2>1, <2>2 DEF Live
<1>14. id \notin tx'[c].dead
  BY <1>7, <1>12 DEF Alone
<1> QED BY <1>8, <1>11, <1>12, <1>13, <1>14, RowAudit

\* What COMMIT makes of the counts: c's rows of the audit join the committed ones.
LEMMA CommitCounts ==
  ASSUME AuditInv, NEW c \in Call, Commit(c), NEW id, NEW a \in {"put", "delete"}
  PROVE  Audited(id, a)' = Total(c, id, a)
<1>1. PICK ev : /\ audit_events' = audit_events (+) BagOfSeq(ev)
                /\ \/ ev = tx[c].events
                   \/ ev = Append(tx[c].events, EventOf(0, "commit_batch"))
  BY DEF Commit, EventOf
<1>2. tx[c].events \in Seq(Event) /\ EventOf(0, "commit_batch") \in Event
  BY TxFields DEF AuditInv, RowInv, EventOf, Event
<1>3. ev \in Seq(Event)
  BY <1>1, <1>2, SMTT(30)
<1>4. Count(tx[c].events, EventOf(id, a)) \in Nat
  BY <1>2, CountType
<1>5. Count(ev, EventOf(id, a)) = Count(tx[c].events, EventOf(id, a))
  <2>1. EventOf(id, a) # EventOf(0, "commit_batch")
    BY DEF EventOf
  <2>2. Count(Append(tx[c].events, EventOf(0, "commit_batch")), EventOf(id, a))
          = Count(tx[c].events, EventOf(id, a)) + 0
    BY <1>2, <2>1, CountAppend
  <2>3. CASE ev = tx[c].events
    BY <2>3
  <2>4. CASE ev = Append(tx[c].events, EventOf(0, "commit_batch"))
    BY <1>4, <2>2, <2>4
  <2> QED BY <1>1, <2>3, <2>4
<1>6. IsABag(audit_events) /\ IsABag(BagOfSeq(ev))
  BY <1>3, EventsBag DEF AuditInv, RowInv, TypeInv, TypeOK
<1>7. Copies(audit_events', EventOf(id, a))
        = Copies(audit_events, EventOf(id, a)) + Copies(BagOfSeq(ev), EventOf(id, a))
  BY <1>1, <1>6, CopiesOfUnion
<1> QED BY <1>3, <1>5, <1>7, CopiesOfSeq DEF Audited, Total, Pending

LEMMA CommitAudit == ASSUME AuditInv, NEW c \in Call, Commit(c) PROVE Audit'
<1>1. /\ \A r \in Ref : secrets'[r] = Seen(c, r)
      /\ next_id' = next_id /\ tx' = [tx EXCEPT ![c] = Idle]
  BY DEF Commit, CommittedRows, Release, Becomes
<1>2. /\ tx'[c] = Idle /\ \A d \in Call \ {c} : tx'[d] = tx[d]
      /\ RowInv /\ WritesInv(c) /\ CallAudited(c)
  BY <1>1 DEF AuditInv, Audit, RowInv, TypeInv, TypeOK
<1>3. \A id : /\ Audited(id, "put")' = Total(c, id, "put")
              /\ Audited(id, "delete")' = Total(c, id, "delete")
  BY CommitCounts
<1>4. ASSUME NEW id \in Nat, id \notin Touched(c)
      PROVE  /\ Audited(id, "put")' = Audited(id, "put")
             /\ Audited(id, "delete")' = Audited(id, "delete")
             /\ Fresh(id)' <=> Fresh(id)
  <2>1. Pending(c, id, "put") = 0 /\ Pending(c, id, "delete") = 0
    BY <1>2, <1>4 DEF CallAudited, OnlyTouchedAudited
  <2>2. Audited(id, "put") \in Nat /\ Audited(id, "delete") \in Nat
    BY <1>2, CountTypes DEF RowInv
  <2>3. Audited(id, "put")' = Audited(id, "put") /\ Audited(id, "delete")' = Audited(id, "delete")
    BY <1>3, <2>1, <2>2 DEF Total
  <2> QED BY <2>3 DEF Fresh
<1>5. ASSUME NEW id, id \notin Touched(c), Committed(id) PROVE Committed(id)'
  <2>1. PICK r \in Ref : secrets[r] # NoRow /\ secrets[r].id = id
    BY <1>5 DEF Committed
  <2>2. tx[c].dirty[r] = Untouched
    BY <1>2, <1>5, <2>1, DirtyTouched DEF WritesInv, ReplacedAreDead, Touched
  <2> QED BY <1>1, <2>1, <2>2 DEF Seen, Committed
<1>6. CommittedAudited'
  <2>1. ASSUME NEW r \in Ref, secrets'[r] # NoRow, NEW id, id = secrets'[r].id
        PROVE  Live(secrets'[r], Audited(id, "put")', Audited(id, "delete")')
    <3>1. Seen(c, r) = secrets'[r] /\ Seen(c, r) # NoRow /\ Seen(c, r).id = id
      BY <1>1, <2>1
    <3>2. Live(Seen(c, r), Total(c, id, "put"), Total(c, id, "delete"))
      BY <3>1, SeenAudited
    <3> QED BY <1>3, <3>1, <3>2
  <2>2. ASSUME NEW id \in Nat, ~Committed(id)'
        PROVE  Fresh(id)' \/ Gone(Audited(id, "put")', Audited(id, "delete")')
    <3>1. CASE id \in tx[c].dead
      BY <1>2, <1>3, <3>1 DEF CallAudited, DeadAudited
    <3>2. CASE id \in Touched(c) /\ id \notin tx[c].dead
      <4>1. PICK r \in Ref : IsRow(tx[c].dirty[r]) /\ tx[c].dirty[r].id = id
        BY <1>2, <3>2 DEF Touched, WritesInv, WrittenHaveRows
      <4>2. secrets'[r] # NoRow /\ secrets'[r].id = id
        BY <1>1, <4>1 DEF Seen, IsRow
      <4> QED BY <2>2, <4>2 DEF Committed
    <3>3. CASE id \notin Touched(c)
      <4>1. Fresh(id) \/ Gone(Audited(id, "put"), Audited(id, "delete"))
        BY <1>5, <2>2, <3>3 DEF AuditInv, Audit, CommittedAudited
      <4> QED BY <1>4, <3>3, <4>1
    <3> QED BY <3>1, <3>2, <3>3
  <2>3. ASSUME NEW id \in Nat, id >= next_id'
        PROVE  Fresh(id)'
    <3>1. id \notin Touched(c)
      BY <1>1, <1>2, <2>3 DEF WritesInv, TouchedIsolated, RowInv, TypeInv, TypeOK
    <3>2. Fresh(id)
      BY <1>1, <2>3 DEF AuditInv, Audit, CommittedAudited
    <3> QED BY <1>4, <3>1, <3>2
  <2> QED BY <2>1, <2>2, <2>3 DEF CommittedAudited
<1>7. CallAudited(c)'
  <2>1. /\ tx'[c].dirty = [r \in Ref |-> Untouched] /\ tx'[c].written = {}
        /\ tx'[c].dead = {} /\ tx'[c].events = <<>> /\ tx'[c].pc = "idle"
    BY <1>2 DEF Idle
  <2>2. Touched(c)' = {}
    BY <2>1 DEF Touched, IsRow
  <2>3. RowsAudited(c)' /\ DeadAudited(c)' /\ FoundFresh(c)'
    BY <2>1 DEF RowsAudited, DeadAudited, FoundFresh, IsRow
  <2>4. OnlyTouchedAudited(c)' /\ NewAreFresh(c)'
    BY <2>1, <2>2, CountEmpty DEF OnlyTouchedAudited, NewAreFresh, Pending
  <2> QED BY <2>3, <2>4 DEF CallAudited
<1>8. ASSUME NEW d \in Call \ {c} PROVE CallAudited(d)'
  <2>1. CallAudited(d) /\ WritesInv(d) /\ tx'[d] = tx[d] /\ Touched(d) \subseteq Nat
    BY <1>2, TouchedTyped DEF AuditInv, Audit, RowInv
  <2>2. Touched(d)' = Touched(d)
    BY <2>1 DEF Touched
  <2>3. \A id \in Touched(d) : id \notin Touched(c)
    BY <1>2, TouchedDisjoint
  <2>4. \A id, a : Pending(d, id, a)' = Pending(d, id, a)
    BY <2>1 DEF Pending
  <2>5. ASSUME NEW id \in Touched(d)
        PROVE  /\ Total(d, id, "put")' = Total(d, id, "put")
               /\ Total(d, id, "delete")' = Total(d, id, "delete")
    BY <1>4, <2>1, <2>3, <2>4 DEF Total
  <2>6. RowsAudited(d)'
    <3> SUFFICES ASSUME NEW r \in Ref, IsRow(tx[d].dirty[r]), NEW id, id = tx[d].dirty[r].id
                 PROVE  Live(tx[d].dirty[r], Total(d, id, "put")', Total(d, id, "delete")')
      BY <2>1 DEF RowsAudited, IsRow
    <3>1. Live(tx[d].dirty[r], Total(d, id, "put"), Total(d, id, "delete"))
      BY <2>1 DEF CallAudited, RowsAudited
    <3>2. id \in Touched(d)
      BY DirtyTouched
    <3> QED BY <2>5, <3>1, <3>2
  <2>7. DeadAudited(d)'
    BY <2>1, <2>5 DEF CallAudited, DeadAudited, Touched
  <2>8. OnlyTouchedAudited(d)'
    BY <2>1, <2>2, <2>4 DEF CallAudited, OnlyTouchedAudited
  <2>9. NewAreFresh(d)'
    <3> SUFFICES ASSUME NEW id \in Touched(d), ~Committed(id)' PROVE Fresh(id)'
      BY <2>2 DEF NewAreFresh
    <3>1. ~Committed(id)
      BY <1>5, <2>3
    <3> QED BY <1>4, <2>1, <2>3, <3>1 DEF CallAudited, NewAreFresh
  <2>10. FoundFresh(d)'
    <3> SUFFICES ASSUME tx[d].pc = "upsert", tx[d].found.version = 1,
                        NEW id \in Nat, id = tx[d].found.id
                 PROVE  Fresh(id)'
      BY <1>2, <2>1, TxFields DEF FoundFresh, RowInv
    <3>1. id \notin Touched(c)
      BY FirstVersionIsNew DEF HoldsNewId, NewId
    <3> QED BY <1>4, <2>1, <3>1 DEF CallAudited, FoundFresh
  <2> QED BY <2>6, <2>7, <2>8, <2>9, <2>10 DEF CallAudited
<1> QED BY <1>6, <1>7, <1>8 DEF Audit

-----------------------------------------------------------------------------
LEMMA InitAudit == Init => AuditInv
<1> SUFFICES ASSUME Init PROVE Audit
  BY InitRows DEF AuditInv
<1>1. \A id, a : Audited(id, a) = 0
  BY DEF Init, Audited, Copies, BagIn, BagToSet, EmptyBag, SetToBag
<1>2. CommittedAudited
  BY <1>1 DEF Init, CommittedAudited, Fresh
<1>3. ASSUME NEW c \in Call PROVE CallAudited(c)
  <2>1. /\ tx[c].dirty = [r \in Ref |-> Untouched] /\ tx[c].written = {}
        /\ tx[c].dead = {} /\ tx[c].events = <<>> /\ tx[c].pc = "idle"
    BY DEF Init, Idle
  <2>2. RowsAudited(c) /\ DeadAudited(c) /\ FoundFresh(c)
    BY <2>1 DEF RowsAudited, DeadAudited, FoundFresh, IsRow
  <2>3. OnlyTouchedAudited(c) /\ NewAreFresh(c)
    BY <1>1, <2>1, CountEmpty DEF OnlyTouchedAudited, NewAreFresh, Pending, Fresh
  <2> QED BY <2>2, <2>3 DEF CallAudited
<1> QED BY <1>2, <1>3 DEF Audit

LEMMA AuditStep == AuditInv /\ [Next]_vars => AuditInv'
<1> SUFFICES ASSUME AuditInv, [Next]_vars PROVE AuditInv'
  OBVIOUS
<1>1. RowInv'
  BY RowStep DEF AuditInv
<1>2. ASSUME NEW c \in Call, Progress(c) PROVE Audit'
  BY <1>2, ReadQuiet, EndQuiet, QuietAudit, SelectAudit, UpsertAudit, DeleteAudit, RevokeAudit,
     CommitAudit, RewrapAudit DEF Progress, AuditInv
<1>3. Audit'
  BY <1>2, InvokeQuiet, EndQuiet, IdleQuiet, QuietAudit DEF Next, AuditInv
<1> QED BY <1>1, <1>3 DEF AuditInv

\* Whatever calls overlap, are refused, roll back or lose their connection, the
\* audit rows of crates/secrets-postgres are those of the secrets that are there:
\* one put row per version, and one delete row for each secret that is gone.
THEOREM AuditAlwaysTrue == Spec => []AuditMatchesTables
<1>1. AuditInv => AuditMatchesTables
  <2> SUFFICES ASSUME AuditInv PROVE AuditMatchesTables
    OBVIOUS
  <2> DEFINE audited(id, action) ==
               LET event == [secret_id |-> id, action |-> action]
               IN  IF BagIn(event, audit_events) THEN audit_events[event] ELSE 0
             live == {secrets[r].id : r \in {s \in Ref : secrets[s] # NoRow}}
  <2>1. \A id, a : audited(id, a) = Audited(id, a)
    BY DEF Audited, Copies, EventOf
  <2>2. \A id : id \in live <=> Committed(id)
    BY DEF Committed
  <2>3. CommittedAudited /\ VersionsDense /\ next_id \in Nat
    BY DEF AuditInv, Audit, RowInv, TypeInv, TypeOK
  <2> HIDE DEF audited, live
  <2>4. ASSUME NEW id \in 1 .. next_id - 1, id \in live
        PROVE  /\ \A r \in Ref : secrets[r] # NoRow /\ secrets[r].id = id =>
                    audited(id, "put") = secrets[r].current_version
               /\ audited(id, "delete") = 0
    BY <2>1, <2>2, <2>3, <2>4 DEF CommittedAudited, Live, Committed
  <2>5. ASSUME NEW id \in 1 .. next_id - 1, id \notin live
        PROVE  audited(id, "delete") = IF audited(id, "put") > 0 THEN 1 ELSE 0
    <3>1. id \in Nat
      BY <2>3
    <3> QED BY <2>1, <2>2, <2>3, <2>5, <3>1 DEF CommittedAudited, Fresh, Gone
  <2> QED BY <2>4, <2>5 DEF AuditMatchesTables, audited, live
<1> QED BY <1>1, InitAudit, AuditStep, PTL DEF Spec

-----------------------------------------------------------------------------
(***************************************************************************)
(* PostgresStore implements Custody.                                       *)
(*                                                                         *)
(* Nothing a transaction writes is seen before its COMMIT, which puts what *)
(* it laid aside over the tables at once.  So what has to be known at the  *)
(* COMMIT is that this is what its mutations do to the store, in the order *)
(* they were asked for, whatever the store has become in the meantime: the *)
(* mutations it has run explain its rows over every store that agrees with *)
(* the tables on the rows it holds (Explains, Accounted), and no other     *)
(* call changes those.  Every other statement is invisible, or ends a call *)
(* that changed nothing and says so.                                       *)
(***************************************************************************)
\* The natural numbers are well founded: the induction of the lemmas below.
LEMMA LeastOf ==
  ASSUME NEW S \in SUBSET Nat, S # {}
  PROVE  \E m \in S : \A n \in S : m <= n
<1>1. PICK m \in S : \A n \in S : <<n, m>> \notin OpToRel(<, Nat)
  BY NatLessThanWellFounded, WFMin
<1>2. \A n \in S : ~(n < m)
  BY <1>1, Zenon DEF OpToRel
<1> QED BY <1>2

-----------------------------------------------------------------------------
(* The stores a sequence of mutations goes through *)

\* f is the store after each of the first k mutations.
StagesUpTo(f, st, muts, k) ==
  f = [n \in 0 .. k |-> IF n = 0 THEN st ELSE Abstract!ApplyOne(f[n - 1], muts[n])]

\* There is such a function, so CHOOSE in Stages finds it.
LEMMA AfterExists ==
  ASSUME NEW st, NEW muts
  PROVE  \A k \in Nat : \E f : StagesUpTo(f, st, muts, k)
<1> DEFINE without == {k \in Nat : ~ \E f : StagesUpTo(f, st, muts, k)}
<1> SUFFICES ASSUME without # {} PROVE FALSE
  OBVIOUS
<1>1. PICK k \in without : \A n \in without : k <= n
  BY LeastOf
<1>2. CASE k = 0
  <2>1. StagesUpTo([n \in 0 .. 0 |-> st], st, muts, 0)
    BY DEF StagesUpTo
  <2> QED BY <1>1, <1>2, <2>1
<1>3. CASE k # 0
  <2>1. k - 1 \in Nat /\ k - 1 \notin without
    BY <1>1, <1>3
  <2>2. PICK f : StagesUpTo(f, st, muts, k - 1)
    BY <2>1
  <2> DEFINE g == [n \in 0 .. k |-> IF n \in 0 .. k - 1 THEN f[n]
                                    ELSE Abstract!ApplyOne(f[k - 1], muts[k])]
  <2>3. \A n \in 0 .. k :
          g[n] = IF n = 0 THEN st ELSE Abstract!ApplyOne(g[n - 1], muts[n])
    <3> SUFFICES ASSUME NEW n \in 0 .. k
                 PROVE  g[n] = IF n = 0 THEN st ELSE Abstract!ApplyOne(g[n - 1], muts[n])
      OBVIOUS
    <3>1. CASE n \in 0 .. k - 1
      <4>1. f[n] = IF n = 0 THEN st ELSE Abstract!ApplyOne(f[n - 1], muts[n])
        BY <2>2, <3>1 DEF StagesUpTo
      <4>2. n # 0 => g[n - 1] = f[n - 1]
        BY <1>1, <3>1
      <4> QED BY <3>1, <4>1, <4>2
    <3>2. CASE n \notin 0 .. k - 1
      <4>1. n = k /\ g[n - 1] = f[k - 1]
        BY <1>1, <1>3, <3>2
      <4> QED BY <1>3, <3>2, <4>1
    <3> QED BY <3>1, <3>2
  <2> DEFINE h == [n \in 0 .. k |-> IF n = 0 THEN st ELSE Abstract!ApplyOne(g[n - 1], muts[n])]
  <2>4. g = h
    BY <2>3
  <2>5. StagesUpTo(g, st, muts, k)
    BY <2>4 DEF StagesUpTo
  <2> QED BY <1>1, <2>5
<1> QED BY <1>2, <1>3

\* Stages is the function its recursive equation defines.
LEMMA StagesUnfold ==
  ASSUME NEW st, NEW muts, Len(muts) \in Nat
  PROVE  StagesUpTo(Abstract!Stages(st, muts), st, muts, Len(muts))
<1> DEFINE h == CHOOSE f : f = [n \in 0 .. Len(muts) |->
                    IF n = 0 THEN st ELSE Abstract!ApplyOne(f[n - 1], muts[n])]
<1>1. Abstract!Stages(st, muts) = h
  BY Zenon DEF Abstract!Stages
<1>2. \E f : f = [n \in 0 .. Len(muts) |->
                    IF n = 0 THEN st ELSE Abstract!ApplyOne(f[n - 1], muts[n])]
  <2>1. PICK f : StagesUpTo(f, st, muts, Len(muts))
    BY AfterExists
  <2> QED BY <2>1 DEF StagesUpTo
<1>3. h = [n \in 0 .. Len(muts) |-> IF n = 0 THEN st ELSE Abstract!ApplyOne(h[n - 1], muts[n])]
  BY <1>2, Zenon
<1> HIDE DEF h
<1> QED BY <1>1, <1>3 DEF StagesUpTo

\* Stage n is mutation n applied to stage n - 1.
LEMMA StagesAt ==
  ASSUME NEW st, NEW muts, Len(muts) \in Nat
  PROVE  /\ Abstract!Stages(st, muts)[0] = st
         /\ \A n \in 1 .. Len(muts) :
              Abstract!Stages(st, muts)[n] = Abstract!ApplyOne(Abstract!Stages(st, muts)[n - 1], muts[n])
BY StagesUnfold DEF StagesUpTo

\* more is muts and then m.
Extended(muts, m, more) ==
  /\ Len(muts) \in Nat /\ Len(more) = Len(muts) + 1 /\ more[Len(muts) + 1] = m
  /\ \A n \in 1 .. Len(muts) : more[n] = muts[n]

LEMMA AppendExtends ==
  ASSUME NEW T, NEW muts \in Seq(T), NEW m \in T
  PROVE  Extended(muts, m, Append(muts, m)) /\ Append(muts, m) \in Seq(T)
BY DEF Extended

\* One more mutation is one more stage.
LEMMA StagesExtended ==
  ASSUME NEW st, NEW muts, NEW m, NEW more, Extended(muts, m, more)
  PROVE  /\ Abstract!Stages(st, more)[Len(more)]
              = Abstract!ApplyOne(Abstract!Stages(st, more)[Len(muts)], m)
         /\ \A n \in 0 .. Len(muts) : Abstract!Stages(st, more)[n] = Abstract!Stages(st, muts)[n]
<1> DEFINE f == Abstract!Stages(st, muts)
           g == Abstract!Stages(st, more)
           bad == {n \in 0 .. Len(muts) : g[n] # f[n]}
<1>1. /\ Len(more) = Len(muts) + 1 /\ Len(muts) \in Nat /\ Len(more) \in Nat
      /\ more[Len(muts) + 1] = m
      /\ \A n \in 1 .. Len(muts) : more[n] = muts[n]
  BY DEF Extended
<1>2. /\ f[0] = st
      /\ \A n \in 1 .. Len(muts) : f[n] = Abstract!ApplyOne(f[n - 1], muts[n])
  BY <1>1, StagesAt
<1>3. /\ g[0] = st
      /\ \A n \in 1 .. Len(more) : g[n] = Abstract!ApplyOne(g[n - 1], more[n])
  BY <1>1, StagesAt
<1> HIDE DEF f, g
<1>4. bad = {}
  <2> SUFFICES ASSUME bad # {} PROVE FALSE
    OBVIOUS
  <2>1. bad \in SUBSET Nat
    BY <1>1
  <2>2. PICK n \in bad : \A k \in bad : n <= k
    BY <2>1, LeastOf
  <2>3. n \in 1 .. Len(muts) /\ n - 1 \in 0 .. Len(muts) /\ n - 1 \notin bad /\ n \in 1 .. Len(more)
    BY <1>1, <1>2, <1>3, <2>2
  <2>4. g[n - 1] = f[n - 1]
    BY <2>3
  <2>5. g[n] = f[n]
    BY <1>1, <1>2, <1>3, <2>3, <2>4
  <2> QED BY <2>2, <2>5
<1>5. g[Len(more)] = Abstract!ApplyOne(g[Len(muts)], m)
  BY <1>1, <1>3
<1> QED BY <1>4, <1>5 DEF f, g

LEMMA ApplyAllEmpty ==
  ASSUME NEW st
  PROVE  Abstract!AllApply(st, <<>>) /\ Abstract!ApplyAll(st, <<>>) = st
<1>1. Len(<<>>) = 0 /\ DOMAIN <<>> = {}
  OBVIOUS
<1> QED BY <1>1, StagesAt DEF Abstract!AllApply, Abstract!ApplyAll

LEMMA ApplyAllExtended ==
  ASSUME NEW st, NEW muts, NEW m, NEW more, Extended(muts, m, more)
  PROVE  Abstract!ApplyAll(st, more) = Abstract!ApplyOne(Abstract!ApplyAll(st, muts), m)
<1>1. /\ Abstract!Stages(st, more)[Len(more)]
           = Abstract!ApplyOne(Abstract!Stages(st, more)[Len(muts)], m)
      /\ \A n \in 0 .. Len(muts) : Abstract!Stages(st, more)[n] = Abstract!Stages(st, muts)[n]
  BY StagesExtended
<1>2. Len(muts) \in 0 .. Len(muts)
  BY DEF Extended
<1>3. Abstract!Stages(st, more)[Len(muts)] = Abstract!Stages(st, muts)[Len(muts)]
  BY <1>1, <1>2
<1> QED BY <1>1, <1>3 DEF Abstract!ApplyAll

\* A mutation that applies after those before it does so in their sequence.
LEMMA AllApplyAppend ==
  ASSUME NEW st, NEW T, NEW muts \in Seq(T), NEW m \in T,
         Abstract!AllApply(st, muts),
         m.kind = "put" => m.ref \notin MalformedRef,
         Abstract!Applies(Abstract!ApplyAll(st, muts), m)
  PROVE  Abstract!AllApply(st, Append(muts, m))
<1> DEFINE more == Append(muts, m)
<1>1. /\ more \in Seq(T) /\ Len(muts) \in Nat /\ Len(more) = Len(muts) + 1
      /\ more[Len(muts) + 1] = m
      /\ DOMAIN more = 1 .. Len(muts) + 1 /\ DOMAIN muts = 1 .. Len(muts)
  OBVIOUS
<1>2. \A n \in 1 .. Len(muts) : more[n] = muts[n] /\ SubSeq(more, 1, n - 1) = SubSeq(muts, 1, n - 1)
  OBVIOUS
<1>3. SubSeq(more, 1, Len(muts)) = muts
  OBVIOUS
<1> HIDE DEF more
<1> SUFFICES ASSUME NEW n \in 1 .. Len(muts) + 1
             PROVE  /\ more[n].kind = "put" => more[n].ref \notin MalformedRef
                    /\ Abstract!Applies(Abstract!Stages(st, SubSeq(more, 1, n - 1))[n - 1], more[n])
  BY <1>1 DEF Abstract!AllApply, more
<1>4. CASE n \in 1 .. Len(muts)
  <2>1. /\ muts[n].kind = "put" => muts[n].ref \notin MalformedRef
        /\ Abstract!Applies(Abstract!Stages(st, SubSeq(muts, 1, n - 1))[n - 1], muts[n])
    BY <1>1, <1>4, Zenon DEF Abstract!AllApply
  <2> QED BY <1>2, <1>4, <2>1
<1>5. CASE n = Len(muts) + 1
  <2>1. n - 1 = Len(muts)
    BY <1>1, <1>5
  <2> QED BY <1>1, <1>3, <1>5, <2>1 DEF Abstract!ApplyAll
<1> QED BY <1>1, <1>4, <1>5

\* What is left to do loses its head to what is done.
LEMMA MoveHead ==
  ASSUME NEW T, NEW done \in Seq(T), NEW todo \in Seq(T), todo # <<>>
  PROVE  done \o todo = Append(done, Head(todo)) \o Tail(todo)
OBVIOUS

-----------------------------------------------------------------------------
(* The secret a row and its versions stand for *)

\* PlainOf and AbstractStore over any set S of versions, such as those that a
\* transaction would leave.
PlainIn(S, row, n) ==
  (CHOOSE v \in S : v.secret_id = row.id /\ v.version = n).envelope.plain
Values(S, row) == [n \in 1 .. row.current_version |-> PlainIn(S, row, n)]
View(S, row) ==
  IF row = NoRow THEN NoRow
  ELSE [owner |-> row.owner, disclosure |-> row.disclosure, state |-> row.state,
        values |-> Values(S, row)]

\* Each number of an id once, and from 1 on.
Once(S) == \A v, w \in S : SameVersion(v, w) => v = w
Dense(S, row) == VersionsIn(S, row.id) = 1 .. row.current_version

\* T has the versions of an id that S has, with their plaintexts.
Carries(S, T, id) ==
  \A v \in S : v.secret_id = id =>
    \E w \in T : SameVersion(v, w) /\ w.envelope.plain = v.envelope.plain

LEMMA StoreViews ==
  AbstractStore = [r \in Ref |-> View(secret_versions, secrets[r])]
BY DEF AbstractStore, PlainOf, View, Values, PlainIn

\* The one version under a number.
LEMMA PlainOfVersion ==
  ASSUME NEW S, Once(S), NEW row, NEW v \in S, v.secret_id = row.id
  PROVE  PlainIn(S, row, v.version) = v.envelope.plain
<1> DEFINE w == CHOOSE x \in S : x.secret_id = row.id /\ x.version = v.version
<1>1. w \in S /\ w.secret_id = row.id /\ w.version = v.version
  OBVIOUS
<1>2. w = v
  BY <1>1 DEF Once, SameVersion
<1> QED BY <1>2 DEF PlainIn

LEMMA VersionThere ==
  ASSUME NEW S, NEW row, Dense(S, row), NEW n \in 1 .. row.current_version
  PROVE  \E v \in S : v.secret_id = row.id /\ v.version = n
BY DEF Dense, VersionsIn

\* Sets of versions with the same plaintexts are the same secret.
LEMMA ViewCarried ==
  ASSUME NEW S, NEW T, NEW row, Once(S), Once(T),
         row # NoRow => Dense(S, row) /\ Carries(S, T, row.id)
  PROVE  View(T, row) = View(S, row)
<1> SUFFICES ASSUME row # NoRow PROVE View(T, row) = View(S, row)
  BY DEF View
<1>1. ASSUME NEW n \in 1 .. row.current_version
      PROVE  PlainIn(T, row, n) = PlainIn(S, row, n)
  <2>1. PICK v \in S : v.secret_id = row.id /\ v.version = n
    BY VersionThere
  <2>2. PICK w \in T : SameVersion(v, w) /\ w.envelope.plain = v.envelope.plain
    BY <2>1 DEF Carries
  <2>3. PlainIn(S, row, n) = v.envelope.plain
    BY <2>1, PlainOfVersion
  <2>4. w.secret_id = row.id /\ w.version = n
    BY <2>1, <2>2 DEF SameVersion
  <2>5. PlainIn(T, row, n) = w.envelope.plain
    BY <2>4, PlainOfVersion
  <2> QED BY <2>2, <2>3, <2>5
<1>2. Values(T, row) = Values(S, row)
  BY <1>1 DEF Values
<1> QED BY <1>2 DEF View

\* What a transaction would leave holds each version once.
LEMMA CommittedOnce ==
  ASSUME RowInv, NEW c \in Call
  PROVE  Once(CommittedVersions(c)) /\ Once(secret_versions)
BY DEF RowInv, VersionsDense, WritesInv, WrittenOnce, CommittedVersions, Once, SameVersion

LEMMA SeenDense ==
  ASSUME RowInv, NEW c \in Call, NEW r \in Ref, Seen(c, r) # NoRow
  PROVE  Dense(CommittedVersions(c), Seen(c, r))
BY SeenRow DEF Dense

LEMMA DirtySeen ==
  ASSUME NEW c \in Call, NEW r \in Ref, tx[c].dirty[r] # Untouched
  PROVE  Seen(c, r) = tx[c].dirty[r]
BY DEF Seen

\* A reference c has not written is seen as it is committed.
LEMMA UntouchedView ==
  ASSUME RowInv, NEW c \in Call, NEW r \in Ref, tx[c].dirty[r] = Untouched
  PROVE  View(CommittedVersions(c), Seen(c, r)) = AbstractStore[r]
<1>1. Seen(c, r) = secrets[r] /\ AbstractStore[r] = View(secret_versions, secrets[r])
  BY StoreViews DEF Seen
<1>2. ASSUME secrets[r] # NoRow
      PROVE  Dense(secret_versions, secrets[r])
             /\ Carries(secret_versions, CommittedVersions(c), secrets[r].id)
  <2>1. secrets[r].id \notin Touched(c)
    BY <1>2, UntouchedRow
  <2>2. \A v \in secret_versions : v.secret_id = secrets[r].id => v \in CommittedVersions(c)
    BY <2>1, VersionsBeyond
  <2>3. Dense(secret_versions, secrets[r])
    BY <1>2 DEF RowInv, VersionsDense, Dense
  <2> QED BY <2>2, <2>3 DEF Carries, SameVersion
<1>3. View(CommittedVersions(c), secrets[r]) = View(secret_versions, secrets[r])
  BY <1>2, CommittedOnce, ViewCarried
<1> QED BY <1>1, <1>3

-----------------------------------------------------------------------------
(* What views look like *)

LEMMA PlainTyped ==
  ASSUME NEW S, S \subseteq VersionRow, NEW row, Dense(S, row),
         NEW n \in 1 .. row.current_version
  PROVE  PlainIn(S, row, n) \in Value
<1> DEFINE w == CHOOSE x \in S : x.secret_id = row.id /\ x.version = n
<1>1. \E x \in S : x.secret_id = row.id /\ x.version = n
  BY VersionThere
<1>2. w \in VersionRow
  BY <1>1
<1>3. \A v \in VersionRow : v.envelope.plain \in Value
  BY DEF VersionRow, EnvelopeOf
<1> QED BY <1>2, <1>3 DEF PlainIn

LEMMA ViewTyped ==
  ASSUME NEW S, S \subseteq VersionRow, NEW row \in SecretRow, Dense(S, row)
  PROVE  View(S, row) \in Secret /\ View(S, row) # NoRow /\ row # NoRow
<1>1. Values(S, row) \in Seq(Value)
  <2>1. row.current_version \in Nat
    BY DEF SecretRow
  <2>2. \A n \in 1 .. row.current_version : PlainIn(S, row, n) \in Value
    BY PlainTyped
  <2> QED BY <2>1, <2>2 DEF Values
<1>2. row # NoRow
  BY StoreAssumption
<1>3. row.owner \in Owner /\ row.disclosure \in Disclosure /\ row.state \in {"active", "revoked"}
  BY DEF SecretRow
<1>4. View(S, row) \in Secret
  BY <1>1, <1>2, <1>3 DEF View, Secret
<1> QED BY <1>2, <1>4, AbsenceAssumption

LEMMA ViewFields ==
  ASSUME NEW S, NEW row \in SecretRow, row # NoRow
  PROVE  /\ View(S, row).owner = row.owner /\ View(S, row).disclosure = row.disclosure
         /\ View(S, row).state = row.state
         /\ View(S, row).values = Values(S, row)
         /\ Len(View(S, row).values) = row.current_version
<1>1. row.current_version \in Nat
  BY DEF SecretRow
<1>2. Len(Values(S, row)) = row.current_version
  BY <1>1 DEF Values
<1> QED BY <1>2 DEF View

LEMMA CommittedVersionsTyped ==
  ASSUME TypeInv, NEW c \in Call
  PROVE  CommittedVersions(c) \subseteq VersionRow
<1>1. tx[c].written \subseteq VersionRow
  BY TxFields DEF Tx
<1>2. secret_versions \subseteq VersionRow
  BY DEF TypeInv, TypeOK
<1> QED BY <1>1, <1>2 DEF CommittedVersions

\* What a call sees under a reference is there exactly when its view is.
LEMMA SeenView ==
  ASSUME RowInv, NEW c \in Call, NEW r \in Ref
  PROVE  /\ Seen(c, r) = NoRow <=> View(CommittedVersions(c), Seen(c, r)) = NoRow
         /\ Seen(c, r) # NoRow => View(CommittedVersions(c), Seen(c, r)) \in Secret
<1>1. CASE Seen(c, r) = NoRow
  BY <1>1 DEF View
<1>2. CASE Seen(c, r) # NoRow
  <2>1. Seen(c, r) \in SecretRow
    BY <1>2, SeenRow
  <2>2. View(CommittedVersions(c), Seen(c, r)) \in Secret
        /\ View(CommittedVersions(c), Seen(c, r)) # NoRow
    BY <1>2, <2>1, SeenDense, CommittedVersionsTyped, ViewTyped DEF RowInv
  <2> QED BY <1>2, <2>2
<1> QED BY <1>1, <1>2

-----------------------------------------------------------------------------
(* What the statements of a transaction have done so far *)

Stores == [Ref -> Secret \cup {NoRow}]

\* A secret, or its absence, after a mutation.
Outcome(before, m) ==
  CASE m.kind = "put" ->
         [owner |-> m.owner, disclosure |-> m.disclosure, state |-> "active",
          values |-> IF before = NoRow THEN <<m.value>> ELSE Append(before.values, m.value)]
    [] m.kind = "delete" -> NoRow
    [] m.kind = "revoke" -> [before EXCEPT !.state = "revoked"]

LEMMA ApplyOneOutcome ==
  ASSUME NEW st, NEW m
  PROVE  Abstract!ApplyOne(st, m) = [st EXCEPT ![m.ref] = Outcome(st[m.ref], m)]
BY DEF Abstract!ApplyOne, Outcome

\* st with what c has written over it.
Laid(c, st) ==
  [r \in Ref |-> IF tx[c].dirty[r] = Untouched THEN st[r]
                 ELSE View(CommittedVersions(c), tx[c].dirty[r])]
\* st agrees with the tables on the rows that c has written, and so holds.
Agrees(c, st) == \A r \in Ref : tx[c].dirty[r] # Untouched => st[r] = AbstractStore[r]

\* Whatever others commit meanwhile, the statements done apply and have this effect.
Explains(c, done) ==
  \A st \in Stores : Agrees(c, st) =>
    Abstract!AllApply(st, done) /\ Abstract!ApplyAll(st, done) = Laid(c, st)

LEMMA LaidSeen ==
  ASSUME RowInv, NEW c \in Call, NEW r \in Ref, NEW st, st[r] = AbstractStore[r]
  PROVE  Laid(c, st)[r] = View(CommittedVersions(c), Seen(c, r))
<1>1. CASE tx[c].dirty[r] = Untouched
  BY <1>1, UntouchedView DEF Laid
<1>2. CASE tx[c].dirty[r] # Untouched
  BY <1>2, DirtySeen DEF Laid
<1> QED BY <1>1, <1>2

\* A call that has written nothing has nothing to explain.
LEMMA NothingDone ==
  ASSUME NEW c \in Call, tx[c].dirty = [r \in Ref |-> Untouched]
  PROVE  Explains(c, <<>>)
<1> SUFFICES ASSUME NEW st \in Stores PROVE Laid(c, st) = st
  BY ApplyAllEmpty DEF Explains
<1> QED BY DEF Laid, Stores

\* A statement of c runs the mutation m at the head of its list, on r.
VersionOf(row) == IF row = NoRow THEN 0 ELSE row.current_version
Wrote(c, r, m) ==
  /\ r = m.ref
  /\ \A s \in Ref \ {r} :
       /\ tx'[c].dirty[s] = tx[c].dirty[s]
       /\ tx[c].dirty[s] # Untouched =>
            View(CommittedVersions(c)', tx[c].dirty[s]) = View(CommittedVersions(c), tx[c].dirty[s])
  /\ tx'[c].dirty[r] # Untouched
  /\ View(CommittedVersions(c)', tx'[c].dirty[r])
       = Outcome(View(CommittedVersions(c), Seen(c, r)), m)
  /\ m.kind # "put" => Seen(c, r) # NoRow
  /\ UNCHANGED <<secrets, secret_versions>>

LEMMA SameStore ==
  ASSUME UNCHANGED <<secrets, secret_versions>>
  PROVE  AbstractStore' = AbstractStore
BY DEF AbstractStore, PlainOf

\* Then what it had run, and m, explain what it would commit now.
LEMMA WroteExplains ==
  ASSUME RowInv, NEW c \in Call, NEW r \in Ref, NEW m \in Mutation, NEW done \in Seq(Mutation),
         Explains(c, done), Wrote(c, r, m), m.kind = "put" => r \notin MalformedRef
  PROVE  Explains(c, Append(done, m))'
<1> DEFINE more == Append(done, m)
<1>1. Extended(done, m, more)
  BY AppendExtends
<1> SUFFICES ASSUME NEW st \in Stores, Agrees(c, st)'
             PROVE  /\ Abstract!AllApply(st, more)
                    /\ Abstract!ApplyAll(st, more) = Laid(c, st)'
  BY DEF Explains
<1>2. AbstractStore' = AbstractStore
  BY SameStore DEF Wrote
<1>3. Agrees(c, st) /\ st[r] = AbstractStore[r]
  BY <1>2 DEF Agrees, Wrote
<1>4. Abstract!AllApply(st, done) /\ Abstract!ApplyAll(st, done) = Laid(c, st)
  BY <1>3 DEF Explains
<1>5. Laid(c, st)[r] = View(CommittedVersions(c), Seen(c, r))
  BY <1>3, LaidSeen
<1>6. Abstract!AllApply(st, more)
  <2>1. Abstract!Applies(Laid(c, st), m)
    BY <1>5, SeenView DEF Wrote, Abstract!Applies
  <2> QED BY <1>4, <2>1, AllApplyAppend DEF Wrote
<1>7. Abstract!ApplyAll(st, more) = [Laid(c, st) EXCEPT ![r] = Outcome(Laid(c, st)[r], m)]
  <2>1. Abstract!ApplyAll(st, more) = Abstract!ApplyOne(Laid(c, st), m)
    BY <1>1, <1>4, ApplyAllExtended
  <2> QED BY <2>1, ApplyOneOutcome DEF Wrote
<1>8. [Laid(c, st) EXCEPT ![r] = Outcome(Laid(c, st)[r], m)] = Laid(c, st)'
  <2> DEFINE now == [Laid(c, st) EXCEPT ![r] = Outcome(Laid(c, st)[r], m)]
             nxt == [s \in Ref |-> IF tx'[c].dirty[s] = Untouched THEN st[s]
                                   ELSE View(CommittedVersions(c)', tx'[c].dirty[s])]
  <2>1. DOMAIN now = Ref /\ now = [s \in Ref |-> now[s]]
    BY DEF Laid
  <2>2. now[r] = nxt[r]
    BY <1>5 DEF Laid, Wrote
  <2>3. ASSUME NEW s \in Ref \ {r} PROVE now[s] = nxt[s]
    BY DEF Laid, Wrote
  <2>4. now = nxt
    BY <2>1, <2>2, <2>3
  <2> QED BY <2>4 DEF Laid
<1> QED BY <1>6, <1>7, <1>8

-----------------------------------------------------------------------------
(* put_tx, delete_tx and revoke do what the mutation says *)

LEMMA CommittedOnceNext ==
  ASSUME RowInv', NEW c \in Call
  PROVE  Once(CommittedVersions(c)') /\ Once(secret_versions')
BY DEF RowInv, VersionsDense, WritesInv, WrittenOnce, CommittedVersions, Once, SameVersion

LEMMA OtherRowsKept ==
  ASSUME RowInv, RowInv', NEW c \in Call, NEW r \in Ref, NEW id,
         \A v \in CommittedVersions(c) : v.secret_id # id => v \in CommittedVersions(c)',
         \A s \in Ref : IsRow(tx[c].dirty[s]) /\ tx[c].dirty[s].id = id => s = r
  PROVE  \A s \in Ref \ {r} : tx[c].dirty[s] # Untouched =>
           View(CommittedVersions(c)', tx[c].dirty[s]) = View(CommittedVersions(c), tx[c].dirty[s])
<1> SUFFICES ASSUME NEW s \in Ref \ {r}, tx[c].dirty[s] # Untouched
             PROVE  View(CommittedVersions(c)', tx[c].dirty[s])
                      = View(CommittedVersions(c), tx[c].dirty[s])
  OBVIOUS
<1>1. Once(CommittedVersions(c)) /\ Once(CommittedVersions(c)')
  BY CommittedOnce, CommittedOnceNext
<1>2. ASSUME tx[c].dirty[s] # NoRow
      PROVE  /\ Dense(CommittedVersions(c), tx[c].dirty[s])
             /\ Carries(CommittedVersions(c), CommittedVersions(c)', tx[c].dirty[s].id)
  <2>1. Seen(c, s) = tx[c].dirty[s] /\ tx[c].dirty[s].id # id
    BY <1>2, DirtySeen DEF IsRow
  <2>2. Dense(CommittedVersions(c), tx[c].dirty[s])
    BY <1>2, <2>1, SeenDense
  <2> QED BY <2>1, <2>2 DEF Carries, SameVersion
<1> QED BY <1>1, <1>2, ViewCarried

\* f is g and then x.
Grown(f, g, n, x) ==
  /\ f = [k \in 1 .. n + 1 |-> f[k]] /\ f[n + 1] = x
  /\ g = [k \in 1 .. n |-> g[k]] /\ \A k \in 1 .. n : f[k] = g[k]
LEMMA GrownByOne ==
  ASSUME NEW n \in Nat, NEW f, NEW g, NEW x, Grown(f, g, n, x)
  PROVE  f = Append(g, x)
<1>1. Len(g) = n
  BY DEF Grown
<1> DEFINE h == [k \in 1 .. n + 1 |-> IF k <= n THEN g[k] ELSE x]
<1>2. Append(g, x) = h
  BY <1>1 DEF Grown
<1>3. \A k \in 1 .. n + 1 : h[k] = f[k]
  <2>1. f[n + 1] = x /\ \A k \in 1 .. n : f[k] = g[k]
    BY Zenon DEF Grown
  <2> QED BY <2>1
<1>4. f = [k \in 1 .. n + 1 |-> f[k]]
  BY DEF Grown
<1>5. h = f
  BY <1>3, <1>4
<1> QED BY <1>2, <1>5

\* One version more is one value more.
LEMMA OneMoreValue ==
  ASSUME NEW S, NEW T, NEW v, NEW row, NEW old, NEW n \in Nat,
         Once(S), Once(T), v \in T, \A w \in S : w \in T,
         v.secret_id = row.id, v.version = n + 1, old.id = row.id,
         row.current_version = n + 1, old.current_version = n,
         VersionsIn(S, row.id) = 1 .. n
  PROVE  Values(T, row) = Append(Values(S, old), v.envelope.plain)
<1>1. PlainIn(T, row, n + 1) = v.envelope.plain
  <2>1. PlainIn(T, row, v.version) = v.envelope.plain
    BY PlainOfVersion
  <2> QED BY <2>1
<1>2. ASSUME NEW k \in 1 .. n
      PROVE  PlainIn(T, row, k) = PlainIn(S, old, k)
  <2>1. PICK w \in S : w.secret_id = row.id /\ w.version = k
    BY DEF VersionsIn
  <2>2. w \in T /\ w.secret_id = old.id
    BY <2>1
  <2>3. PlainIn(T, row, w.version) = w.envelope.plain
    BY <2>1, <2>2, PlainOfVersion
  <2>4. PlainIn(S, old, w.version) = w.envelope.plain
    BY <2>2, PlainOfVersion
  <2> QED BY <2>1, <2>3, <2>4
<1> DEFINE f == [k \in 1 .. n + 1 |-> PlainIn(T, row, k)]
           g == [k \in 1 .. n |-> PlainIn(S, old, k)]
<1>3. f[n + 1] = v.envelope.plain
  BY <1>1
<1>4. \A k \in 1 .. n : f[k] = g[k]
  <2> SUFFICES ASSUME NEW k \in 1 .. n PROVE f[k] = g[k]
    OBVIOUS
  <2>1. k \in 1 .. n + 1
    OBVIOUS
  <2>2. f[k] = PlainIn(T, row, k) /\ g[k] = PlainIn(S, old, k)
    BY <2>1
  <2> HIDE DEF f, g
  <2> QED BY <1>2, <2>2
<1>5. Grown(f, g, n, v.envelope.plain)
  BY <1>3, <1>4 DEF Grown
<1> HIDE DEF f, g
<1>6. f = Append(g, v.envelope.plain)
  BY <1>5, GrownByOne
<1> QED BY <1>6 DEF f, g, Values

\* The statement was the one at the head of the list, and the call goes on.
Ran(c) ==
  /\ tx[c].pc \in {"exec", "upsert"} /\ tx'[c].pc = "exec"
  /\ tx[c].todo # <<>> /\ tx'[c].todo = Tail(tx[c].todo)
  /\ tx'[c].req = tx[c].req /\ tx'[c].began = tx[c].began
  /\ \A d \in Call \ {c} : tx'[d] = tx[d]
  /\ UNCHANGED <<secrets, secret_versions, prepared_transactions, batch_lock>>

LEMMA UpsertWrote ==
  ASSUME RowInv, RowInv', NEW c \in Call, Upsert(c)
  PROVE  /\ Ran(c) /\ tx[c].pc = "upsert" /\ Head(tx[c].todo).kind = "put"
         /\ \E r \in Ref : /\ Wrote(c, r, Head(tx[c].todo))
                           /\ tx'[c].found.version = VersionOf(tx'[c].dirty[r])
<1> DEFINE event == [secret_id |-> tx[c].found.id, action |-> "put"]
           t(r, row, v) ==
             [tx[c] EXCEPT !.pc = "exec", !.todo = Tail(@), !.dirty[r] = row,
                           !.written = @ \cup {v}, !.events = Append(@, event)]
<1>1. PICK r \in Ref :
        /\ AtUpsert(c, r) /\ ForeignKeyHolds(c, r) /\ PrimaryKeyFree(c, r)
        /\ tx' = [tx EXCEPT ![c] = t(r, UpsertRow(c, r), NewVersion(c, r))]
        /\ UNCHANGED <<secrets, secret_versions, prepared_transactions, batch_lock>>
  BY DEF Upsert, Becomes, tables
<1>2. PICK row, v : row = UpsertRow(c, r) /\ v = NewVersion(c, r)
  OBVIOUS
<1>3. tx[c] \in Tx /\ tx \in [Call -> Tx]
  BY DEF RowInv, TypeInv, TypeOK
<1>4. /\ t(r, row, v).dirty = [tx[c].dirty EXCEPT ![r] = row]
      /\ t(r, row, v).written = tx[c].written \cup {v} /\ t(r, row, v).dead = tx[c].dead
      /\ t(r, row, v).pc = "exec" /\ t(r, row, v).todo = Tail(tx[c].todo)
      /\ t(r, row, v).req = tx[c].req /\ t(r, row, v).began = tx[c].began
      /\ t(r, row, v).found = tx[c].found
  BY <1>3 DEF Tx
<1> HIDE DEF t
<1>5. /\ tx'[c].dirty = [tx[c].dirty EXCEPT ![r] = row]
      /\ tx'[c].written = tx[c].written \cup {v} /\ tx'[c].dead = tx[c].dead
      /\ tx'[c].pc = "exec" /\ tx'[c].todo = Tail(tx[c].todo)
      /\ tx'[c].req = tx[c].req /\ tx'[c].began = tx[c].began /\ tx'[c].found = tx[c].found
      /\ \A d \in Call \ {c} : tx'[d] = tx[d]
  BY <1>1, <1>2, <1>3, <1>4
<1>6. tx[c].pc = "upsert" /\ tx[c].todo # <<>> /\ Head(tx[c].todo) \in PutMutation
      /\ Head(tx[c].todo).ref = r
  BY <1>1, TxFields DEF AtUpsert, RowInv, AtStatement
<1>7. Ran(c)
  BY <1>1, <1>5, <1>6 DEF Ran
<1>8. PICK m \in PutMutation : m = Head(tx[c].todo)
  BY <1>6
<1>9. m.kind = "put" /\ m.ref = r
  BY <1>6, <1>8 DEF PutMutation
<1>10. PICK id, n \in Nat : id = tx[c].found.id /\ n = tx[c].found.version
  BY TxFields DEF RowInv
<1>11. /\ row \in SecretRow /\ row # NoRow /\ row # Untouched
       /\ row.id = id /\ row.current_version = n
       /\ row.owner = m.owner /\ row.disclosure = m.disclosure /\ row.state = "active"
  <2>1. /\ row.id = id /\ row.current_version = n
        /\ row.owner = m.owner /\ row.disclosure = m.disclosure /\ row.state = "active"
    BY <1>1, <1>2, <1>8, <1>10 DEF ForeignKeyHolds, UpsertRow
  <2>2. row \in SecretRow
    BY <1>1, <1>2, UpsertRowTyped DEF RowInv
  <2> QED BY <2>1, <2>2, StoreAssumption
<1>12. v.secret_id = id /\ v.version = n /\ v.envelope.plain = m.value
  BY <1>2, <1>8, <1>10 DEF NewVersion, seal
<1>13. /\ tx'[c].dirty[r] = row
       /\ \A s \in Ref \ {r} : tx'[c].dirty[s] = tx[c].dirty[s]
  BY <1>3, <1>5 DEF Tx
<1>14. CommittedVersions(c)' = CommittedVersions(c) \cup {v}
  <2>1. ~\E w \in secret_versions \cup tx[c].written : SameVersion(w, v)
    BY <1>1, <1>2 DEF PrimaryKeyFree
  <2> QED BY <1>1, <1>5, <2>1 DEF CommittedVersions, SameVersion
<1>15. \/ HoldsRow(c, r)
       \/ HoldsNewId(c) /\ Seen(c, r) = NoRow
  <2>1. ASSUME HoldsNewId(c), Seen(c, r) # NoRow PROVE FALSE
    <3>1. id = Seen(c, r).id
      BY <1>2, <1>11, <2>1 DEF UpsertRow
    <3> QED BY <1>10, <2>1, <3>1, SeenRow DEF HoldsNewId, NewId
  <2> QED BY <1>1, <2>1 DEF AtUpsert, RowInv, FoundIsolated
<1>16. \A s \in Ref : IsRow(tx[c].dirty[s]) /\ tx[c].dirty[s].id = id => s = r
  <2>1. CASE HoldsRow(c, r)
    <3>1. Seen(c, r) # NoRow /\ id = Seen(c, r).id
      BY <1>10, <2>1 DEF HoldsRow
    <3> QED BY <3>1, SeenRow
  <2>2. CASE HoldsNewId(c)
    BY <1>10, <2>2, DirtyTouched DEF HoldsNewId, NewId
  <2> QED BY <1>15, <2>1, <2>2
<1>17. \A s \in Ref \ {r} : tx[c].dirty[s] # Untouched =>
         View(CommittedVersions(c)', tx[c].dirty[s]) = View(CommittedVersions(c), tx[c].dirty[s])
  <2>1. \A w \in CommittedVersions(c) : w.secret_id # id => w \in CommittedVersions(c)'
    BY <1>14
  <2> QED BY <1>16, <2>1, OtherRowsKept
<1>18. View(CommittedVersions(c)', row) = Outcome(View(CommittedVersions(c), Seen(c, r)), m)
  <2> DEFINE S == CommittedVersions(c)
             T == CommittedVersions(c)'
  <2>1. Once(S) /\ Once(T)
    BY CommittedOnce, CommittedOnceNext
  <2>2. View(T, row) = [owner |-> m.owner, disclosure |-> m.disclosure, state |-> "active",
                        values |-> Values(T, row)]
    BY <1>11 DEF View
  <2>4. v \in T /\ \A w \in S : w \in T
    BY <1>14
  <2> HIDE DEF S, T
  <2>3. Values(T, row)
          = IF View(S, Seen(c, r)) = NoRow THEN <<m.value>>
            ELSE Append(View(S, Seen(c, r)).values, m.value)
    <3>1. CASE Seen(c, r) # NoRow
      <4>1. PICK old \in SecretRow : old = Seen(c, r)
        BY <3>1, SeenRow
      <4>2. old.id = id /\ n = old.current_version + 1 /\ old.current_version \in Nat
        BY <1>10, <1>15, <3>1, <4>1 DEF HoldsRow, SecretRow
      <4>3. VersionsIn(S, row.id) = 1 .. old.current_version
        BY <1>11, <3>1, <4>1, <4>2, SeenRow DEF S
      <4>4. PICK k \in Nat : k = old.current_version /\ n = k + 1
        BY <4>2
      <4>5. /\ v.secret_id = row.id /\ v.version = k + 1 /\ old.id = row.id
            /\ row.current_version = k + 1 /\ old.current_version = k
            /\ VersionsIn(S, row.id) = 1 .. k
        BY <1>11, <1>12, <4>2, <4>3, <4>4
      <4>6. Values(T, row) = Append(Values(S, old), v.envelope.plain)
        BY <2>1, <2>4, <4>5, OneMoreValue
      <4>7. View(S, old) # NoRow /\ View(S, old).values = Values(S, old)
        BY <3>1, <4>1, SeenView, ViewFields DEF S
      <4> QED BY <1>12, <4>1, <4>6, <4>7
    <3>2. CASE Seen(c, r) = NoRow
      <4>1. n = 1 /\ v \in T
        BY <1>10, <1>15, <2>4, <3>2 DEF HoldsRow, HoldsNewId
      <4>2. PlainIn(T, row, v.version) = v.envelope.plain
        BY <1>11, <1>12, <2>1, <4>1, PlainOfVersion
      <4>3. Values(T, row) = <<m.value>>
        BY <1>11, <1>12, <4>1, <4>2 DEF Values
      <4>4. View(S, Seen(c, r)) = NoRow
        BY <3>2 DEF View
      <4> QED BY <4>3, <4>4
    <3> QED BY <3>1, <3>2
  <2> QED BY <1>9, <2>2, <2>3 DEF Outcome, S, T
<1>19. Wrote(c, r, m)
  BY <1>1, <1>9, <1>11, <1>13, <1>17, <1>18 DEF Wrote
<1>20. tx'[c].found.version = VersionOf(tx'[c].dirty[r])
  BY <1>5, <1>10, <1>11, <1>13 DEF VersionOf
<1> QED BY <1>6, <1>7, <1>8, <1>9, <1>19, <1>20

LEMMA DeleteWrote ==
  ASSUME RowInv, RowInv', NEW c \in Call, DeleteRow(c)
  PROVE  /\ Ran(c) /\ Head(tx[c].todo).kind = "delete" /\ tx'[c].found = tx[c].found
         /\ \E r \in Ref : Wrote(c, r, Head(tx[c].todo)) /\ tx'[c].dirty[r] = NoRow
<1> DEFINE t(r, id) ==
             [tx[c] EXCEPT !.todo = Tail(@), !.snap = 0, !.dirty[r] = NoRow,
                           !.dead = @ \cup {id}, !.written = {v \in @ : v.secret_id # id},
                           !.events = Append(@, [secret_id |-> id, action |-> "delete"])]
<1>1. PICK r \in Ref :
        /\ At(c, r, "delete") /\ Ready(c, r) /\ Found(c, r) # NoRow
        /\ tx' = [tx EXCEPT ![c] = t(r, Found(c, r).id)]
        /\ UNCHANGED <<secrets, secret_versions, prepared_transactions, batch_lock>>
  BY DEF DeleteRow, Becomes, tables
<1>2. PICK id : id = Found(c, r).id
  OBVIOUS
<1>3. tx[c] \in Tx /\ tx \in [Call -> Tx]
  BY DEF RowInv, TypeInv, TypeOK
<1>4. /\ t(r, id).dirty = [tx[c].dirty EXCEPT ![r] = NoRow]
      /\ t(r, id).written = {v \in tx[c].written : v.secret_id # id}
      /\ t(r, id).dead = tx[c].dead \cup {id}
      /\ t(r, id).pc = tx[c].pc /\ t(r, id).todo = Tail(tx[c].todo)
      /\ t(r, id).req = tx[c].req /\ t(r, id).began = tx[c].began
      /\ t(r, id).found = tx[c].found
  BY <1>3 DEF Tx
<1> HIDE DEF t
<1>5. /\ tx'[c].dirty = [tx[c].dirty EXCEPT ![r] = NoRow]
      /\ tx'[c].written = {v \in tx[c].written : v.secret_id # id}
      /\ tx'[c].dead = tx[c].dead \cup {id}
      /\ tx'[c].pc = tx[c].pc /\ tx'[c].todo = Tail(tx[c].todo)
      /\ tx'[c].req = tx[c].req /\ tx'[c].began = tx[c].began /\ tx'[c].found = tx[c].found
      /\ \A d \in Call \ {c} : tx'[d] = tx[d]
  BY <1>1, <1>2, <1>3, <1>4
<1>6. Ran(c)
  BY <1>1, <1>5 DEF Ran, At
<1>7. PICK m : m = Head(tx[c].todo) /\ m.kind = "delete" /\ m.ref = r
  BY <1>1 DEF At
<1>8. Seen(c, r) # NoRow /\ id = Seen(c, r).id
  BY <1>1, <1>2, FoundFree
<1>9. /\ tx'[c].dirty[r] = NoRow
      /\ \A s \in Ref \ {r} : tx'[c].dirty[s] = tx[c].dirty[s]
  BY <1>3, <1>5 DEF Tx
<1>10. \A s \in Ref \ {r} : tx[c].dirty[s] # Untouched =>
         View(CommittedVersions(c)', tx[c].dirty[s]) = View(CommittedVersions(c), tx[c].dirty[s])
  <2>1. \A w \in CommittedVersions(c) : w.secret_id # id => w \in CommittedVersions(c)'
    BY <1>1, <1>5 DEF CommittedVersions
  <2>2. \A s \in Ref : IsRow(tx[c].dirty[s]) /\ tx[c].dirty[s].id = id => s = r
    BY <1>8, SeenRow
  <2> QED BY <2>1, <2>2, OtherRowsKept
<1>11. View(CommittedVersions(c)', NoRow) = Outcome(View(CommittedVersions(c), Seen(c, r)), m)
  BY <1>7 DEF View, Outcome
<1>12. Wrote(c, r, m)
  BY <1>1, <1>7, <1>8, <1>9, <1>10, <1>11, StoreAssumption DEF Wrote
<1> QED BY <1>5, <1>6, <1>7, <1>9, <1>12

LEMMA RevokeWrote ==
  ASSUME RowInv, RowInv', NEW c \in Call, RevokeRow(c)
  PROVE  /\ Ran(c) /\ Head(tx[c].todo).kind = "revoke"
         /\ \E r \in Ref : /\ Wrote(c, r, Head(tx[c].todo))
                           /\ tx'[c].found.version = VersionOf(tx'[c].dirty[r])
<1> DEFINE revoked(row) == [row EXCEPT !.state = "revoked"]
           t(r, row) ==
             [tx[c] EXCEPT !.todo = Tail(@), !.snap = 0,
                           !.found = [id |-> row.id, version |-> row.current_version],
                           !.dirty[r] = revoked(row),
                           !.events = Append(@, [secret_id |-> row.id, action |-> "revoke"])]
<1>1. PICK r \in Ref :
        /\ At(c, r, "revoke") /\ Ready(c, r) /\ Found(c, r) # NoRow
        /\ tx' = [tx EXCEPT ![c] = t(r, Found(c, r))]
        /\ UNCHANGED <<secrets, secret_versions, prepared_transactions, batch_lock>>
  BY DEF RevokeRow, Becomes, tables
<1>2. PICK old \in SecretRow : old = Found(c, r) /\ old = Seen(c, r) /\ old # NoRow
  BY <1>1, FoundFree, SeenRow
<1>3. PICK row :
        /\ row = revoked(old) /\ row \in SecretRow /\ row.id = old.id
        /\ row.current_version = old.current_version /\ row.owner = old.owner
        /\ row.disclosure = old.disclosure /\ row.state = "revoked"
  <2>1. /\ revoked(old) \in SecretRow /\ revoked(old).id = old.id
        /\ revoked(old).current_version = old.current_version /\ revoked(old).owner = old.owner
        /\ revoked(old).disclosure = old.disclosure /\ revoked(old).state = "revoked"
    BY <1>2 DEF SecretRow
  <2> HIDE DEF revoked
  <2> QED BY <2>1
<1>4. tx[c] \in Tx /\ tx \in [Call -> Tx]
  BY DEF RowInv, TypeInv, TypeOK
<1>5. /\ t(r, old).dirty = [tx[c].dirty EXCEPT ![r] = revoked(old)]
      /\ t(r, old).written = tx[c].written /\ t(r, old).dead = tx[c].dead
      /\ t(r, old).pc = tx[c].pc /\ t(r, old).todo = Tail(tx[c].todo)
      /\ t(r, old).req = tx[c].req /\ t(r, old).began = tx[c].began
      /\ t(r, old).found.version = old.current_version
  BY <1>4 DEF Tx
<1> HIDE DEF t, revoked
<1>6. /\ tx'[c].dirty = [tx[c].dirty EXCEPT ![r] = row]
      /\ tx'[c].written = tx[c].written /\ tx'[c].dead = tx[c].dead
      /\ tx'[c].pc = tx[c].pc /\ tx'[c].todo = Tail(tx[c].todo)
      /\ tx'[c].req = tx[c].req /\ tx'[c].began = tx[c].began
      /\ tx'[c].found.version = old.current_version
      /\ \A d \in Call \ {c} : tx'[d] = tx[d]
  BY <1>1, <1>2, <1>3, <1>4, <1>5
<1>7. Ran(c)
  BY <1>1, <1>6 DEF Ran, At
<1>8. PICK m : m = Head(tx[c].todo) /\ m.kind = "revoke" /\ m.ref = r
  BY <1>1 DEF At
<1>9. /\ tx'[c].dirty[r] = row /\ row # NoRow /\ row # Untouched
      /\ \A s \in Ref \ {r} : tx'[c].dirty[s] = tx[c].dirty[s]
  BY <1>3, <1>4, <1>6, StoreAssumption DEF Tx
<1>10. CommittedVersions(c)' = CommittedVersions(c)
  BY <1>1, <1>6 DEF CommittedVersions
<1>11. View(CommittedVersions(c), row) = [View(CommittedVersions(c), old) EXCEPT !.state = "revoked"]
  <2>1. Values(CommittedVersions(c), row) = Values(CommittedVersions(c), old)
    BY <1>3 DEF Values, PlainIn
  <2>2. /\ View(CommittedVersions(c), row)
             = [owner |-> old.owner, disclosure |-> old.disclosure, state |-> "revoked",
                values |-> Values(CommittedVersions(c), row)]
        /\ View(CommittedVersions(c), old)
             = [owner |-> old.owner, disclosure |-> old.disclosure, state |-> old.state,
                values |-> Values(CommittedVersions(c), old)]
    BY <1>2, <1>3, <1>9, Zenon DEF View
  <2> QED BY <2>1, <2>2
<1>12. Wrote(c, r, m)
  <2>1. View(CommittedVersions(c), row) = Outcome(View(CommittedVersions(c), Seen(c, r)), m)
    BY <1>2, <1>8, <1>11 DEF Outcome
  <2> QED BY <1>1, <1>2, <1>8, <1>9, <1>10, <2>1 DEF Wrote
<1>13. tx'[c].found.version = VersionOf(tx'[c].dirty[r])
  BY <1>3, <1>6, <1>9 DEF VersionOf
<1> QED BY <1>7, <1>8, <1>12, <1>13

-----------------------------------------------------------------------------
(* What the invariant says of each call *)

\* The mutations a transaction is to run.
Source(c) ==
  IF tx[c].req.op = "commit" THEN prepared_transactions[tx[c].req.batch].envelope.plain.muts
  ELSE tx[c].req.muts
InTransaction(c) == tx[c].pc \in {"exec", "upsert"}

\* What the transaction has run and what it still has to run are its mutations,
\* and what it has run explains what it would commit.
Accounted(c) ==
  InTransaction(c) =>
    \E done \in Seq(Mutation) : Source(c) = done \o tx[c].todo /\ Explains(c, done)
\* put, delete and revoke: before their one statement, or after it with the
\* version they will answer.
NotYet(c, m) == tx[c].todo = <<m>> /\ (m.kind = "delete" => tx[c].found.version = 0)
Already(c, m) ==
  /\ tx[c].todo = <<>> /\ tx[c].dirty[m.ref] # Untouched
  /\ tx[c].found.version = VersionOf(tx[c].dirty[m.ref])
SingleCall(c) ==
  InTransaction(c) /\ tx[c].req.op # "commit" =>
    \E m \in Mutation : /\ tx[c].req.muts = <<m>> /\ m.kind = tx[c].req.op
                        /\ NotYet(c, m) \/ Already(c, m)
\* put_tx has checked the reference it waits on or inserts under.
PutValid(c) == tx[c].pc = "upsert" => Head(tx[c].todo).ref \notin MalformedRef
IdleEmpty(c) == tx[c].pc = "idle" => tx[c].req = NoRequest
\* prepare has checked the batch it inserts.
InsertValid(c) ==
  tx[c].pc = "insert" => tx[c].req.muts # <<>> /\ Abstract!SameTenant(tx[c].req)
\* Only the commit of a batch and reseal_batches lock it, and those that
\* reseal_batches deletes had expired when its transaction began.
LockedBatches(c) ==
  \A b \in Batch : batch_lock[b] = c =>
    \/ InTransaction(c)
    \/ /\ tx[c].pc = "resealing"
       /\ prepared_transactions[b] # NoRow => prepared_transactions[b].expires_at <= tx[c].began

\* The inductive invariant.
CallInv(c) ==
  /\ Accounted(c) /\ SingleCall(c) /\ PutValid(c)
  /\ IdleEmpty(c) /\ InsertValid(c) /\ LockedBatches(c)
RefInv == SealedInv /\ BatchInv /\ \A c \in Call : CallInv(c)

-----------------------------------------------------------------------------
(* A step of one call leaves the others what they have *)

\* The secrets that d has written stay as they are, in the tables and in what d
\* would commit.
KeepsView(d) ==
  \A r \in Ref : tx[d].dirty[r] # Untouched =>
    /\ AbstractStore'[r] = AbstractStore[r]
    /\ View(CommittedVersions(d)', tx[d].dirty[r]) = View(CommittedVersions(d), tx[d].dirty[r])

\* So what d has run still explains what it would commit.
LEMMA ExplainsKept ==
  ASSUME NEW d \in Call, tx'[d].dirty = tx[d].dirty, KeepsView(d),
         NEW done, Explains(d, done)
  PROVE  Explains(d, done)'
<1> SUFFICES ASSUME NEW st \in Stores, Agrees(d, st)'
             PROVE  Abstract!AllApply(st, done) /\ Abstract!ApplyAll(st, done) = Laid(d, st)'
  BY DEF Explains
<1>1. Agrees(d, st)
  BY DEF Agrees, KeepsView
<1>2. Laid(d, st)' = Laid(d, st)
  BY DEF Laid, KeepsView
<1> QED BY <1>1, <1>2 DEF Explains

\* Nothing is written to the tables.
LEMMA SameTables ==
  ASSUME UNCHANGED <<secrets, secret_versions>>, NEW d \in Call,
         tx'[d].written = tx[d].written, tx'[d].dead = tx[d].dead
  PROVE  KeepsView(d)
<1>1. AbstractStore' = AbstractStore
  BY SameStore
<1>2. CommittedVersions(d)' = CommittedVersions(d)
  BY DEF CommittedVersions
<1> QED BY <1>1, <1>2 DEF KeepsView

\* rewrap_all replaces envelopes, not plaintexts.
SamePlains ==
  \A v \in secret_versions :
    \E w \in secret_versions' : SameVersion(v, w) /\ w.envelope.plain = v.envelope.plain

LEMMA RewrapPlains ==
  ASSUME RowInv, NEW c \in Call, RewrapVersions(c)
  PROVE  SamePlains /\ UNCHANGED secrets /\ \A d \in Call \ {c} : tx'[d] = tx[d]
<1>1. Selected(c) \subseteq secret_versions /\ secret_versions \subseteq VersionRow
  BY DEF Selected, RowInv, TypeInv, TypeOK
<1>2. ASSUME NEW v \in Selected(c)
      PROVE  SameVersion(v, Rewrapped(c, v)) /\ Rewrapped(c, v).envelope.plain = v.envelope.plain
  BY <1>1 DEF Rewrapped, SameVersion, VersionRow, reseal, seal
<1>3. secret_versions' = (secret_versions \ Selected(c)) \cup {Rewrapped(c, v) : v \in Selected(c)}
      /\ UNCHANGED secrets
  BY DEF RewrapVersions
<1>4. SamePlains
  <2> SUFFICES ASSUME NEW v \in secret_versions
               PROVE  \E w \in secret_versions' : SameVersion(v, w) /\ w.envelope.plain = v.envelope.plain
    BY DEF SamePlains
  <2>1. CASE v \in Selected(c)
    BY <1>2, <1>3, <2>1
  <2>2. CASE v \notin Selected(c)
    BY <1>3, <2>2 DEF SameVersion
  <2> QED BY <2>1, <2>2
<1>5. PICK t : tx' = [tx EXCEPT ![c] = t]
  BY DEF RewrapVersions, Becomes
<1> QED BY <1>3, <1>4, <1>5 DEF RowInv, TypeInv, TypeOK

LEMMA RewrapStore ==
  ASSUME RowInv, RowInv', SamePlains, UNCHANGED secrets
  PROVE  AbstractStore' = AbstractStore
<1>1. Once(secret_versions) /\ Once(secret_versions')
  BY DEF RowInv, VersionsDense, Once
<1>2. ASSUME NEW r \in Ref
      PROVE  View(secret_versions', secrets'[r]) = View(secret_versions, secrets[r])
  <2>1. ASSUME secrets[r] # NoRow
        PROVE  Dense(secret_versions, secrets[r])
               /\ Carries(secret_versions, secret_versions', secrets[r].id)
    BY <2>1 DEF RowInv, VersionsDense, Dense, SamePlains, Carries
  <2>2. View(secret_versions', secrets[r]) = View(secret_versions, secrets[r])
    BY <1>1, <2>1, ViewCarried
  <2> QED BY <2>2
<1> QED BY <1>2 DEF AbstractStore, PlainOf, View, Values, PlainIn

LEMMA RewrapViews ==
  ASSUME RowInv, RowInv', SamePlains, UNCHANGED secrets, NEW d \in Call, tx'[d] = tx[d]
  PROVE  KeepsView(d)
<1>1. AbstractStore' = AbstractStore
  BY RewrapStore
<1>2. Once(CommittedVersions(d)) /\ Once(CommittedVersions(d)')
  BY CommittedOnce, CommittedOnceNext
<1>3. ASSUME NEW id PROVE Carries(CommittedVersions(d), CommittedVersions(d)', id)
  <2> SUFFICES ASSUME NEW v \in CommittedVersions(d)
               PROVE  \E w \in CommittedVersions(d)' :
                         SameVersion(v, w) /\ w.envelope.plain = v.envelope.plain
    BY DEF Carries
  <2>1. CASE v \in tx[d].written
    BY <2>1 DEF CommittedVersions, SameVersion
  <2>2. CASE v \in secret_versions /\ v.secret_id \notin tx[d].dead
             /\ ~\E x \in tx[d].written : SameVersion(v, x)
    BY <2>2 DEF CommittedVersions, SameVersion, SamePlains
  <2> QED BY <2>1, <2>2 DEF CommittedVersions
<1>4. ASSUME NEW r \in Ref, tx[d].dirty[r] # Untouched
      PROVE  View(CommittedVersions(d)', tx[d].dirty[r]) = View(CommittedVersions(d), tx[d].dirty[r])
  <2>1. Seen(d, r) = tx[d].dirty[r]
    BY <1>4, DirtySeen
  <2>2. tx[d].dirty[r] # NoRow => Dense(CommittedVersions(d), tx[d].dirty[r])
    BY <2>1, SeenDense
  <2> QED BY <1>2, <1>3, <2>2, ViewCarried
<1> QED BY <1>1, <1>4 DEF KeepsView

-----------------------------------------------------------------------------
(* COMMIT *)

LEMMA StoreViewsNext ==
  AbstractStore' = [r \in Ref |-> View(secret_versions', secrets'[r])]
BY DEF AbstractStore, PlainOf, View, Values, PlainIn

\* COMMIT lays what the transaction has written over the store.
LEMMA CommitLays ==
  ASSUME RowInv, NEW c \in Call, Commit(c)
  PROVE  AbstractStore' = Laid(c, AbstractStore)
<1>1. secrets' = CommittedRows(c) /\ secret_versions' = CommittedVersions(c)
  BY DEF Commit
<1>2. PICK st : st = AbstractStore
  OBVIOUS
<1>3. ASSUME NEW r \in Ref
      PROVE  View(secret_versions', secrets'[r]) = Laid(c, st)[r]
  <2>1. secrets'[r] = Seen(c, r)
    BY <1>1 DEF CommittedRows
  <2>2. st[r] = AbstractStore[r]
    BY <1>2
  <2>3. Laid(c, st)[r] = View(CommittedVersions(c), Seen(c, r))
    BY <2>2, LaidSeen
  <2> QED BY <1>1, <2>1, <2>3
<1>4. Laid(c, st) = [r \in Ref |-> Laid(c, st)[r]]
  BY DEF Laid
<1>5. AbstractStore' = Laid(c, st)
  BY <1>3, <1>4, StoreViewsNext
<1> QED BY <1>2, <1>5

\* The rows another transaction has locked are not c's to write.
LEMMA CommitViews ==
  ASSUME RowInv, RowInv', NEW c \in Call, NEW d \in Call \ {c}, Commit(c)
  PROVE  KeepsView(d)
<1>1. secrets' = CommittedRows(c) /\ secret_versions' = CommittedVersions(c)
      /\ tx'[d] = tx[d]
  BY DEF Commit, Release, Becomes, RowInv, TypeInv, TypeOK
<1>2. Once(CommittedVersions(d)) /\ Once(CommittedVersions(d)')
  BY CommittedOnce, CommittedOnceNext
<1>3. ASSUME NEW r \in Ref, tx[d].dirty[r] # Untouched
      PROVE  AbstractStore'[r] = AbstractStore[r]
  <2>1. row_lock[r] = d
    BY <1>3 DEF RowInv, WritesInv, WritesBehindLocks
  <2>2. tx[c].dirty[r] = Untouched
    BY <2>1 DEF RowInv, WritesInv, WritesBehindLocks
  <2>3. AbstractStore' = Laid(c, AbstractStore)
    BY CommitLays
  <2> QED BY <2>2, <2>3 DEF Laid
<1>4. ASSUME NEW r \in Ref, tx[d].dirty[r] # Untouched
      PROVE  View(CommittedVersions(d)', tx[d].dirty[r]) = View(CommittedVersions(d), tx[d].dirty[r])
  <2>1. Seen(d, r) = tx[d].dirty[r]
    BY <1>4, DirtySeen
  <2>2. ASSUME tx[d].dirty[r] # NoRow
        PROVE  /\ Dense(CommittedVersions(d), tx[d].dirty[r])
               /\ Carries(CommittedVersions(d), CommittedVersions(d)', tx[d].dirty[r].id)
    <3>1. Dense(CommittedVersions(d), tx[d].dirty[r])
      BY <2>1, <2>2, SeenDense
    <3>2. PICK id : id = tx[d].dirty[r].id
      OBVIOUS
    <3>3. id \in Touched(d)
      BY <1>4, <2>2, <3>2, DirtyTouched DEF IsRow
    <3>4. id \notin Touched(c)
      BY <3>3, TouchedDisjoint
    <3>5. \A v \in CommittedVersions(d) : v.secret_id = id => v \in CommittedVersions(d)'
      <4> SUFFICES ASSUME NEW v \in CommittedVersions(d), v.secret_id = id
                   PROVE  v \in CommittedVersions(d)'
        OBVIOUS
      <4>1. v \in CommittedVersions(c) <=> v \in secret_versions
        BY <3>4, VersionsBeyond
      <4> QED BY <1>1, <4>1 DEF CommittedVersions
    <3> QED BY <3>1, <3>2, <3>5 DEF Carries, SameVersion
  <2> QED BY <1>2, <2>2, ViewCarried
<1> QED BY <1>3, <1>4 DEF KeepsView

-----------------------------------------------------------------------------
(* What a step leaves to the other calls *)

SameBatch(b, d) ==
  /\ batch_lock'[b] = d <=> batch_lock[b] = d
  /\ batch_lock[b] = d => prepared_transactions'[b] = prepared_transactions[b]
LeftTo(d) == tx'[d] = tx[d] /\ KeepsView(d) /\ \A b \in Batch : SameBatch(b, d)

\* What is left to d keeps the invariant of d.
LEMMA LeftInv ==
  ASSUME BatchInv, NEW d \in Call, LeftTo(d), CallInv(d)
  PROVE  CallInv(d)'
<1>1. tx'[d] = tx[d]
  BY DEF LeftTo
<1>2. ASSUME InTransaction(d)
      PROVE  Source(d)' = Source(d)
  <2>1. CASE tx[d].req.op = "commit"
    <3>1. tx[d].req.batch \in Batch /\ batch_lock[tx[d].req.batch] = d
      BY <1>2, <2>1, BatchOfCommit DEF BatchInv, HoldsBatch, InTransaction
    <3>2. prepared_transactions'[tx[d].req.batch] = prepared_transactions[tx[d].req.batch]
      BY <3>1 DEF LeftTo, SameBatch
    <3> QED BY <1>1, <2>1, <3>2 DEF Source
  <2>2. CASE tx[d].req.op # "commit"
    BY <1>1, <2>2 DEF Source
  <2> QED BY <2>1, <2>2
<1>3. Accounted(d)'
  <2> SUFFICES ASSUME InTransaction(d)
               PROVE  \E done \in Seq(Mutation) :
                         Source(d)' = done \o tx'[d].todo /\ Explains(d, done)'
    BY <1>1 DEF Accounted, InTransaction
  <2>1. PICK done \in Seq(Mutation) : Source(d) = done \o tx[d].todo /\ Explains(d, done)
    BY DEF CallInv, Accounted
  <2>2. Explains(d, done)'
    BY <1>1, <2>1, ExplainsKept DEF LeftTo
  <2> QED BY <1>1, <1>2, <2>1, <2>2
<1>4. SingleCall(d)' /\ PutValid(d)' /\ IdleEmpty(d)' /\ InsertValid(d)'
  <2>1. SingleCall(d) /\ PutValid(d) /\ IdleEmpty(d) /\ InsertValid(d)
    BY DEF CallInv
  <2>2. SingleCall(d)'
    BY <1>1, <2>1 DEF SingleCall, InTransaction, NotYet, Already
  <2>3. PutValid(d)' /\ IdleEmpty(d)'
    BY <1>1, <2>1 DEF PutValid, IdleEmpty
  <2>4. InsertValid(d)'
    BY <1>1, <2>1 DEF InsertValid, Abstract!SameTenant
  <2> QED BY <2>2, <2>3, <2>4
<1>5. LockedBatches(d)'
  BY <1>1 DEF CallInv, LockedBatches, InTransaction, LeftTo, SameBatch
<1> QED BY <1>3, <1>4, <1>5 DEF CallInv

\* The rows of batches that others hold stay, with their locks.
LEMMA BatchesLeft ==
  ASSUME BatchInv, NEW c \in Call, Invoke(c) \/ Progress(c) \/ Lose(c),
         NEW d \in Call \ {c}, NEW b \in Batch
  PROVE  SameBatch(b, d)
<1>1. /\ batch_lock \in [Batch -> Call \cup {Nobody}] /\ c # Nobody /\ d # Nobody
      /\ prepared_transactions \in [Batch -> BatchRow \cup {NoRow}]
  BY StoreAssumption DEF BatchInv, TypeInv, TypeOK
<1>2. CASE UNCHANGED <<prepared_transactions, batch_lock>>
  BY <1>2 DEF SameBatch
<1>3. ASSUME Release(c), UNCHANGED prepared_transactions
      PROVE  SameBatch(b, d)
  BY <1>1, <1>3 DEF SameBatch, Release
<1>4. CASE Invoke(c) \/ Block(c) \/ SelectForUpdate(c) \/ Upsert(c) \/ DeleteRow(c) \/ RevokeRow(c)
           \/ Begin(c) \/ SelectVersions(c) \/ LockVersions(c) \/ RewrapVersions(c)
  BY <1>2, <1>4 DEF Invoke, Block, SelectForUpdate, Upsert, DeleteRow, RevokeRow, Begin,
       SelectVersions, LockVersions, RewrapVersions, tables, locks
<1>5. CASE \/ RefuseReference(c) \/ UpsertRefused(c) \/ RowMissing(c) \/ RefuseBatch(c)
           \/ RefuseCommit(c) \/ RewrapFails(c) \/ ResealFails(c) \/ DeadlockAbort(c)
           \/ Lose(c) \/ Get(c)
  BY <1>3, <1>5 DEF RefuseReference, UpsertRefused, RowMissing, RefuseBatch, RefuseCommit,
       RewrapFails, ResealFails, DeadlockAbort, Rollback, Lose, Get, tables
<1>6. CASE Prepare(c) \/ DropExpired(c) \/ Abort(c) \/ Commit(c)
  <2>1. ASSUME batch_lock[b] = d
        PROVE  prepared_transactions'[b] = prepared_transactions[b]
    <3>1. CASE Prepare(c)
      BY <1>1, <2>1, <3>1, SMTT(30) DEF Prepare, HeldByOther
    <3>2. CASE DropExpired(c)
      BY <1>1, <2>1, <3>2 DEF DropExpired, HeldByOther
    <3>3. CASE Abort(c)
      BY <1>1, <2>1, <3>3 DEF Abort, HeldByOther
    <3>4. CASE Commit(c)
      <4>1. CASE tx[c].req.op = "commit"
        <5>1. batch_lock[tx[c].req.batch] = c
          BY <3>4, <4>1 DEF Commit, BatchInv, HoldsBatch
        <5> QED BY <2>1, <3>4, <5>1 DEF Commit
      <4>2. CASE tx[c].req.op # "commit"
        BY <3>4, <4>2 DEF Commit
      <4> QED BY <4>1, <4>2
    <3> QED BY <1>6, <3>1, <3>2, <3>3, <3>4
  <2>2. Release(c)
    BY <1>6 DEF Prepare, DropExpired, Abort, Commit
  <2> QED BY <1>1, <2>1, <2>2 DEF SameBatch, Release
<1>7. CASE ResealBatches(c)
  <2>1. ASSUME batch_lock[b] = d
        PROVE  prepared_transactions'[b] = prepared_transactions[b]
    <3>1. b \notin tx[c].held
      BY <1>1, <1>7, <2>1 DEF ResealBatches, AtReseal, HeldByOther
    <3>2. b \notin ToReseal(c)
      BY <3>1 DEF ToReseal
    <3> QED BY <1>7, <2>1, <3>2 DEF ResealBatches
  <2>2. Release(c)
    BY <1>7 DEF ResealBatches
  <2> QED BY <1>1, <2>1, <2>2 DEF SameBatch, Release
<1>8. CASE TakeBatch(c)
  <2>1. /\ batch_lock' = [batch_lock EXCEPT ![tx[c].req.batch] = c] /\ ~HeldByOther(c, tx[c].req.batch)
        /\ UNCHANGED prepared_transactions
    BY <1>8 DEF TakeBatch, tables
  <2> QED BY <1>1, <2>1 DEF SameBatch, HeldByOther
<1>9. CASE Purge(c)
  <2>1. batch_lock[b] = d => HeldByOther(c, b)
    BY <1>1 DEF HeldByOther
  <2> QED BY <1>9, <2>1 DEF SameBatch, Purge, locks
<1>10. CASE SelectBatches(c)
  <2>1. batch_lock[b] = d => HeldByOther(c, b)
    BY <1>1 DEF HeldByOther
  <2> QED BY <1>10, <2>1 DEF SameBatch, SelectBatches, tables
<1> QED BY <1>4, <1>5, <1>6, <1>7, <1>8, <1>9, <1>10 DEF Progress

LEMMA IdleBatches ==
  ASSUME BatchInv, RewriteExpiry \/ Tick \/ UNCHANGED vars, NEW d \in Call, NEW b \in Batch
  PROVE  SameBatch(b, d)
<1>1. UNCHANGED batch_lock /\ d # Nobody
  BY StoreAssumption DEF RewriteExpiry, Tick, vars, locks
<1>2. CASE RewriteExpiry
  BY <1>1, <1>2 DEF RewriteExpiry, BatchInv, TypeInv, TypeOK, SameBatch
<1>3. CASE Tick \/ UNCHANGED vars
  BY <1>1, <1>3 DEF Tick, vars, tables, SameBatch
<1> QED BY <1>2, <1>3

\* A step of c is a step of no other call.
LEMMA OnlyCall ==
  ASSUME TypeInv, NEW c \in Call, Invoke(c) \/ Progress(c) \/ Lose(c), NEW d \in Call \ {c}
  PROVE  tx'[d] = tx[d]
<1>1. tx \in [Call -> Tx]
  BY DEF TypeInv, TypeOK
<1>2. ASSUME \E t : Becomes(c, t)
      PROVE  tx'[d] = tx[d]
  <2>1. PICK t : tx' = [tx EXCEPT ![c] = t]
    BY <1>2 DEF Becomes
  <2> QED BY <1>1, <2>1
<1>3. CASE \/ Invoke(c) \/ Block(c) \/ SelectForUpdate(c) \/ Upsert(c) \/ DeleteRow(c) \/ RevokeRow(c)
  BY <1>2, <1>3, Zenon DEF Invoke, Start, Block, SelectForUpdate, Upsert, DeleteRow, RevokeRow
<1>4. CASE \/ Purge(c) \/ Begin(c) \/ TakeBatch(c) \/ SelectVersions(c) \/ LockVersions(c)
           \/ RewrapVersions(c) \/ SelectBatches(c)
  BY <1>2, <1>4, Zenon DEF Purge, Begin, TakeBatch, SelectVersions, LockVersions, RewrapVersions,
       SelectBatches
<1>5. CASE \/ RefuseReference(c) \/ UpsertRefused(c) \/ RowMissing(c) \/ RefuseBatch(c)
           \/ RefuseCommit(c) \/ RewrapFails(c) \/ ResealFails(c) \/ DeadlockAbort(c)
  BY <1>2, <1>5, Zenon DEF RefuseReference, UpsertRefused, RowMissing, RefuseBatch, RefuseCommit,
       RewrapFails, ResealFails, DeadlockAbort, Rollback, Release
<1>6. CASE Lose(c) \/ Get(c) \/ Prepare(c) \/ DropExpired(c) \/ Abort(c) \/ ResealBatches(c) \/ Commit(c)
  BY <1>2, <1>6, Zenon DEF Lose, Get, Prepare, DropExpired, Abort, ResealBatches, Commit, Release
<1> QED BY <1>3, <1>4, <1>5, <1>6 DEF Progress

LEMMA OthersLeft ==
  ASSUME RowInv, RowInv', BatchInv, NEW c \in Call, Invoke(c) \/ Progress(c) \/ Lose(c),
         NEW d \in Call \ {c}
  PROVE  LeftTo(d)
<1>1. tx'[d] = tx[d]
  BY OnlyCall DEF RowInv
<1>2. KeepsView(d)
  <2>1. ASSUME UNCHANGED <<secrets, secret_versions>> PROVE KeepsView(d)
    BY <1>1, <2>1, SameTables
  <2>2. ASSUME Quiet PROVE KeepsView(d)
    BY <2>1, <2>2 DEF Quiet
  <2>3. CASE Commit(c)
    BY <2>3, CommitViews
  <2>4. CASE RewrapVersions(c)
    BY <1>1, <2>4, RewrapPlains, RewrapViews
  <2>5. CASE SelectForUpdate(c) \/ Upsert(c) \/ DeleteRow(c) \/ RevokeRow(c)
    BY <2>1, <2>5 DEF SelectForUpdate, Upsert, DeleteRow, RevokeRow, tables
  <2>6. CASE Invoke(c)
    BY <2>2, <2>6, InvokeQuiet
  <2>7. CASE \/ Block(c) \/ Purge(c) \/ Begin(c) \/ TakeBatch(c) \/ SelectVersions(c)
             \/ LockVersions(c) \/ SelectBatches(c)
    BY <2>2, <2>7, ReadQuiet
  <2>8. CASE \/ RefuseReference(c) \/ UpsertRefused(c) \/ RowMissing(c) \/ RefuseBatch(c)
             \/ RefuseCommit(c) \/ RewrapFails(c) \/ ResealFails(c) \/ DeadlockAbort(c)
             \/ Lose(c) \/ Get(c) \/ Prepare(c) \/ DropExpired(c) \/ Abort(c) \/ ResealBatches(c)
    BY <2>2, <2>8, EndQuiet
  <2> QED BY <2>3, <2>4, <2>5, <2>6, <2>7, <2>8 DEF Progress
<1>3. \A b \in Batch : SameBatch(b, d)
  BY BatchesLeft
<1> QED BY <1>1, <1>2, <1>3 DEF LeftTo

-----------------------------------------------------------------------------
(* The step's own call *)

\* A call that ends holds nothing and has nothing to account for.
LEMMA EndInv ==
  ASSUME TypeInv, NEW c \in Call, Release(c)
  PROVE  CallInv(c)'
<1>1. tx'[c] = Idle
  BY DEF Release, Becomes, TypeInv, TypeOK
<1>2. tx'[c].pc = "idle" /\ tx'[c].req = NoRequest
  BY <1>1 DEF Idle
<1>3. \A b \in Batch : batch_lock'[b] # c
  BY StoreAssumption DEF Release
<1>4. Accounted(c)' /\ SingleCall(c)' /\ LockedBatches(c)'
  BY <1>2, <1>3 DEF Accounted, SingleCall, LockedBatches, InTransaction
<1>5. PutValid(c)' /\ IdleEmpty(c)' /\ InsertValid(c)'
  BY <1>2 DEF PutValid, IdleEmpty, InsertValid
<1> QED BY <1>4, <1>5 DEF CallInv

LEMMA EndsRelease ==
  ASSUME NEW c \in Call,
         \/ RefuseReference(c) \/ UpsertRefused(c) \/ RowMissing(c) \/ RefuseBatch(c)
         \/ RefuseCommit(c) \/ RewrapFails(c) \/ ResealFails(c) \/ DeadlockAbort(c)
         \/ Lose(c) \/ Get(c) \/ Prepare(c) \/ DropExpired(c) \/ Abort(c) \/ ResealBatches(c)
         \/ Commit(c)
  PROVE  Release(c)
BY Zenon DEF RefuseReference, UpsertRefused, RowMissing, RefuseBatch, RefuseCommit, RewrapFails,
       ResealFails, DeadlockAbort, Rollback, Lose, Get, Prepare, DropExpired, Abort,
       ResealBatches, Commit

LEMMA NothingDoneNext ==
  ASSUME NEW c \in Call, tx'[c].dirty = [r \in Ref |-> Untouched]
  PROVE  Explains(c, <<>>)'
<1> SUFFICES ASSUME NEW st \in Stores PROVE Laid(c, st)' = st
  BY ApplyAllEmpty DEF Explains
<1> QED BY DEF Laid, Stores

\* A call that is in no transaction on rows, and at no reseal, holds no batch.
LEMMA NoBatchHeld ==
  ASSUME NEW c \in Call, CallInv(c), ~InTransaction(c), tx[c].pc # "resealing",
         NEW b \in Batch
  PROVE  batch_lock[b] # c
BY DEF CallInv, LockedBatches

\* What is left of the invariant outside of transactions on rows.
LEMMA OutsideInv ==
  ASSUME NEW c \in Call, CallInv(c), ~InTransaction(c), tx[c].pc # "resealing",
         tx'[c].pc \notin {"idle", "exec", "upsert", "insert", "resealing"},
         UNCHANGED batch_lock
  PROVE  CallInv(c)'
<1>1. Accounted(c)' /\ SingleCall(c)' /\ PutValid(c)' /\ IdleEmpty(c)' /\ InsertValid(c)'
  BY DEF Accounted, SingleCall, PutValid, IdleEmpty, InsertValid, InTransaction
<1>2. LockedBatches(c)'
  BY NoBatchHeld DEF LockedBatches
<1> QED BY <1>1, <1>2 DEF CallInv

\* A transaction on rows, after a step of its call.
LEMMA InsideInv ==
  ASSUME NEW c \in Call, tx'[c].pc \in {"exec", "upsert"},
         Accounted(c)', SingleCall(c)', PutValid(c)'
  PROVE  CallInv(c)'
<1>1. IdleEmpty(c)' /\ InsertValid(c)' /\ LockedBatches(c)'
  BY DEF IdleEmpty, InsertValid, LockedBatches, InTransaction
<1> QED BY <1>1 DEF CallInv

LEMMA InvokeInv ==
  ASSUME RowInv, NEW c \in Call, CallInv(c), Invoke(c)
  PROVE  CallInv(c)'
<1> DEFINE t(pc, rq, todo) ==
             [Idle EXCEPT !.pc = pc, !.req = rq, !.began = clock, !.todo = todo]
           muts(rq) == IF rq.op \in {"put", "delete", "revoke"} THEN rq.muts ELSE <<>>
<1>1. PICK rq \in Requests :
        /\ tx' = [tx EXCEPT ![c] = t(First(rq.op), rq, muts(rq))]
        /\ tx[c].pc = "idle" /\ UNCHANGED batch_lock
  BY DEF Invoke, Start, Becomes, locks
<1>2. rq \in Request
  BY StoreAssumption
<1>3. PICK pc, todo : pc = First(rq.op) /\ todo = muts(rq)
  OBVIOUS
<1>4. /\ t(pc, rq, todo).pc = pc /\ t(pc, rq, todo).req = rq /\ t(pc, rq, todo).todo = todo
      /\ t(pc, rq, todo).found.version = 0 /\ t(pc, rq, todo).dirty = [r \in Ref |-> Untouched]
  BY DEF Idle
<1>5. tx \in [Call -> Tx]
  BY DEF RowInv, TypeInv, TypeOK
<1>6. /\ todo = muts(rq)
      /\ rq.op \in {"put", "delete", "revoke"} => todo = rq.muts
  BY <1>3
<1> HIDE DEF t, muts
<1>7. /\ tx'[c].pc = pc /\ tx'[c].req = rq /\ tx'[c].todo = todo
      /\ tx'[c].found.version = 0 /\ tx'[c].dirty = [r \in Ref |-> Untouched]
  BY <1>1, <1>3, <1>4, <1>5
<1>8. CASE rq.op \in {"put", "delete", "revoke"}
  <2>1. PICK m \in Mutation : rq.muts = <<m>> /\ m.kind = rq.op
    BY <1>2, <1>8, RequestOps
  <2>2. pc = "exec" /\ rq.op # "commit"
    BY <1>3, <1>8 DEF First
  <2>3. Source(c)' = <<m>> /\ tx'[c].todo = <<m>>
    BY <1>6, <1>7, <1>8, <2>1, <2>2 DEF Source
  <2>4. Accounted(c)'
    <3>1. <<m>> = <<>> \o <<m>> /\ <<>> \in Seq(Mutation)
      BY <2>1
    <3>2. Explains(c, <<>>)'
      BY <1>7, NothingDoneNext
    <3> QED BY <2>3, <3>1, <3>2 DEF Accounted
  <2>5. SingleCall(c)'
    BY <1>7, <2>1, <2>3 DEF SingleCall, NotYet
  <2>6. PutValid(c)'
    BY <1>7, <2>2 DEF PutValid
  <2> QED BY <1>7, <2>2, <2>4, <2>5, <2>6, InsideInv
<1>9. CASE rq.op \notin {"put", "delete", "revoke"}
  <2>1. pc \in {"purge", "get", "abort", "rewrap"}
    BY <1>2, <1>3, <1>9, RequestOps DEF First
  <2>2. ~InTransaction(c)
    BY <1>1 DEF InTransaction
  <2> QED BY <1>1, <1>7, <2>1, <2>2, OutsideInv
<1> QED BY <1>8, <1>9

LEMMA PurgeInv ==
  ASSUME RowInv, NEW c \in Call, CallInv(c), Purge(c)
  PROVE  CallInv(c)'
<1>1. PICK pc : /\ pc = (IF tx[c].req.op = "prepare" THEN "insert" ELSE "begin")
                /\ tx' = [tx EXCEPT ![c] = [tx[c] EXCEPT !.pc = pc]]
  BY DEF Purge, Becomes
<1>2. tx \in [Call -> Tx] /\ tx[c] \in Tx
  BY DEF RowInv, TypeInv, TypeOK
<1>3. tx'[c].pc = pc /\ tx'[c].req = tx[c].req
  BY <1>1, <1>2 DEF Tx
<1>4. tx[c].pc = "purge" /\ UNCHANGED batch_lock
  BY DEF Purge, locks
<1>5. \A b \in Batch : batch_lock'[b] # c
  BY <1>4, NoBatchHeld DEF InTransaction
<1>6. Accounted(c)' /\ SingleCall(c)' /\ PutValid(c)' /\ IdleEmpty(c)' /\ LockedBatches(c)'
  BY <1>1, <1>3, <1>5 DEF Accounted, SingleCall, PutValid, IdleEmpty, LockedBatches, InTransaction
<1>7. InsertValid(c)'
  BY <1>1, <1>3 DEF InsertValid, Purge, Abstract!SameTenant
<1> QED BY <1>6, <1>7 DEF CallInv

LEMMA TakeInv ==
  ASSUME RowInv, NEW c \in Call, CallInv(c), TakeBatch(c)
  PROVE  CallInv(c)'
<1>1. PICK todo :
        /\ todo = prepared_transactions[tx[c].req.batch].envelope.plain.muts
        /\ tx' = [tx EXCEPT ![c] = [tx[c] EXCEPT !.pc = "exec", !.todo = todo]]
  BY Zenon DEF TakeBatch, Becomes
<1>2. tx \in [Call -> Tx] /\ tx[c] \in Tx
  BY DEF RowInv, TypeInv, TypeOK
<1>3. /\ tx'[c].pc = "exec" /\ tx'[c].req = tx[c].req /\ tx'[c].todo = todo
      /\ tx'[c].dirty = tx[c].dirty
  <2>1. tx'[c] = [tx[c] EXCEPT !.pc = "exec", !.todo = todo]
    BY <1>1, <1>2, SMT
  <2> QED BY <1>2, <2>1 DEF Tx
<1>4. tx[c].pc = "take" /\ tx[c].req.op = "commit"
  BY TxFields DEF TakeBatch, RowInv, AtStatement
<1>5. tx[c].dirty = [r \in Ref |-> Untouched]
  BY <1>4 DEF RowInv, WritesInv, WritesOnlyInTransaction
<1>6. tx'[c].todo \in Seq(Mutation)
  <2>1. TypeInv'
    BY TakeBatchTyped DEF RowInv
  <2>2. tx'[c] \in Tx
    BY <2>1 DEF TypeInv, TypeOK
  <2> QED BY <2>2 DEF Tx
<1>7. Accounted(c)'
  <2>1. Source(c)' = todo
    BY <1>1, <1>3, <1>4, Zenon DEF Source, TakeBatch, tables
  <2>2. todo = <<>> \o todo /\ <<>> \in Seq(Mutation)
    BY <1>3, <1>6
  <2>3. Explains(c, <<>>)'
    BY <1>3, <1>5, NothingDoneNext
  <2> QED BY <1>3, <2>1, <2>2, <2>3, Zenon DEF Accounted
<1>8. SingleCall(c)' /\ PutValid(c)'
  BY <1>3, <1>4 DEF SingleCall, PutValid
<1> QED BY <1>3, <1>7, <1>8, InsideInv

LEMMA BeginInv ==
  ASSUME RowInv, NEW c \in Call, CallInv(c),
         Begin(c) \/ SelectVersions(c) \/ LockVersions(c) \/ RewrapVersions(c)
  PROVE  CallInv(c)'
<1>1. tx \in [Call -> Tx] /\ tx[c] \in Tx
  BY DEF RowInv, TypeInv, TypeOK
<1>2. tx[c].pc \in {"begin", "rewrap", "lock"} /\ UNCHANGED batch_lock
  BY DEF Begin, SelectVersions, LockVersions, RewrapVersions, locks
<1>3. tx'[c].pc \in {"take", "lock", "reseal"}
  <2>2. CASE Begin(c)
    BY <1>1, <2>2 DEF Begin, Becomes, Tx
  <2>3. CASE SelectVersions(c)
    <3>1. PICK S : tx' = [tx EXCEPT ![c] = [tx[c] EXCEPT !.pc = "lock", !.targets = S]]
      BY <2>3 DEF SelectVersions, Becomes
    <3> QED BY <1>1, <3>1, SMTT(30) DEF Tx
  <2>4. CASE LockVersions(c)
    <3>1. PICK S : tx' = [tx EXCEPT ![c] = [tx[c] EXCEPT !.targets = S]] /\ tx[c].pc = "lock"
      BY <2>4 DEF LockVersions, Becomes
    <3> QED BY <1>1, <3>1 DEF Tx
  <2>5. CASE RewrapVersions(c)
    <3>1. PICK n : tx' = [tx EXCEPT ![c] = [tx[c] EXCEPT !.pc = "reseal", !.targets = {},
                                                         !.count = n]]
      BY <2>5 DEF RewrapVersions, Becomes
    <3> QED BY <1>1, <3>1 DEF Tx
  <2> QED BY <2>2, <2>3, <2>4, <2>5
<1> QED BY <1>2, <1>3, OutsideInv DEF InTransaction

LEMMA SelectBatchesInv ==
  ASSUME RowInv, NEW c \in Call, CallInv(c), SelectBatches(c)
  PROVE  CallInv(c)'
<1>1. PICK S : tx' = [tx EXCEPT ![c] = [tx[c] EXCEPT !.pc = "resealing", !.began = clock,
                                                     !.held = S]]
  BY DEF SelectBatches, Becomes
<1>2. tx \in [Call -> Tx] /\ tx[c] \in Tx
  BY DEF RowInv, TypeInv, TypeOK
<1>3. tx'[c].pc = "resealing" /\ tx'[c].began = clock
  BY <1>1, <1>2 DEF Tx
<1>4. tx[c].pc = "reseal" /\ UNCHANGED prepared_transactions
      /\ batch_lock' = [b \in Batch |-> IF b \in ExpiredAt(clock) THEN c ELSE batch_lock[b]]
  BY DEF SelectBatches, tables
<1>5. ASSUME NEW b \in Batch, batch_lock'[b] = c
      PROVE  prepared_transactions[b] # NoRow /\ prepared_transactions[b].expires_at <= clock
  <2>1. batch_lock[b] # c
    BY <1>4, NoBatchHeld DEF InTransaction
  <2> QED BY <1>4, <1>5, <2>1 DEF ExpiredAt
<1>6. LockedBatches(c)'
  BY <1>3, <1>4, <1>5 DEF LockedBatches
<1>7. Accounted(c)' /\ SingleCall(c)' /\ PutValid(c)' /\ IdleEmpty(c)' /\ InsertValid(c)'
  BY <1>3 DEF Accounted, SingleCall, PutValid, IdleEmpty, InsertValid, InTransaction
<1> QED BY <1>6, <1>7 DEF CallInv

\* A statement that waits or reads leaves what the transaction has done.
LEMMA ReadsExplained ==
  ASSUME NEW c \in Call, UNCHANGED <<secrets, secret_versions, prepared_transactions>>,
         tx'[c].dirty = tx[c].dirty, tx'[c].written = tx[c].written, tx'[c].dead = tx[c].dead,
         tx'[c].req = tx[c].req, tx'[c].todo = tx[c].todo,
         InTransaction(c), Accounted(c)
  PROVE  Accounted(c)'
<1>1. PICK done \in Seq(Mutation) : Source(c) = done \o tx[c].todo /\ Explains(c, done)
  BY DEF Accounted
<1>2. KeepsView(c)
  BY SameTables
<1>3. Explains(c, done)'
  BY <1>1, <1>2, ExplainsKept
<1>4. Source(c)' = Source(c)
  BY DEF Source
<1> QED BY <1>1, <1>3, <1>4 DEF Accounted

LEMMA BlockInv ==
  ASSUME RowInv, NEW c \in Call, CallInv(c), Block(c)
  PROVE  CallInv(c)'
<1>1. PICK id : /\ tx' = [tx EXCEPT ![c] = [tx[c] EXCEPT !.snap = id]]
                /\ tx[c].pc = "exec"
  BY DEF Block, Becomes, At
<1>2. tx \in [Call -> Tx] /\ tx[c] \in Tx
  BY DEF RowInv, TypeInv, TypeOK
<1>3. /\ tx'[c].dirty = tx[c].dirty /\ tx'[c].written = tx[c].written /\ tx'[c].dead = tx[c].dead
      /\ tx'[c].req = tx[c].req /\ tx'[c].todo = tx[c].todo /\ tx'[c].found = tx[c].found
      /\ tx'[c].pc = "exec"
  BY <1>1, <1>2 DEF Tx
<1>4. UNCHANGED <<secrets, secret_versions, prepared_transactions>>
  BY DEF Block, tables
<1>5. Accounted(c)'
  BY <1>1, <1>3, <1>4, ReadsExplained DEF CallInv, InTransaction
<1>6. SingleCall(c)'
  <2>1. SingleCall(c)
    BY DEF CallInv
  <2> QED BY <1>1, <1>3, <2>1 DEF SingleCall, InTransaction, NotYet, Already
<1>7. PutValid(c)'
  BY <1>3 DEF PutValid
<1> QED BY <1>3, <1>5, <1>6, <1>7, InsideInv

LEMMA SelectForUpdateInv ==
  ASSUME RowInv, NEW c \in Call, CallInv(c), SelectForUpdate(c)
  PROVE  CallInv(c)'
<1>1. PICK r \in Ref \ MalformedRef :
        /\ \E found : tx' = [tx EXCEPT ![c] = [tx[c] EXCEPT !.pc = "upsert", !.snap = 0,
                                                            !.found = found]]
        /\ At(c, r, "put")
  BY DEF SelectForUpdate, Becomes
<1>2. tx \in [Call -> Tx] /\ tx[c] \in Tx
  BY DEF RowInv, TypeInv, TypeOK
<1>3. /\ tx'[c].dirty = tx[c].dirty /\ tx'[c].written = tx[c].written /\ tx'[c].dead = tx[c].dead
      /\ tx'[c].req = tx[c].req /\ tx'[c].todo = tx[c].todo /\ tx'[c].pc = "upsert"
  BY <1>1, <1>2 DEF Tx
<1>4. UNCHANGED <<secrets, secret_versions, prepared_transactions>>
  BY DEF SelectForUpdate, tables
<1>5. /\ tx[c].pc = "exec" /\ tx[c].todo # <<>>
      /\ Head(tx[c].todo).ref = r /\ Head(tx[c].todo).kind = "put"
  BY <1>1 DEF At
<1>6. Accounted(c)'
  BY <1>3, <1>4, <1>5, ReadsExplained DEF CallInv, InTransaction
<1>7. SingleCall(c)'
  <2> SUFFICES ASSUME tx[c].req.op # "commit"
               PROVE  \E m \in Mutation : /\ tx[c].req.muts = <<m>> /\ m.kind = tx[c].req.op
                                          /\ NotYet(c, m)'
    BY <1>3 DEF SingleCall
  <2>1. PICK m \in Mutation : /\ tx[c].req.muts = <<m>> /\ m.kind = tx[c].req.op
                              /\ NotYet(c, m) \/ Already(c, m)
    BY <1>5 DEF CallInv, SingleCall, InTransaction
  <2>2. tx[c].todo = <<m>> /\ m.kind = "put"
    BY <1>5, <2>1 DEF NotYet, Already
  <2> QED BY <1>3, <2>1, <2>2 DEF NotYet
<1>8. PutValid(c)'
  BY <1>1, <1>3, <1>5 DEF PutValid
<1> QED BY <1>3, <1>6, <1>7, <1>8, InsideInv

\* What a statement that wrote leaves: one mutation more is done.
LEMMA WroteAccounted ==
  ASSUME RowInv, NEW c \in Call, CallInv(c), Ran(c), NEW r \in Ref,
         Wrote(c, r, Head(tx[c].todo)),
         Head(tx[c].todo).kind = "put" => Head(tx[c].todo).ref \notin MalformedRef
  PROVE  Accounted(c)'
<1>1. /\ tx[c].todo \in Seq(Mutation) /\ tx[c].todo # <<>> /\ tx'[c].todo = Tail(tx[c].todo)
      /\ InTransaction(c) /\ tx'[c].req = tx[c].req /\ UNCHANGED prepared_transactions
  BY TxFields DEF Ran, InTransaction, RowInv
<1>2. PICK done \in Seq(Mutation) : Source(c) = done \o tx[c].todo /\ Explains(c, done)
  BY <1>1 DEF CallInv, Accounted
<1>3. PICK m \in Mutation : m = Head(tx[c].todo)
  BY <1>1
<1>4. m.kind = "put" => r \notin MalformedRef
  BY <1>3 DEF Wrote
<1>5. Explains(c, Append(done, m))'
  BY <1>2, <1>3, <1>4, WroteExplains
<1>6. Source(c)' = Source(c)
  BY <1>1 DEF Source
<1>7. done \o tx[c].todo = Append(done, m) \o tx'[c].todo
  BY <1>1, <1>3, MoveHead
<1>8. PICK more \in Seq(Mutation) : more = Append(done, m)
  BY <1>3, AppendExtends
<1> QED BY <1>2, <1>5, <1>6, <1>7, <1>8 DEF Accounted

LEMMA WroteSingle ==
  ASSUME RowInv, NEW c \in Call, CallInv(c), Ran(c), NEW r \in Ref,
         Wrote(c, r, Head(tx[c].todo)),
         \/ tx'[c].found.version = VersionOf(tx'[c].dirty[r])
         \/ /\ Head(tx[c].todo).kind = "delete" /\ tx'[c].found = tx[c].found
            /\ tx'[c].dirty[r] = NoRow
  PROVE  SingleCall(c)'
<1> SUFFICES ASSUME tx[c].req.op # "commit"
             PROVE  \E m \in Mutation : /\ tx[c].req.muts = <<m>> /\ m.kind = tx[c].req.op
                                        /\ Already(c, m)'
  BY DEF SingleCall, Ran
<1>1. PICK m \in Mutation : /\ tx[c].req.muts = <<m>> /\ m.kind = tx[c].req.op
                            /\ NotYet(c, m) \/ Already(c, m)
  BY DEF CallInv, SingleCall, InTransaction, Ran
<1>2. tx[c].todo = <<m>> /\ (m.kind = "delete" => tx[c].found.version = 0)
  BY <1>1 DEF NotYet, Already, Ran
<1>3. Head(tx[c].todo) = m /\ tx'[c].todo = <<>>
  BY <1>2 DEF Ran
<1>4. m.ref = r /\ tx'[c].dirty[r] # Untouched
  BY <1>3 DEF Wrote
<1>5. tx'[c].found.version = VersionOf(tx'[c].dirty[r])
  BY <1>2, <1>3 DEF VersionOf
<1> QED BY <1>1, <1>3, <1>4, <1>5 DEF Already

LEMMA WriteInv ==
  ASSUME RowInv, RowInv', NEW c \in Call, CallInv(c), Upsert(c) \/ DeleteRow(c) \/ RevokeRow(c)
  PROVE  CallInv(c)'
<1>1. /\ Ran(c)
      /\ \E r \in Ref :
           /\ Wrote(c, r, Head(tx[c].todo))
           /\ \/ tx'[c].found.version = VersionOf(tx'[c].dirty[r])
              \/ /\ Head(tx[c].todo).kind = "delete" /\ tx'[c].found = tx[c].found
                 /\ tx'[c].dirty[r] = NoRow
      /\ Head(tx[c].todo).kind = "put" => Head(tx[c].todo).ref \notin MalformedRef
  <2>1. CASE Upsert(c)
    <3>1. Head(tx[c].todo).ref \notin MalformedRef
      BY <2>1, UpsertWrote DEF CallInv, PutValid
    <3> QED BY <2>1, <3>1, UpsertWrote
  <2>2. CASE DeleteRow(c)
    BY <2>2, DeleteWrote
  <2>3. CASE RevokeRow(c)
    BY <2>3, RevokeWrote
  <2> QED BY <2>1, <2>2, <2>3
<1>2. Accounted(c)' /\ SingleCall(c)'
  BY <1>1, WroteAccounted, WroteSingle
<1>3. tx'[c].pc = "exec" /\ PutValid(c)'
  BY <1>1 DEF Ran, PutValid
<1> QED BY <1>2, <1>3, InsideInv

-----------------------------------------------------------------------------
\* The invariant of the refinement is inductive.
LEMMA InitRef == Init => RefInv
<1> SUFFICES ASSUME Init PROVE RefInv
  OBVIOUS
<1>1. ASSUME NEW c \in Call PROVE CallInv(c)
  <2>1. tx[c].pc = "idle" /\ tx[c].req = NoRequest
    BY DEF Init, Idle
  <2>2. \A b \in Batch : batch_lock[b] # c
    BY StoreAssumption DEF Init
  <2>3. Accounted(c) /\ SingleCall(c) /\ LockedBatches(c)
    BY <2>1, <2>2 DEF Accounted, SingleCall, LockedBatches, InTransaction
  <2>4. PutValid(c) /\ IdleEmpty(c) /\ InsertValid(c)
    BY <2>1 DEF PutValid, IdleEmpty, InsertValid
  <2> QED BY <2>3, <2>4 DEF CallInv
<1> QED BY <1>1, InitSealed, InitHolds DEF RefInv

LEMMA OwnStep ==
  ASSUME RowInv, RowInv', NEW c \in Call, CallInv(c), Invoke(c) \/ Progress(c) \/ Lose(c)
  PROVE  CallInv(c)'
<1>1. CASE Upsert(c) \/ DeleteRow(c) \/ RevokeRow(c)
  BY <1>1, WriteInv
<1>2. CASE \/ Begin(c) \/ SelectVersions(c) \/ LockVersions(c) \/ RewrapVersions(c)
  BY <1>2, BeginInv
<1>3. CASE \/ RefuseReference(c) \/ UpsertRefused(c) \/ RowMissing(c) \/ RefuseBatch(c)
           \/ RefuseCommit(c) \/ RewrapFails(c) \/ ResealFails(c) \/ DeadlockAbort(c)
           \/ Lose(c) \/ Get(c) \/ Prepare(c) \/ DropExpired(c) \/ Abort(c) \/ ResealBatches(c)
           \/ Commit(c)
  BY <1>3, EndsRelease, EndInv DEF RowInv
<1>4. CASE Invoke(c)
  BY <1>4, InvokeInv
<1>5. CASE Block(c) \/ SelectForUpdate(c)
  BY <1>5, BlockInv, SelectForUpdateInv
<1>6. CASE Purge(c) \/ TakeBatch(c) \/ SelectBatches(c)
  BY <1>6, PurgeInv, TakeInv, SelectBatchesInv
<1> QED BY <1>1, <1>2, <1>3, <1>4, <1>5, <1>6 DEF Progress

LEMMA RefStep == RefInv /\ [Next]_vars => RefInv'
<1> SUFFICES ASSUME RefInv, [Next]_vars PROVE RefInv'
  OBVIOUS
<1>1. SealedInv' /\ BatchInv' /\ RowInv /\ RowInv' /\ BatchInv
  BY SealedStep, HoldsStep DEF RefInv, SealedInv
<1>2. ASSUME NEW c \in Call, Invoke(c) \/ Progress(c) \/ Lose(c), NEW d \in Call
      PROVE  CallInv(d)'
  <2>1. CASE d = c
    BY <1>1, <1>2, <2>1, OwnStep DEF RefInv
  <2>2. CASE d # c
    <3>1. LeftTo(d)
      BY <1>1, <1>2, <2>2, OthersLeft
    <3> QED BY <1>1, <3>1, LeftInv DEF RefInv
  <2> QED BY <2>1, <2>2
<1>3. ASSUME RewriteExpiry \/ Tick \/ UNCHANGED vars, NEW d \in Call
      PROVE  CallInv(d)'
  <2>1. UNCHANGED <<tx, secrets, secret_versions>>
    BY <1>3 DEF RewriteExpiry, Tick, vars, tables
  <2>2. KeepsView(d)
    BY <2>1, SameTables
  <2>3. \A b \in Batch : SameBatch(b, d)
    BY <1>1, <1>3, IdleBatches
  <2>4. LeftTo(d)
    BY <2>1, <2>2, <2>3 DEF LeftTo
  <2> QED BY <1>1, <2>4, LeftInv DEF RefInv
<1>4. \A d \in Call : CallInv(d)'
  BY <1>2, <1>3 DEF Next
<1> QED BY <1>1, <1>4 DEF RefInv

-----------------------------------------------------------------------------
(* The abstract state *)

Pendings == [d \in Call |-> tx[d].req]
Sinces == [d \in Call |-> tx[d].began]

LEMMA StoreTyped ==
  ASSUME RowInv
  PROVE  AbstractStore \in Stores
<1>1. ASSUME NEW r \in Ref PROVE View(secret_versions, secrets[r]) \in Secret \cup {NoRow}
  <2>1. CASE secrets[r] = NoRow
    BY <2>1 DEF View
  <2>2. CASE secrets[r] # NoRow
    <3>1. secrets[r] \in SecretRow /\ secret_versions \subseteq VersionRow
      BY <2>2 DEF RowInv, TypeInv, TypeOK
    <3>2. Dense(secret_versions, secrets[r])
      BY <2>2 DEF RowInv, VersionsDense, Dense
    <3> QED BY <3>1, <3>2, ViewTyped
  <2> QED BY <2>1, <2>2
<1> QED BY <1>1, StoreViews DEF Stores

\* What is prepared under a key.
LEMMA BatchViews ==
  ASSUME TypeInv, NEW b \in Batch
  PROVE  /\ AbstractBatches[b] = NoRow <=> prepared_transactions[b] = NoRow
         /\ prepared_transactions[b] # NoRow =>
              /\ AbstractBatches[b].column = prepared_transactions[b].expires_at
              /\ AbstractBatches[b].sealed = prepared_transactions[b].envelope.plain.expires_at
              /\ AbstractBatches[b].muts = prepared_transactions[b].envelope.plain.muts
<1>1. CASE prepared_transactions[b] = NoRow
  BY <1>1 DEF AbstractBatches
<1>2. CASE prepared_transactions[b] # NoRow
  <2>1. PICK row \in BatchRow : row = prepared_transactions[b]
    BY <1>2 DEF TypeInv, TypeOK
  <2>2. row.expires_at \in Int /\ row.envelope.plain.expires_at \in Int
        /\ row.envelope.plain.muts \in Seq(BatchMutation)
    BY DEF BatchRow, EnvelopeOf, Payload
  <2>3. AbstractBatches[b] = [column |-> row.expires_at, sealed |-> row.envelope.plain.expires_at,
                              muts |-> row.envelope.plain.muts]
    BY <1>2, <2>1 DEF AbstractBatches
  <2>4. AbstractBatches[b] \in PreparedBatch
    BY <2>2, <2>3 DEF PreparedBatch
  <2> QED BY <1>2, <2>1, <2>3, <2>4, AbsenceAssumption
<1> QED BY <1>1, <1>2

LEMMA SameBatches ==
  ASSUME UNCHANGED prepared_transactions
  PROVE  AbstractBatches' = AbstractBatches
BY DEF AbstractBatches

\* Batches go, and the others stay.
LEMMA BatchesGone ==
  ASSUME NEW S \in SUBSET Batch,
         \A b \in S : prepared_transactions'[b] = NoRow,
         \A b \in Batch \ S : prepared_transactions'[b] = prepared_transactions[b]
  PROVE  AbstractBatches' = Abstract!Without(S)
<1>1. ASSUME NEW b \in Batch
      PROVE  AbstractBatches'[b] = IF b \in S THEN NoRow ELSE AbstractBatches[b]
  BY DEF AbstractBatches
<1>2. AbstractBatches' = [b \in Batch |-> AbstractBatches'[b]]
  BY DEF AbstractBatches
<1> QED BY <1>1, <1>2, Zenon DEF Abstract!Without

-----------------------------------------------------------------------------
(* How calls begin, go on and end *)

LEMMA SameRequests ==
  ASSUME NEW c \in Call, \A d \in Call \ {c} : tx'[d] = tx[d],
         tx'[c].req = tx[c].req, tx'[c].began = tx[c].began
  PROVE  UNCHANGED <<Pendings, Sinces>>
BY DEF Pendings, Sinces

LEMMA Stutters ==
  ASSUME AbstractStore' = AbstractStore, AbstractBatches' = AbstractBatches,
         UNCHANGED <<Pendings, Sinces, reply, clock>>
  PROVE  UNCHANGED Abstract!vars
BY DEF Abstract!vars, Pendings, Sinces

LEMMA Returns ==
  ASSUME TypeInv, NEW c \in Call, NEW r, Release(c), reply' = [reply EXCEPT ![c] = r],
         UNCHANGED clock
  PROVE  Abstract!Return(c, r)
<1>1. tx' = [tx EXCEPT ![c] = Idle] /\ tx \in [Call -> Tx]
  BY DEF Release, Becomes, TypeInv, TypeOK
<1>2. Idle.req = NoRequest /\ Idle.began = 0
  BY DEF Idle
<1>3. Pendings' = [Pendings EXCEPT ![c] = NoRequest] /\ Sinces' = [Sinces EXCEPT ![c] = 0]
  BY <1>1, <1>2 DEF Pendings, Sinces
<1> QED BY <1>3 DEF Abstract!Return, Pendings, Sinces, NoRequest, Abstract!NoRequest

LEMMA SameAnswer == ASSUME NEW code PROVE Abstract!Answer(code) = Answer(code)
BY DEF Abstract!Answer, Answer

LEMMA Does ==
  ASSUME TypeInv, NEW c \in Call, NEW version, Release(c),
         Reply(c, [Answer("Ok") EXCEPT !.version = version]), UNCHANGED clock
  PROVE  Abstract!Done(c, version)
<1>1. PICK r \in {[Answer("Ok") EXCEPT !.version = version], Answer("Unavailable")} :
        reply' = [reply EXCEPT ![c] = r]
  BY DEF Reply
<1>2. Abstract!Return(c, r)
  BY <1>1, Returns
<1> QED BY <1>1, <1>2, SameAnswer DEF Abstract!Done

LEMMA DoesNothingNew ==
  ASSUME TypeInv, NEW c \in Call, Release(c), Reply(c, Answer("Ok")), UNCHANGED clock
  PROVE  Abstract!Done(c, 0)
<1>1. [Answer("Ok") EXCEPT !.version = 0] = Answer("Ok")
  BY DEF Answer
<1> QED BY <1>1, Does

\* A statement is that of a request.
LEMMA Asked ==
  ASSUME TypeInv, NEW c \in Call, tx[c].pc # "idle"
  PROVE  tx[c].req # NoRequest
<1>1. AtStatement(tx[c]) /\ tx[c].pc \in Step
  BY TxFields DEF Tx
<1>2. tx[c].req.op # "none"
  BY <1>1 DEF AtStatement, Step
<1> QED BY <1>2 DEF NoRequest

LEMMA Refuses ==
  ASSUME TypeInv, NEW c \in Call, Release(c), tx[c].pc # "idle",
         NEW code \in {"Unavailable", "NotFound", "Crypto", "Invalid", "Conflict",
                       "DeleteTargetMissing"},
         reply' = [reply EXCEPT ![c] = Answer(code)], Abstract!Reason(tx[c].req, code),
         AbstractStore' = AbstractStore, AbstractBatches' = AbstractBatches, UNCHANGED clock
  PROVE  Abstract!Refuse(c)
<1>1. Abstract!Return(c, Abstract!Answer(code))
  BY Returns, SameAnswer
<1>2. [d \in Call |-> tx[d].req][c] = tx[c].req /\ tx[c].req # Abstract!NoRequest
  BY Asked DEF NoRequest, Abstract!NoRequest
<1> QED BY <1>1, <1>2 DEF Abstract!Refuse

\* A refused call, in particular, rolls back.
LEMMA RollbackRefuses ==
  ASSUME TypeInv, NEW c \in Call, tx[c].pc # "idle",
         NEW code \in {"Unavailable", "NotFound", "Crypto", "Invalid", "Conflict",
                       "DeleteTargetMissing"},
         Rollback(c, code), Abstract!Reason(tx[c].req, code)
  PROVE  Abstract!Refuse(c)
<1>1. Release(c) /\ reply' = [reply EXCEPT ![c] = Answer(code)]
      /\ UNCHANGED <<secrets, secret_versions, prepared_transactions, clock>>
  BY DEF Rollback, tables
<1>2. AbstractStore' = AbstractStore /\ AbstractBatches' = AbstractBatches
  BY <1>1, SameStore, SameBatches
<1> QED BY <1>1, <1>2, Refuses

-----------------------------------------------------------------------------
(* Calls that are refused *)

\* The mutation at the head of what is left is one of those to run.
LEMMA HeadOfSource ==
  ASSUME RefInv, NEW c \in Call, InTransaction(c), tx[c].todo # <<>>
  PROVE  \E i \in DOMAIN Source(c) : Source(c)[i] = Head(tx[c].todo)
<1>1. PICK done \in Seq(Mutation) : Source(c) = done \o tx[c].todo
  BY DEF RefInv, CallInv, Accounted
<1>2. PICK todo \in Seq(Mutation) : todo = tx[c].todo /\ todo # <<>>
  BY TxFields DEF RefInv, SealedInv, RowInv
<1>3. Len(done) + 1 \in DOMAIN (done \o todo) /\ (done \o todo)[Len(done) + 1] = Head(todo)
  BY <1>2
<1> QED BY <1>1, <1>2, <1>3

\* The payload of the batch a commit runs.
LEMMA CommitSource ==
  ASSUME RefInv, NEW c \in Call, InTransaction(c), tx[c].req.op = "commit"
  PROVE  /\ tx[c].req.batch \in Batch /\ Source(c) \in Seq(BatchMutation)
         /\ AbstractBatches[tx[c].req.batch] # NoRow
         /\ AbstractBatches[tx[c].req.batch].muts = Source(c)
         /\ tx[c].began < AbstractBatches[tx[c].req.batch].column
         /\ tx[c].began < AbstractBatches[tx[c].req.batch].sealed
<1>1. TypeInv /\ HoldsBatch(c)
  BY DEF RefInv, BatchInv
<1>2. PICK b \in Batch : b = tx[c].req.batch
  BY <1>1, BatchOfCommit
<1>3. /\ prepared_transactions[b] # NoRow
      /\ tx[c].began < prepared_transactions[b].expires_at
      /\ tx[c].began < prepared_transactions[b].envelope.plain.expires_at
  BY <1>1, <1>2 DEF HoldsBatch, InTransaction
<1>4. prepared_transactions[b].envelope.plain.muts \in Seq(BatchMutation)
  BY <1>1, <1>3 DEF TypeInv, TypeOK, BatchRow, EnvelopeOf, Payload
<1> QED BY <1>1, <1>2, <1>3, <1>4, BatchViews DEF Source

LEMMA RefuseReferenceRefuses ==
  ASSUME RefInv, NEW c \in Call, RefuseReference(c)
  PROVE  Abstract!Refuse(c)
<1>1. TypeInv
  BY DEF RefInv, BatchInv
<1>2. /\ tx[c].pc = "exec" /\ tx[c].todo # <<>> /\ Rollback(c, "Invalid")
      /\ Head(tx[c].todo).kind = "put" /\ Head(tx[c].todo).ref \in MalformedRef
  BY DEF RefuseReference, At
<1>3. Abstract!Malformed(Source(c))
  BY <1>2, HeadOfSource DEF InTransaction, Abstract!Malformed
<1>4. Abstract!Reason(tx[c].req, "Invalid")
  <2>1. CASE tx[c].req.op = "commit"
    BY <1>2, <1>3, <2>1, CommitSource DEF InTransaction, Abstract!Reason
  <2>2. CASE tx[c].req.op # "commit"
    <3>1. PICK m \in Mutation : /\ tx[c].req.muts = <<m>> /\ m.kind = tx[c].req.op
                                /\ NotYet(c, m) \/ Already(c, m)
      BY <1>2, <2>2 DEF RefInv, CallInv, SingleCall, InTransaction
    <3>2. tx[c].req.op = "put"
      BY <1>2, <3>1 DEF NotYet, Already
    <3> QED BY <1>3, <2>2, <3>2 DEF Source, Abstract!Reason
  <2> QED BY <2>1, <2>2
<1> QED BY <1>1, <1>2, <1>4, RollbackRefuses

LEMMA RowMissingRefuses ==
  ASSUME RefInv, NEW c \in Call, RowMissing(c)
  PROVE  Abstract!Refuse(c)
<1>1. TypeInv
  BY DEF RefInv, BatchInv
<1>2. /\ tx[c].pc = "exec" /\ tx[c].todo # <<>>
      /\ Head(tx[c].todo).kind \in {"delete", "revoke"}
      /\ Rollback(c, IF tx[c].req.op = "commit" THEN "DeleteTargetMissing" ELSE "NotFound")
  BY DEF RowMissing, At
<1>3. CASE tx[c].req.op = "commit"
  <2>1. PICK i \in DOMAIN Source(c) : Source(c)[i] = Head(tx[c].todo)
    BY <1>2, HeadOfSource DEF InTransaction
  <2>2. Source(c)[i] \in BatchMutation
    BY <1>2, <1>3, CommitSource DEF InTransaction
  <2>3. Source(c)[i].kind = "delete"
    BY <1>2, <2>1, <2>2 DEF BatchMutation, PutMutation, DeleteMutation
  <2>4. Abstract!Reason(tx[c].req, "DeleteTargetMissing")
    BY <1>2, <1>3, <2>3, CommitSource DEF InTransaction, Abstract!Reason, Abstract!Deletes
  <2> QED BY <1>1, <1>2, <1>3, <2>4, RollbackRefuses
<1>4. CASE tx[c].req.op # "commit"
  <2>1. PICK m \in Mutation : /\ tx[c].req.muts = <<m>> /\ m.kind = tx[c].req.op
                              /\ NotYet(c, m) \/ Already(c, m)
    BY <1>2, <1>4 DEF RefInv, CallInv, SingleCall, InTransaction
  <2>2. tx[c].req.op \in {"delete", "revoke"}
    BY <1>2, <2>1 DEF NotYet, Already
  <2>3. Abstract!Reason(tx[c].req, "NotFound")
    BY <2>2 DEF Abstract!Reason
  <2> QED BY <1>1, <1>2, <1>4, <2>3, RollbackRefuses
<1> QED BY <1>3, <1>4

LEMMA RefuseBatchRefuses ==
  ASSUME TypeInv, NEW c \in Call, RefuseBatch(c)
  PROVE  Abstract!Refuse(c)
<1>1. Abstract!Reason(tx[c].req, "Invalid")
  BY DEF RefuseBatch, Abstract!Reason, Abstract!SameTenant
<1>2. tx[c].pc # "idle" /\ Rollback(c, "Invalid")
  BY DEF RefuseBatch
<1> QED BY <1>1, <1>2, RollbackRefuses

\* Whatever fails may answer Unavailable.
LEMMA UnavailableRefuses ==
  ASSUME TypeInv, NEW c \in Call, tx[c].pc # "idle", Rollback(c, "Unavailable")
  PROVE  Abstract!Refuse(c)
<1>1. Abstract!Reason(tx[c].req, "Unavailable")
  BY DEF Abstract!Reason
<1> QED BY <1>1, RollbackRefuses

LEMMA FailureRefuses ==
  ASSUME TypeInv, NEW c \in Call,
         UpsertRefused(c) \/ RefuseCommit(c) \/ RewrapFails(c) \/ ResealFails(c) \/ DeadlockAbort(c)
  PROVE  Abstract!Refuse(c)
<1>1. AtStatement(tx[c])
  BY TxFields
<1>2. CASE UpsertRefused(c)
  BY <1>2, UnavailableRefuses DEF UpsertRefused, AtUpsert
<1>3. CASE RefuseCommit(c)
  <2>1. tx[c].pc = "take" /\ (Rollback(c, "NotFound") \/ Rollback(c, "Unavailable"))
    BY <1>3 DEF RefuseCommit
  <2>2. Abstract!Reason(tx[c].req, "NotFound")
    BY <1>1, <2>1 DEF AtStatement, Abstract!Reason
  <2> QED BY <2>1, <2>2, UnavailableRefuses, RollbackRefuses
<1>4. CASE RewrapFails(c) \/ ResealFails(c)
  <2>1. tx[c].pc \in {"lock", "resealing"} /\ Rollback(c, "Crypto")
    BY <1>4 DEF RewrapFails, ResealFails, AtReseal
  <2>2. Abstract!Reason(tx[c].req, "Crypto")
    BY <1>1, <2>1 DEF AtStatement, Abstract!Reason
  <2> QED BY <2>1, <2>2, RollbackRefuses
<1>5. CASE DeadlockAbort(c)
  <2>1. Awaits(c) # {} /\ Rollback(c, "Unavailable")
    BY <1>5 DEF DeadlockAbort, Deadlocked
  <2>2. tx[c].pc # "idle"
    BY <2>1 DEF Awaits
  <2> QED BY <2>1, <2>2, UnavailableRefuses
<1> QED BY <1>2, <1>3, <1>4, <1>5

LEMMA LoseRefuses ==
  ASSUME TypeInv, NEW c \in Call, Lose(c)
  PROVE  Abstract!Refuse(c)
<1>1. /\ tx[c].pc # "idle" /\ Release(c) /\ reply' = [reply EXCEPT ![c] = Answer("Unavailable")]
      /\ UNCHANGED <<secrets, secret_versions, prepared_transactions, clock>>
  BY DEF Lose, tables
<1>2. Abstract!Reason(tx[c].req, "Unavailable")
  BY DEF Abstract!Reason
<1>3. AbstractStore' = AbstractStore /\ AbstractBatches' = AbstractBatches
  BY <1>1, SameStore, SameBatches
<1> QED BY <1>1, <1>2, <1>3, Refuses

-----------------------------------------------------------------------------
(* Calls that begin, and statements that go on *)

LEMMA InvokeAsks ==
  ASSUME RefInv, NEW c \in Call, Invoke(c)
  PROVE  Abstract!Invoke(c)
<1>1. PICK rq \in Requests : /\ Start(c, rq)
                             /\ UNCHANGED <<secrets, secret_versions, prepared_transactions, reply, clock>>
  BY DEF Invoke, tables
<1> DEFINE t(pc, todo) == [Idle EXCEPT !.pc = pc, !.req = rq, !.began = clock, !.todo = todo]
<1>2. PICK pc, todo : tx' = [tx EXCEPT ![c] = t(pc, todo)]
  BY <1>1, Zenon DEF Start, Becomes
<1>3. t(pc, todo).req = rq /\ t(pc, todo).began = clock
  BY DEF Idle
<1>4. tx \in [Call -> Tx]
  BY DEF RefInv, BatchInv, TypeInv, TypeOK
<1> HIDE DEF t
<1>5. Pendings' = [Pendings EXCEPT ![c] = rq] /\ Sinces' = [Sinces EXCEPT ![c] = clock]
  BY <1>2, <1>3, <1>4 DEF Pendings, Sinces
<1>6. Pendings[c] = NoRequest
  BY <1>1 DEF Start, RefInv, CallInv, IdleEmpty, Pendings
<1>7. AbstractStore' = AbstractStore /\ AbstractBatches' = AbstractBatches
  BY <1>1, SameStore, SameBatches
<1>8. Abstract!Ask(c, rq)
  BY <1>1, <1>5, <1>6, <1>7 DEF Abstract!Ask, Pendings, Sinces, NoRequest, Abstract!NoRequest
<1> QED BY <1>8 DEF Abstract!Invoke

\* A transaction that reads its own now() begins the call's clock again.
LEMMA BeginRestamps ==
  ASSUME TypeInv, NEW c \in Call, Begin(c) \/ SelectBatches(c)
  PROVE  Abstract!Restamp(c)
<1>1. tx[c].pc \in {"begin", "reseal"}
      /\ UNCHANGED <<secrets, secret_versions, prepared_transactions, reply, clock>>
  BY DEF Begin, SelectBatches, tables
<1>2. tx[c].req.op \in {"commit", "rewrap"}
  BY <1>1, TxFields DEF AtStatement
<1>3. tx \in [Call -> Tx] /\ tx[c] \in Tx
  BY DEF TypeInv, TypeOK
<1>4. /\ tx'[c].req = tx[c].req /\ tx'[c].began = clock
      /\ \A d \in Call \ {c} : tx'[d] = tx[d]
  <2>1. CASE Begin(c)
    BY <1>3, <2>1 DEF Begin, Becomes, Tx
  <2>2. CASE SelectBatches(c)
    <3>1. PICK S : tx' = [tx EXCEPT ![c] = [tx[c] EXCEPT !.pc = "resealing", !.began = clock,
                                                         !.held = S]]
      BY <2>2 DEF SelectBatches, Becomes
    <3> QED BY <1>3, <3>1 DEF Tx
  <2> QED BY <2>1, <2>2
<1>5. Pendings' = Pendings /\ Sinces' = [Sinces EXCEPT ![c] = clock] /\ Pendings[c] = tx[c].req
  BY <1>4 DEF Pendings, Sinces
<1>6. AbstractStore' = AbstractStore /\ AbstractBatches' = AbstractBatches
  BY <1>1, SameStore, SameBatches
<1> QED BY <1>1, <1>2, <1>5, <1>6 DEF Abstract!Restamp, Pendings, Sinces

\* The call's request and its start are as they were.
LEMMA SameRequest ==
  ASSUME TypeInv, NEW c \in Call,
         \/ Block(c) \/ SelectForUpdate(c) \/ Purge(c) \/ TakeBatch(c) \/ SelectVersions(c)
         \/ LockVersions(c) \/ RewrapVersions(c)
  PROVE  tx'[c].req = tx[c].req /\ tx'[c].began = tx[c].began
<1>1. tx \in [Call -> Tx] /\ tx[c] \in Tx
  BY DEF TypeInv, TypeOK
<1>2. CASE Block(c)
  <2>1. PICK id : tx' = [tx EXCEPT ![c] = [tx[c] EXCEPT !.snap = id]]
    BY <1>2 DEF Block, Becomes
  <2> QED BY <1>1, <2>1 DEF Tx
<1>3. CASE SelectForUpdate(c)
  <2>1. PICK found : tx' = [tx EXCEPT ![c] = [tx[c] EXCEPT !.pc = "upsert", !.snap = 0,
                                                           !.found = found]]
    BY <1>3 DEF SelectForUpdate, Becomes
  <2> QED BY <1>1, <2>1 DEF Tx
<1>4. CASE Purge(c)
  <2>1. PICK pc : tx' = [tx EXCEPT ![c] = [tx[c] EXCEPT !.pc = pc]]
    BY <1>4, Zenon DEF Purge, Becomes
  <2> QED BY <1>1, <2>1 DEF Tx
<1>5. CASE TakeBatch(c)
  <2>1. PICK todo : tx' = [tx EXCEPT ![c] = [tx[c] EXCEPT !.pc = "exec", !.todo = todo]]
    BY <1>5, Zenon DEF TakeBatch, Becomes
  <2> QED BY <1>1, <2>1 DEF Tx
<1>6. CASE SelectVersions(c)
  <2>1. PICK S : tx' = [tx EXCEPT ![c] = [tx[c] EXCEPT !.pc = "lock", !.targets = S]]
    BY <1>6 DEF SelectVersions, Becomes
  <2> QED BY <1>1, <2>1 DEF Tx
<1>7. CASE LockVersions(c)
  <2>1. PICK S : tx' = [tx EXCEPT ![c] = [tx[c] EXCEPT !.targets = S]]
    BY <1>7 DEF LockVersions, Becomes
  <2> QED BY <1>1, <2>1 DEF Tx
<1>8. CASE RewrapVersions(c)
  <2>1. PICK n : tx' = [tx EXCEPT ![c] = [tx[c] EXCEPT !.pc = "reseal", !.targets = {}, !.count = n]]
    BY <1>8 DEF RewrapVersions, Becomes
  <2> QED BY <1>1, <2>1 DEF Tx
<1> QED BY <1>2, <1>3, <1>4, <1>5, <1>6, <1>7, <1>8

\* Statements that the callers cannot tell from nothing.
LEMMA StatementStutters ==
  ASSUME RowInv, RowInv', NEW c \in Call,
         \/ Block(c) \/ SelectForUpdate(c) \/ Upsert(c) \/ DeleteRow(c) \/ RevokeRow(c)
         \/ TakeBatch(c) \/ SelectVersions(c) \/ LockVersions(c) \/ RewrapVersions(c)
  PROVE  UNCHANGED Abstract!vars
<1>1. tx'[c].req = tx[c].req /\ tx'[c].began = tx[c].began
  <2>1. CASE Upsert(c) \/ DeleteRow(c) \/ RevokeRow(c)
    BY <2>1, UpsertWrote, DeleteWrote, RevokeWrote DEF Ran
  <2>2. CASE \/ Block(c) \/ SelectForUpdate(c) \/ TakeBatch(c) \/ SelectVersions(c)
             \/ LockVersions(c) \/ RewrapVersions(c)
    BY <2>2, SameRequest DEF RowInv
  <2> QED BY <2>1, <2>2
<1>2. \A d \in Call \ {c} : tx'[d] = tx[d]
  BY OnlyCall DEF Progress, RowInv
<1>3. UNCHANGED <<Pendings, Sinces>>
  BY <1>1, <1>2, SameRequests
<1>4. UNCHANGED <<prepared_transactions, reply, clock>>
  BY DEF Block, SelectForUpdate, Upsert, DeleteRow, RevokeRow, TakeBatch, SelectVersions,
         LockVersions, RewrapVersions, tables
<1>5. AbstractStore' = AbstractStore
  <2>1. CASE RewrapVersions(c)
    BY <2>1, RewrapPlains, RewrapStore
  <2>2. CASE ~RewrapVersions(c)
    <3>1. UNCHANGED <<secrets, secret_versions>>
      BY <2>2 DEF Block, SelectForUpdate, Upsert, DeleteRow, RevokeRow, TakeBatch, SelectVersions,
         LockVersions, tables
    <3> QED BY <3>1, SameStore
  <2> QED BY <2>1, <2>2
<1> QED BY <1>3, <1>4, <1>5, SameBatches, Stutters

-----------------------------------------------------------------------------
(* put, delete, revoke and commit *)

LEMMA CommitApplies ==
  ASSUME RefInv, NEW c \in Call, Commit(c)
  PROVE  /\ Source(c) \in Seq(Mutation)
         /\ Abstract!AllApply(AbstractStore, Source(c))
         /\ AbstractStore' = Abstract!ApplyAll(AbstractStore, Source(c))
<1>1. tx[c].pc = "exec" /\ tx[c].todo = <<>>
  BY DEF Commit
<1>2. PICK done \in Seq(Mutation) : Source(c) = done \o tx[c].todo /\ Explains(c, done)
  BY <1>1 DEF RefInv, CallInv, Accounted, InTransaction
<1>3. Source(c) = done
  BY <1>1, <1>2
<1>4. PICK st \in Stores : st = AbstractStore
  BY StoreTyped DEF RefInv, SealedInv
<1>5. Agrees(c, st)
  BY <1>4 DEF Agrees
<1>6. Abstract!AllApply(st, done) /\ Abstract!ApplyAll(st, done) = Laid(c, st)
  BY <1>2, <1>5 DEF Explains
<1>7. AbstractStore' = Laid(c, AbstractStore)
  BY CommitLays DEF RefInv, SealedInv
<1> QED BY <1>2, <1>3, <1>4, <1>6, <1>7

LEMMA CommitMutates ==
  ASSUME RefInv, NEW c \in Call, Commit(c), tx[c].req.op # "commit"
  PROVE  Abstract!Mutate(c)
<1>1. /\ tx[c].pc = "exec" /\ tx[c].todo = <<>> /\ Release(c)
      /\ Reply(c, [Answer("Ok") EXCEPT !.version = tx[c].found.version])
      /\ UNCHANGED <<prepared_transactions, clock>>
  <2>1. prepared_transactions' = [b \in Batch |-> prepared_transactions[b]]
    BY DEF Commit
  <2>2. prepared_transactions \in [Batch -> BatchRow \cup {NoRow}]
    BY DEF RefInv, BatchInv, TypeInv, TypeOK
  <2> QED BY <2>1, <2>2 DEF Commit
<1>2. TypeInv /\ AtStatement(tx[c]) /\ RowInv
  BY TxFields DEF RefInv, BatchInv, SealedInv
<1>3. tx[c].req.op \in {"put", "delete", "revoke"}
  BY <1>1, <1>2 DEF AtStatement
<1>4. PICK m \in Mutation : /\ tx[c].req.muts = <<m>>
                            /\ NotYet(c, m) \/ Already(c, m)
  BY <1>1 DEF RefInv, CallInv, SingleCall, InTransaction
<1>5. tx[c].dirty[m.ref] # Untouched /\ tx[c].found.version = VersionOf(tx[c].dirty[m.ref])
  BY <1>1, <1>4 DEF NotYet, Already
<1>6. m.ref \in Ref /\ tx[c].req.muts[1].ref = m.ref
  BY <1>4, MutationFields
<1>7. AbstractStore'[m.ref] = View(CommittedVersions(c), tx[c].dirty[m.ref])
  <2>1. AbstractStore' = Laid(c, AbstractStore)
    BY <1>2, CommitLays
  <2> QED BY <1>5, <1>6, <2>1 DEF Laid
<1>8. (IF AbstractStore'[m.ref] = NoRow THEN 0 ELSE Len(AbstractStore'[m.ref].values))
        = tx[c].found.version
  <2>1. Seen(c, m.ref) = tx[c].dirty[m.ref]
    BY <1>5, <1>6, DirtySeen
  <2>2. CASE tx[c].dirty[m.ref] = NoRow
    BY <1>5, <1>7, <2>2 DEF View, VersionOf
  <2>3. CASE tx[c].dirty[m.ref] # NoRow
    <3>1. tx[c].dirty[m.ref] \in SecretRow
      BY <1>2, <1>6, <2>1, <2>3, SeenRow
    <3>2. View(CommittedVersions(c), tx[c].dirty[m.ref]) # NoRow
      BY <1>2, <1>6, <2>1, <2>3, SeenView
    <3>3. Len(View(CommittedVersions(c), tx[c].dirty[m.ref]).values)
            = tx[c].dirty[m.ref].current_version
      BY <2>3, <3>1, ViewFields
    <3> QED BY <1>5, <1>7, <2>3, <3>2, <3>3 DEF VersionOf
  <2> QED BY <2>2, <2>3
<1>9. Source(c) = tx[c].req.muts
  BY DEF Source
<1>10. /\ Abstract!AllApply(AbstractStore, tx[c].req.muts)
       /\ AbstractStore' = Abstract!ApplyAll(AbstractStore, tx[c].req.muts)
  BY <1>9, CommitApplies
<1>11. Abstract!Done(c, IF AbstractStore'[tx[c].req.muts[1].ref] = NoRow THEN 0
                        ELSE Len(AbstractStore'[tx[c].req.muts[1].ref].values))
  <2>1. Abstract!Done(c, tx[c].found.version)
    BY <1>1, <1>2, Does
  <2> QED BY <1>6, <1>8, <2>1
<1>12. [d \in Call |-> tx[d].req][c] = tx[c].req /\ AbstractBatches' = AbstractBatches
  BY <1>1, SameBatches
<1> QED BY <1>3, <1>10, <1>11, <1>12 DEF Abstract!Mutate

LEMMA CommitCommits ==
  ASSUME RefInv, NEW c \in Call, Commit(c), tx[c].req.op = "commit"
  PROVE  Abstract!Commit(c)
<1>1. /\ tx[c].pc = "exec" /\ Release(c) /\ UNCHANGED clock
      /\ Reply(c, [Answer("Ok") EXCEPT !.version = 0])
      /\ prepared_transactions' = [b \in Batch |-> IF b = tx[c].req.batch THEN NoRow
                                                   ELSE prepared_transactions[b]]
  BY DEF Commit
<1>2. TypeInv
  BY DEF RefInv, BatchInv
<1>3. /\ tx[c].req.batch \in Batch
      /\ AbstractBatches[tx[c].req.batch] # NoRow
      /\ AbstractBatches[tx[c].req.batch].muts = Source(c)
      /\ tx[c].began < AbstractBatches[tx[c].req.batch].column
      /\ tx[c].began < AbstractBatches[tx[c].req.batch].sealed
  BY <1>1, CommitSource, Zenon DEF InTransaction
<1>4. AbstractBatches' = [AbstractBatches EXCEPT ![tx[c].req.batch] = NoRow]
  BY <1>1, <1>3, Zenon DEF AbstractBatches
<1>5. Abstract!Done(c, 0)
  BY <1>1, <1>2, Does
<1>6. [d \in Call |-> tx[d].req][c] = tx[c].req /\ [d \in Call |-> tx[d].began][c] = tx[c].began
  OBVIOUS
<1>7. /\ Abstract!AllApply(AbstractStore, AbstractBatches[tx[c].req.batch].muts)
      /\ AbstractStore' = Abstract!ApplyAll(AbstractStore, AbstractBatches[tx[c].req.batch].muts)
  BY <1>3, CommitApplies
<1> QED BY <1>3, <1>4, <1>5, <1>6, <1>7 DEF Abstract!Commit

-----------------------------------------------------------------------------
(* get *)

\* The join of get finds the newest value of the secret.
LEMMA CurrentValue ==
  ASSUME SealedInv, NEW r \in Ref, secrets[r] # NoRow
  PROVE  /\ AbstractStore[r] # NoRow /\ AbstractStore[r].state = secrets[r].state
         /\ secrets[r].state \in {"active", "revoked"}
         /\ Len(AbstractStore[r].values) = secrets[r].current_version
         /\ CurrentVersion(secrets[r]) # {}
         /\ \A v \in CurrentVersion(secrets[r]) :
              v.envelope.plain = AbstractStore[r].values[secrets[r].current_version]
<1>1. PICK row \in SecretRow : row = secrets[r]
  BY DEF SealedInv, RowInv, TypeInv, TypeOK
<1>2. secret_versions \subseteq VersionRow /\ Dense(secret_versions, row) /\ Once(secret_versions)
  BY <1>1 DEF SealedInv, RowInv, TypeInv, TypeOK, VersionsDense, Dense, Once
<1>3. AbstractStore[r] = View(secret_versions, row)
  BY <1>1, StoreViews
<1>4. row # NoRow /\ AbstractStore[r] # NoRow
  BY <1>2, <1>3, ViewTyped
<1>5. /\ AbstractStore[r].state = row.state /\ AbstractStore[r].values = Values(secret_versions, row)
      /\ Len(AbstractStore[r].values) = row.current_version
  BY <1>3, <1>4, ViewFields
<1>6. PICK v \in secret_versions : v.secret_id = row.id /\ v.version = row.current_version
  BY <1>1 DEF SealedInv, Sealed, CommittedSealed, SealedIn
<1>7. row.current_version \in 1 .. row.current_version
  BY <1>2, <1>6 DEF Dense, VersionsIn
<1>8. ASSUME NEW w \in CurrentVersion(row)
      PROVE  w.envelope.plain = Values(secret_versions, row)[row.current_version]
  <2>1. w \in secret_versions /\ w.secret_id = row.id /\ w.version = row.current_version
    BY DEF CurrentVersion
  <2>2. PlainIn(secret_versions, row, w.version) = w.envelope.plain
    BY <1>2, <2>1, PlainOfVersion
  <2> QED BY <1>7, <2>1, <2>2 DEF Values
<1>9. row.state \in {"active", "revoked"}
  BY DEF SecretRow
<1> QED BY <1>1, <1>4, <1>5, <1>6, <1>8, <1>9 DEF CurrentVersion

\* Answering the newest value of an active secret is the step of the abstract get.
LEMMA AnswerGets ==
  ASSUME NEW c \in Call, NEW s, tx[c].req.op = "get", s = AbstractStore[tx[c].req.ref],
         s # NoRow, s.state = "active",
         NEW answer, answer = Abstract!Newest(s), Abstract!Return(c, answer),
         AbstractStore' = AbstractStore, AbstractBatches' = AbstractBatches
  PROVE  Abstract!Get(c)
<1>1. /\ [d \in Call |-> tx[d].req][c].op = "get"
      /\ AbstractStore[[d \in Call |-> tx[d].req][c].ref] = s
  OBVIOUS
<1>2. /\ AbstractStore[[d \in Call |-> tx[d].req][c].ref] # NoRow
      /\ AbstractStore[[d \in Call |-> tx[d].req][c].ref].state = "active"
  BY <1>1
<1>3. /\ reply' = [reply EXCEPT ![c] = answer]
      /\ [d \in Call |-> tx[d].req]'
           = [[d \in Call |-> tx[d].req] EXCEPT ![c] = Abstract!NoRequest]
      /\ [d \in Call |-> tx[d].began]' = [[d \in Call |-> tx[d].began] EXCEPT ![c] = 0]
      /\ UNCHANGED clock
  BY Zenon DEF Abstract!Return
<1>4. answer = Abstract!Newest(AbstractStore[[d \in Call |-> tx[d].req][c].ref])
  BY <1>1
<1>5. reply' = [reply EXCEPT ![c] = Abstract!Newest(AbstractStore[[d \in Call |-> tx[d].req][c].ref])]
  BY <1>3, <1>4
<1> QED BY <1>1, <1>2, <1>3, <1>5, Zenon DEF Abstract!Get, Abstract!Return

LEMMA GetGets ==
  ASSUME SealedInv, NEW c \in Call, Get(c)
  PROVE  Abstract!Get(c) \/ Abstract!Refuse(c)
<1>1. /\ tx[c].pc = "get" /\ Release(c)
      /\ UNCHANGED <<secrets, secret_versions, prepared_transactions, clock>>
  BY DEF Get, tables
<1>2. TypeInv /\ AtStatement(tx[c])
  BY TxFields DEF SealedInv, RowInv
<1>3. tx[c].req.op = "get" /\ tx[c].req.ref \in Ref
  BY <1>1, <1>2, TxFields, RequestFields DEF AtStatement
<1>4. AbstractStore' = AbstractStore /\ AbstractBatches' = AbstractBatches
  BY <1>1, SameStore, SameBatches
<1>5. [d \in Call |-> tx[d].req][c] = tx[c].req
  OBVIOUS
<1>6. PICK r \in Ref : r = tx[c].req.ref
  BY <1>3
<1>7. CASE /\ reply' = [reply EXCEPT ![c] = Answer("NotFound")]
           /\ \/ secrets[r] = NoRow
              \/ secrets[r] # NoRow /\ (secrets[r].state # "active" \/ CurrentVersion(secrets[r]) = {})
  <2>1. Abstract!Return(c, Abstract!Answer("NotFound"))
    BY <1>1, <1>2, <1>7, Returns, SameAnswer
  <2>2. AbstractStore[r] = NoRow \/ (AbstractStore[r] # NoRow /\ AbstractStore[r].state = "revoked")
    <3>1. CASE secrets[r] = NoRow
      BY <3>1 DEF AbstractStore
    <3>2. CASE secrets[r] # NoRow
      BY <1>7, <3>2, CurrentValue
    <3> QED BY <3>1, <3>2
  <2>3. Abstract!Get(c)
    BY <1>3, <1>4, <1>5, <1>6, <2>1, <2>2 DEF Abstract!Get
  <2> QED BY <2>3
<1>8. ASSUME secrets[r] # NoRow, secrets[r].state = "active", NEW v \in CurrentVersion(secrets[r]),
             NEW opened \in BOOLEAN,
             reply' = [reply EXCEPT ![c] =
                         IF opened
                         THEN [code |-> "Ok", version |-> secrets[r].current_version,
                               value |-> v.envelope.plain]
                         ELSE Answer("Crypto")]
      PROVE  Abstract!Get(c) \/ Abstract!Refuse(c)
  <2>1. CASE opened
    <3>1. AbstractStore[r] # NoRow /\ AbstractStore[r].state = "active"
          /\ secrets[r].current_version = Len(AbstractStore[r].values)
          /\ v.envelope.plain = AbstractStore[r].values[Len(AbstractStore[r].values)]
      BY <1>8, CurrentValue
    <3>2. PICK newest : newest = AbstractStore[r]
      OBVIOUS
    <3>3. PICK answer : /\ answer = [code |-> "Ok", version |-> secrets[r].current_version,
                                     value |-> v.envelope.plain]
                        /\ reply' = [reply EXCEPT ![c] = answer]
      BY <1>8, <2>1
    <3>4. answer = Abstract!Newest(newest)
      BY <3>1, <3>2, <3>3 DEF Abstract!Newest
    <3>5. Abstract!Return(c, answer)
      BY <1>1, <1>2, <3>3, Returns
    <3> QED BY <1>3, <1>4, <1>6, <3>1, <3>2, <3>4, <3>5, AnswerGets
  <2>2. CASE ~opened
    <3>1. reply' = [reply EXCEPT ![c] = Answer("Crypto")]
      BY <1>8, <2>2
    <3>2. Abstract!Reason(tx[c].req, "Crypto")
      BY <1>3 DEF Abstract!Reason
    <3> QED BY <1>1, <1>2, <1>4, <3>1, <3>2, Refuses
  <2> QED BY <2>1, <2>2
<1>9. ASSUME /\ secrets[r] # NoRow /\ secrets[r].state = "active"
           /\ \E v \in CurrentVersion(secrets[r]) :
                LET aad == associated_data(r, secrets[r].current_version, secrets[r].disclosure)
                IN  reply' = [reply EXCEPT ![c] =
                                IF opens(keyring[c], aad, v.envelope)
                                THEN [code |-> "Ok", version |-> secrets[r].current_version,
                                      value |-> v.envelope.plain]
                                ELSE Answer("Crypto")]
      PROVE  Abstract!Get(c) \/ Abstract!Refuse(c)
  <2>1. PICK v \in CurrentVersion(secrets[r]), opened \in BOOLEAN :
          reply' = [reply EXCEPT ![c] =
                      IF opened
                      THEN [code |-> "Ok", version |-> secrets[r].current_version,
                            value |-> v.envelope.plain]
                      ELSE Answer("Crypto")]
    BY <1>9
  <2> QED BY <1>8, <1>9, <2>1
<1>10. \/ /\ reply' = [reply EXCEPT ![c] = Answer("NotFound")]
          /\ \/ secrets[r] = NoRow
             \/ secrets[r] # NoRow /\ (secrets[r].state # "active" \/ CurrentVersion(secrets[r]) = {})
       \/ /\ secrets[r] # NoRow /\ secrets[r].state = "active"
          /\ \E v \in CurrentVersion(secrets[r]) :
               LET aad == associated_data(r, secrets[r].current_version, secrets[r].disclosure)
               IN  reply' = [reply EXCEPT ![c] =
                               IF opens(keyring[c], aad, v.envelope)
                               THEN [code |-> "Ok", version |-> secrets[r].current_version,
                                     value |-> v.envelope.plain]
                               ELSE Answer("Crypto")]
  BY <1>6, Zenon DEF Get
<1> QED BY <1>7, <1>9, <1>10, Zenon

-----------------------------------------------------------------------------
(* Prepared batches *)

LEMMA PreparePrepares ==
  ASSUME RefInv, NEW c \in Call, Prepare(c)
  PROVE  Abstract!Prepare(c) \/ Abstract!Refuse(c)
<1>1. /\ tx[c].pc = "insert" /\ Release(c)
      /\ UNCHANGED <<secrets, secret_versions, clock>>
  BY DEF Prepare
<1>2. TypeInv /\ AtStatement(tx[c])
  BY TxFields DEF RefInv, BatchInv
<1>3. tx[c].req.op = "prepare" /\ tx[c].req.batch \in Batch
  BY <1>1, <1>2, BatchOfCommit DEF AtStatement
<1>4. tx[c].req.muts # <<>> /\ Abstract!SameTenant(tx[c].req)
  BY <1>1 DEF RefInv, CallInv, InsertValid
<1>5. AbstractStore' = AbstractStore
  BY <1>1, SameStore
<1>6. [d \in Call |-> tx[d].req][c] = tx[c].req /\ [d \in Call |-> tx[d].began][c] = tx[c].began
  OBVIOUS
<1>7. CASE prepared_transactions[tx[c].req.batch] # NoRow
  <2>1. reply' = [reply EXCEPT ![c] = Answer("Conflict")] /\ UNCHANGED prepared_transactions
    BY <1>7 DEF Prepare
  <2>2. Abstract!Reason(tx[c].req, "Conflict")
    BY <1>2, <1>3, <1>7, BatchViews DEF Abstract!Reason
  <2>3. AbstractBatches' = AbstractBatches
    BY <2>1, SameBatches
  <2> QED BY <1>1, <1>2, <1>5, <2>1, <2>2, <2>3, Refuses
<1>8. CASE prepared_transactions[tx[c].req.batch] = NoRow
  <2>1. Reply(c, Answer("Ok"))
        /\ prepared_transactions' = [prepared_transactions EXCEPT ![tx[c].req.batch] = SealedBatch(c)]
    BY <1>8 DEF Prepare
  <2>2. Abstract!Done(c, 0)
    BY <1>1, <1>2, <2>1, DoesNothingNew
  <2>3. AbstractBatches[tx[c].req.batch] = NoRow
    BY <1>8, <1>3 DEF AbstractBatches
  <2>4. PICK row : row = SealedBatch(c)
    OBVIOUS
  <2>5. /\ row.expires_at = tx[c].began + Lifetime
        /\ row.envelope.plain.expires_at = tx[c].began + Lifetime
        /\ row.envelope.plain.muts = tx[c].req.muts
    BY <2>4 DEF SealedBatch, seal
  <2>6. SealedBatch(c) \in BatchRow
    <3>1. TypeInv'
      BY <1>2, PrepareTyped
    <3>2. prepared_transactions'[tx[c].req.batch] = SealedBatch(c)
      BY <1>2, <1>3, <2>1 DEF TypeInv, TypeOK
    <3>3. SealedBatch(c) # NoRow
      <4>1. tx[c].req.muts \in Seq(BatchMutation) /\ tx[c].began + Lifetime \in Int
        BY <1>2, <1>3, TxFields, RequestFields, StoreAssumption
      <4>2. keyring[c].active \in Key
        BY <1>2 DEF TypeInv, TypeOK, Keyring
      <4>3. SealedBatch(c) \in BatchRow
        BY <1>3, <4>1, <4>2 DEF SealedBatch, seal, BatchRow, EnvelopeOf, Payload
      <4> QED BY <4>3, StoreAssumption
    <3> QED BY <1>3, <3>1, <3>2, <3>3 DEF TypeInv, TypeOK
  <2>7. row # NoRow
    BY <2>4, <2>6, StoreAssumption
  <2>8. AbstractBatches' = [AbstractBatches EXCEPT ![tx[c].req.batch] =
                              [column |-> tx[c].began + Lifetime, sealed |-> tx[c].began + Lifetime,
                               muts |-> tx[c].req.muts]]
    <3> DEFINE new == [column |-> tx[c].began + Lifetime, sealed |-> tx[c].began + Lifetime,
                       muts |-> tx[c].req.muts]
    <3>1. prepared_transactions \in [Batch -> BatchRow \cup {NoRow}]
      BY <1>2 DEF TypeInv, TypeOK
    <3>2. prepared_transactions'[tx[c].req.batch] = row
          /\ \A b \in Batch \ {tx[c].req.batch} : prepared_transactions'[b] = prepared_transactions[b]
      BY <1>3, <2>1, <2>4, <3>1
    <3>3. AbstractBatches'[tx[c].req.batch] = new
      BY <1>3, <2>5, <2>7, <3>2 DEF AbstractBatches
    <3>4. \A b \in Batch \ {tx[c].req.batch} : AbstractBatches'[b] = AbstractBatches[b]
      BY <3>2 DEF AbstractBatches
    <3>5. DOMAIN AbstractBatches = Batch /\ AbstractBatches' = [b \in Batch |-> AbstractBatches'[b]]
      BY DEF AbstractBatches
    <3> HIDE DEF new
    <3>6. AbstractBatches' = [AbstractBatches EXCEPT ![tx[c].req.batch] = new]
      BY <1>3, <3>3, <3>4, <3>5
    <3> QED BY <3>6 DEF new
  <2>9. Abstract!Prepare(c)
    BY <1>3, <1>4, <1>5, <1>6, <2>2, <2>3, <2>8 DEF Abstract!Prepare
  <2> QED BY <2>9
<1> QED BY <1>7, <1>8

LEMMA ExpiredViews ==
  ASSUME TypeInv, NEW time
  PROVE  Abstract!Expired(time) = ExpiredAt(time)
BY BatchViews DEF Abstract!Expired, ExpiredAt

LEMMA PurgeForgets ==
  ASSUME TypeInv, NEW c \in Call, Purge(c)
  PROVE  Abstract!Forget
<1> DEFINE S == {b \in ExpiredAt(clock) : TenantOf[b] = TenantOf[tx[c].req.batch]}
<1>1. /\ tx[c].pc = "purge" /\ UNCHANGED <<secrets, secret_versions, reply, clock>>
      /\ prepared_transactions' = [d \in Batch |-> IF d \in S THEN NoRow
                                                   ELSE prepared_transactions[d]]
  BY DEF Purge
<1>2. tx[c].req.op \in {"prepare", "commit"}
  BY <1>1, TxFields DEF AtStatement
<1>3. S \in SUBSET Batch
  BY DEF ExpiredAt
<1> HIDE DEF S
<1>4. AbstractBatches' = Abstract!Without(S)
  BY <1>1, <1>3, BatchesGone
<1>5. UNCHANGED <<Pendings, Sinces>>
  <2>1. \A d \in Call \ {c} : tx'[d] = tx[d]
    BY OnlyCall DEF Progress
  <2>2. tx'[c].req = tx[c].req /\ tx'[c].began = tx[c].began
    BY SameRequest
  <2> QED BY <2>1, <2>2, SameRequests
<1>6. S = {b \in Abstract!Expired(clock) : TenantOf[b] = TenantOf[tx[c].req.batch]}
  BY ExpiredViews DEF S
<1>7. [d \in Call |-> tx[d].req][c] = tx[c].req
  OBVIOUS
<1>8. AbstractStore' = AbstractStore
  BY <1>1, SameStore
<1>9. AbstractBatches' = Abstract!Without({b \in Abstract!Expired(clock) :
                                             TenantOf[b] = TenantOf[tx[c].req.batch]})
  BY <1>4, <1>6
<1> QED BY <1>1, <1>2, <1>5, <1>7, <1>8, <1>9 DEF Abstract!Forget, Pendings, Sinces

LEMMA DropExpiredLapses ==
  ASSUME TypeInv, NEW c \in Call, DropExpired(c)
  PROVE  Abstract!Lapse(c)
<1>1. /\ tx[c].pc = "take" /\ Release(c) /\ Reply(c, Answer("NotFound"))
      /\ prepared_transactions[tx[c].req.batch] # NoRow
      /\ prepared_transactions[tx[c].req.batch].envelope.plain.expires_at <= tx[c].began
      /\ prepared_transactions' = [prepared_transactions EXCEPT ![tx[c].req.batch] = NoRow]
      /\ UNCHANGED <<secrets, secret_versions, clock>>
  BY DEF DropExpired, Matches
<1>2. tx[c].req.op = "commit" /\ tx[c].req.batch \in Batch
  BY <1>1, TxFields, BatchOfCommit DEF AtStatement
<1>3. PICK code \in {"NotFound", "Unavailable"} : reply' = [reply EXCEPT ![c] = Answer(code)]
  BY <1>1 DEF Reply
<1>4. Abstract!Return(c, Abstract!Answer(code))
  BY <1>1, <1>3, Returns, SameAnswer
<1>5. AbstractBatches' = Abstract!Without({tx[c].req.batch})
  <2>1. prepared_transactions \in [Batch -> BatchRow \cup {NoRow}]
    BY DEF TypeInv, TypeOK
  <2>2. PICK S \in SUBSET Batch : S = {tx[c].req.batch}
    BY <1>2
  <2>3. /\ \A b \in S : prepared_transactions'[b] = NoRow
        /\ \A b \in Batch \ S : prepared_transactions'[b] = prepared_transactions[b]
    BY <1>1, <1>2, <2>1, <2>2
  <2>4. AbstractBatches' = Abstract!Without(S)
    BY <2>3, BatchesGone
  <2> QED BY <2>2, <2>4
<1>6. AbstractBatches[tx[c].req.batch] # NoRow
      /\ AbstractBatches[tx[c].req.batch].sealed <= tx[c].began
  BY <1>1, <1>2, BatchViews
<1>7. [d \in Call |-> tx[d].req][c] = tx[c].req /\ [d \in Call |-> tx[d].began][c] = tx[c].began
  OBVIOUS
<1>8. AbstractStore' = AbstractStore
  BY <1>1, SameStore
<1> QED BY <1>2, <1>3, <1>4, <1>5, <1>6, <1>7, <1>8 DEF Abstract!Lapse

LEMMA AbortAborts ==
  ASSUME TypeInv, NEW c \in Call, Abort(c)
  PROVE  Abstract!Abort(c) \/ Abstract!Refuse(c)
<1>1. tx[c].pc = "abort" /\ Release(c) /\ UNCHANGED <<secrets, secret_versions, clock>>
  BY DEF Abort
<1>2. tx[c].req.op = "abort" /\ tx[c].req.batch \in Batch
  BY <1>1, TxFields, BatchOfCommit DEF AtStatement
<1>3. AbstractStore' = AbstractStore
  BY <1>1, SameStore
<1>4. CASE /\ prepared_transactions[tx[c].req.batch] # NoRow
           /\ prepared_transactions[tx[c].req.batch].expires_at > clock
           /\ prepared_transactions' = [prepared_transactions EXCEPT ![tx[c].req.batch] = NoRow]
           /\ Reply(c, Answer("Ok"))
  <2>1. AbstractBatches[tx[c].req.batch] # NoRow
        /\ AbstractBatches[tx[c].req.batch].column = prepared_transactions[tx[c].req.batch].expires_at
    BY <1>2, <1>4, BatchViews
  <2>2. clock < AbstractBatches[tx[c].req.batch].column
    <3>1. prepared_transactions[tx[c].req.batch].expires_at \in Int /\ clock \in Int
      BY <1>2, <1>4 DEF TypeInv, TypeOK, BatchRow
    <3> QED BY <1>4, <2>1, <3>1
  <2>3. AbstractBatches' = [AbstractBatches EXCEPT ![tx[c].req.batch] = NoRow]
    BY <1>2, <1>4 DEF AbstractBatches, TypeInv, TypeOK
  <2>4. Abstract!Done(c, 0)
    BY <1>1, <1>4, DoesNothingNew
  <2>5. [d \in Call |-> tx[d].req][c] = tx[c].req
    OBVIOUS
  <2>6. Abstract!Abort(c)
    BY <1>2, <1>3, <2>1, <2>2, <2>3, <2>4, <2>5 DEF Abstract!Abort
  <2> QED BY <2>6
<1>5. CASE reply' = [reply EXCEPT ![c] = Answer("NotFound")] /\ UNCHANGED prepared_transactions
  <2>1. Abstract!Reason(tx[c].req, "NotFound")
    BY <1>2 DEF Abstract!Reason
  <2>2. AbstractBatches' = AbstractBatches
    BY <1>5, SameBatches
  <2> QED BY <1>1, <1>3, <1>5, <2>1, <2>2, Refuses
<1> QED BY <1>4, <1>5 DEF Abort

LEMMA ResealRewraps ==
  ASSUME RefInv, NEW c \in Call, ResealBatches(c)
  PROVE  Abstract!Rewrap(c)
<1>1. /\ tx[c].pc = "resealing" /\ Release(c) /\ UNCHANGED <<secrets, secret_versions, clock>>
      /\ Reply(c, [Answer("Ok") EXCEPT !.version = tx[c].count])
  BY DEF ResealBatches, AtReseal
<1>2. TypeInv
  BY DEF RefInv, BatchInv
<1>3. tx[c].req.op = "rewrap"
  BY <1>1, <1>2, TxFields DEF AtStatement
<1>4. PICK gone \in SUBSET Batch :
        gone = {b \in Batch : batch_lock[b] = c /\ prepared_transactions[b] # NoRow}
  OBVIOUS
<1>5. gone \subseteq Abstract!Expired(tx[c].began)
  <2>1. gone \subseteq ExpiredAt(tx[c].began)
    BY <1>1, <1>4 DEF RefInv, CallInv, LockedBatches, InTransaction, ExpiredAt
  <2>2. tx[c].began \in Int
    BY <1>2, TxFields
  <2> QED BY <1>2, <2>1, ExpiredViews
<1>6. AbstractBatches' = Abstract!Without(gone)
  <2>1. ASSUME NEW b \in Batch
        PROVE  AbstractBatches'[b] = IF b \in gone THEN NoRow ELSE AbstractBatches[b]
    <3>1. CASE batch_lock[b] = c
      <4>1. prepared_transactions'[b] = NoRow
        BY <3>1 DEF ResealBatches
      <4> QED BY <1>4, <3>1, <4>1 DEF AbstractBatches
    <3>2. CASE batch_lock[b] # c /\ b \notin ToReseal(c)
      <4>1. prepared_transactions'[b] = prepared_transactions[b]
        BY <3>2 DEF ResealBatches
      <4> QED BY <1>4, <3>2, <4>1 DEF AbstractBatches
    <3>3. CASE batch_lock[b] # c /\ b \in ToReseal(c)
      <4>1. PICK row \in BatchRow : row = prepared_transactions[b] /\ row # NoRow
        BY <1>2, <3>3 DEF ToReseal, TypeInv, TypeOK
      <4>2. PICK new : /\ new = [row EXCEPT !.envelope = reseal(keyring[c], @)]
                       /\ prepared_transactions'[b] = new
        BY <3>3, <4>1 DEF ResealBatches
      <4>3. new.expires_at = row.expires_at /\ new.envelope.plain = row.envelope.plain
        BY <4>2 DEF BatchRow, reseal, seal
      <4>4. new # NoRow
        <5>1. PICK envelope \in EnvelopeOf(Batch, Payload) : envelope = reseal(keyring[c], row.envelope)
          <6>1. row.envelope \in EnvelopeOf(Batch, Payload)
            BY DEF BatchRow
          <6> QED BY <1>2, <6>1, ResealTyped
        <5>2. new \in BatchRow
          BY <4>2, <5>1 DEF BatchRow
        <5> QED BY <5>2, StoreAssumption
      <4>5. b \notin gone
        BY <1>4, <3>3
      <4> QED BY <4>1, <4>2, <4>3, <4>4, <4>5 DEF AbstractBatches
    <3> QED BY <3>1, <3>2, <3>3
  <2>2. AbstractBatches' = [b \in Batch |-> AbstractBatches'[b]]
    BY DEF AbstractBatches
  <2> QED BY <2>1, <2>2, Zenon DEF Abstract!Without
<1>7. PICK r \in {[Answer("Ok") EXCEPT !.version = tx[c].count], Answer("Unavailable")} :
        reply' = [reply EXCEPT ![c] = r]
  BY <1>1 DEF Reply
<1>8. Abstract!Return(c, r)
  BY <1>1, <1>2, <1>7, Returns
<1>9. r \in {[Abstract!Answer("Ok") EXCEPT !.version = reply'[c].version], Abstract!Answer("Unavailable")}
  <2>1. reply'[c] = r
    BY <1>2, <1>7 DEF TypeInv, TypeOK
  <2>2. [Answer("Ok") EXCEPT !.version = tx[c].count].version = tx[c].count
    BY DEF Answer
  <2> QED BY <1>7, <2>1, <2>2, SameAnswer
<1>10. [d \in Call |-> tx[d].req][c] = tx[c].req /\ [d \in Call |-> tx[d].began][c] = tx[c].began
  OBVIOUS
<1>11. AbstractStore' = AbstractStore
  BY <1>1, SameStore
<1> QED BY <1>3, <1>5, <1>6, <1>8, <1>9, <1>10, <1>11 DEF Abstract!Rewrap

-----------------------------------------------------------------------------
(* The steps of nobody's call *)

LEMMA ExpiryRewritten ==
  ASSUME TypeInv, RewriteExpiry
  PROVE  Abstract!RewriteExpiry
<1>1. PICK b \in Batch, time \in {0, MaxClock + 1} :
        /\ prepared_transactions[b] # NoRow
        /\ prepared_transactions' = [prepared_transactions EXCEPT ![b].expires_at = time]
        /\ UNCHANGED <<secrets, secret_versions, tx, reply, clock>>
  BY Zenon DEF RewriteExpiry
<1>2. PICK row \in BatchRow : row = prepared_transactions[b]
  BY <1>1 DEF TypeInv, TypeOK
<1>3. PICK new : /\ new = [row EXCEPT !.expires_at = time]
                 /\ prepared_transactions'[b] = new
                 /\ \A d \in Batch \ {b} : prepared_transactions'[d] = prepared_transactions[d]
  BY <1>1, <1>2 DEF TypeInv, TypeOK
<1>4. new.expires_at = time /\ new.envelope = row.envelope
  BY <1>3 DEF BatchRow
<1>5. new \in BatchRow /\ new # NoRow
  <2>1. time \in Int
    BY StoreAssumption
  <2>2. new \in BatchRow
    BY <1>3, <2>1 DEF BatchRow
  <2> QED BY <2>2, StoreAssumption
<1>6. AbstractBatches[b] # NoRow
  BY <1>1, BatchViews
<1>7. AbstractBatches' = [AbstractBatches EXCEPT ![b].column = time]
  <2>1. PICK before : before = AbstractBatches[b]
    OBVIOUS
  <2>2. before = [column |-> row.expires_at, sealed |-> row.envelope.plain.expires_at,
                  muts |-> row.envelope.plain.muts]
    BY <1>1, <1>2, <2>1 DEF AbstractBatches
  <2>3. AbstractBatches'[b] = [column |-> time, sealed |-> row.envelope.plain.expires_at,
                               muts |-> row.envelope.plain.muts]
    BY <1>3, <1>4, <1>5 DEF AbstractBatches
  <2>4. AbstractBatches'[b] = [before EXCEPT !.column = time]
    BY <2>2, <2>3
  <2>5. \A d \in Batch \ {b} : AbstractBatches'[d] = AbstractBatches[d]
    BY <1>3 DEF AbstractBatches
  <2>6. DOMAIN AbstractBatches = Batch /\ AbstractBatches' = [d \in Batch |-> AbstractBatches'[d]]
    BY DEF AbstractBatches
  <2>7. AbstractBatches' = [AbstractBatches EXCEPT ![b] = [before EXCEPT !.column = time]]
    BY <2>4, <2>5, <2>6
  <2> QED BY <2>1, <2>7
<1>8. AbstractStore' = AbstractStore /\ UNCHANGED <<Pendings, Sinces>>
  BY <1>1, SameStore DEF Pendings, Sinces
<1>9. UNCHANGED <<AbstractStore, Pendings, Sinces, reply, clock>>
  BY <1>1, <1>8
<1> QED BY <1>6, <1>7, <1>9, Zenon DEF Abstract!RewriteExpiry, Pendings, Sinces

LEMMA ClockTicks ==
  ASSUME Tick
  PROVE  Abstract!Tick
<1>1. clock' = clock + 1 /\ UNCHANGED <<secrets, secret_versions, prepared_transactions, tx, reply>>
  BY DEF Tick, tables
<1>2. AbstractStore' = AbstractStore /\ AbstractBatches' = AbstractBatches
      /\ UNCHANGED <<Pendings, Sinces>>
  BY <1>1, SameStore, SameBatches DEF Pendings, Sinces
<1> QED BY <1>1, <1>2 DEF Abstract!Tick, Pendings, Sinces

LEMMA NothingStutters ==
  ASSUME UNCHANGED vars
  PROVE  UNCHANGED Abstract!vars
<1>1. UNCHANGED <<secrets, secret_versions, prepared_transactions, tx, reply, clock>>
  BY DEF vars, tables
<1>2. AbstractStore' = AbstractStore /\ AbstractBatches' = AbstractBatches
      /\ UNCHANGED <<Pendings, Sinces>>
  BY <1>1, SameStore, SameBatches DEF Pendings, Sinces
<1> QED BY <1>1, <1>2, Stutters

-----------------------------------------------------------------------------
(* The refinement *)

LEMMA InitAbstract == Init => Abstract!Init
<1> SUFFICES ASSUME Init PROVE Abstract!Init
  OBVIOUS
<1>1. AbstractStore = [r \in Ref |-> NoRow] /\ AbstractBatches = [b \in Batch |-> NoRow]
  BY DEF Init, AbstractStore, AbstractBatches
<1>2. \A c \in Call : tx[c].req = Abstract!NoRequest /\ tx[c].began = 0
  BY DEF Init, Idle, NoRequest, Abstract!NoRequest
<1>3. reply = [c \in Call |-> Abstract!Answer("Ok")] /\ clock = 0
  BY DEF Init, Answer, Abstract!Answer
<1> QED BY <1>1, <1>2, <1>3 DEF Abstract!Init

\* What a step of a call is to the abstract store.
AbstractStep(c) ==
  \/ Abstract!Invoke(c) \/ Abstract!Restamp(c) \/ Abstract!Mutate(c) \/ Abstract!Get(c)
  \/ Abstract!Prepare(c) \/ Abstract!Commit(c) \/ Abstract!Abort(c) \/ Abstract!Rewrap(c)
  \/ Abstract!Refuse(c) \/ Abstract!Lapse(c)

\* A step of a call is a step of the same call, a purge, or invisible.
LEMMA CallSimulates ==
  ASSUME RefInv, RowInv', NEW c \in Call, Invoke(c) \/ Progress(c) \/ Lose(c)
  PROVE  AbstractStep(c) \/ Abstract!Forget \/ UNCHANGED Abstract!vars
<1>1. TypeInv /\ RowInv /\ SealedInv
  BY DEF RefInv, SealedInv, RowInv
<1>2. CASE Invoke(c) \/ Lose(c) \/ Begin(c) \/ SelectBatches(c)
  BY <1>1, <1>2, InvokeAsks, LoseRefuses, BeginRestamps DEF AbstractStep
<1>3. CASE \/ Block(c) \/ SelectForUpdate(c) \/ Upsert(c) \/ DeleteRow(c) \/ RevokeRow(c)
           \/ TakeBatch(c) \/ SelectVersions(c) \/ LockVersions(c) \/ RewrapVersions(c)
  BY <1>1, <1>3, StatementStutters
<1>4. CASE \/ RefuseReference(c) \/ RowMissing(c) \/ RefuseBatch(c) \/ UpsertRefused(c)
           \/ RefuseCommit(c) \/ RewrapFails(c) \/ ResealFails(c) \/ DeadlockAbort(c)
  BY <1>1, <1>4, RefuseReferenceRefuses, RowMissingRefuses, RefuseBatchRefuses, FailureRefuses
     DEF AbstractStep
<1>5. CASE Commit(c)
  BY <1>5, CommitMutates, CommitCommits DEF AbstractStep
<1>6. CASE Get(c) \/ Prepare(c) \/ Abort(c)
  BY <1>1, <1>6, GetGets, PreparePrepares, AbortAborts DEF AbstractStep
<1>7. CASE Purge(c) \/ DropExpired(c) \/ ResealBatches(c)
  BY <1>1, <1>7, PurgeForgets, DropExpiredLapses, ResealRewraps DEF AbstractStep
<1> QED BY <1>2, <1>3, <1>4, <1>5, <1>6, <1>7, Zenon DEF Progress

\* Every step of the store is a step of the port, or invisible.
LEMMA Simulation == RefInv /\ [Next]_vars => [Abstract!Next]_(Abstract!vars)
<1> SUFFICES ASSUME RefInv, [Next]_vars PROVE [Abstract!Next]_(Abstract!vars)
  OBVIOUS
<1>1. TypeInv /\ RowInv'
  BY RowStep DEF RefInv, SealedInv, BatchInv
<1>2. CASE \E c \in Call : Invoke(c) \/ Progress(c) \/ Lose(c)
  <2>1. PICK c \in Call : Invoke(c) \/ Progress(c) \/ Lose(c)
    BY <1>2
  <2>2. AbstractStep(c) \/ Abstract!Forget \/ UNCHANGED Abstract!vars
    BY <1>1, <2>1, CallSimulates
  <2> QED BY <2>2, Zenon DEF AbstractStep, Abstract!Next
<1>3. CASE RewriteExpiry \/ Tick \/ UNCHANGED vars
  <2>1. Abstract!RewriteExpiry \/ Abstract!Tick \/ UNCHANGED Abstract!vars
    BY <1>1, <1>3, ExpiryRewritten, ClockTicks, NothingStutters
  <2> QED BY <2>1, Zenon DEF Abstract!Next
<1> QED BY <1>2, <1>3, Zenon DEF Next

\* Every behaviour of the store, with its locks, its waits, its transactions that
\* fail at any statement and its rewraps, is one of the atomic store that the
\* SecretStore port promises (crates/secrets-postgres/src/lib.rs): a call takes
\* effect at most once, at one instant, and its answer tells.
THEOREM StoreRefinesCustody == Spec => Refinement
<1> QED
  BY InitRef, InitAbstract, RefStep, Simulation, PTL DEF Spec, Refinement, Abstract!Spec
==============================================================================
