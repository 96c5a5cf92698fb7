----------------------- MODULE PostgresStoreRefinement -----------------------
(***************************************************************************)
(* PostgresStore implements Custody.  A secret's values are the plaintexts *)
(* of the versions of its row, whatever keys they are wrapped under; a     *)
(* batch is the payload of its envelope.                                   *)
(***************************************************************************)
EXTENDS PostgresStore

Secret == [owner : Owner, disclosure : Disclosure, state : {"active", "revoked"},
           values : Seq(Value)]
PreparedBatch == [column : Int, sealed : Int, muts : Seq(BatchMutation)]
ASSUME AbsenceAssumption == NoRow \notin Secret /\ NoRow \notin PreparedBatch

\* The plaintext of version n of a row.
PlainOf(row, n) ==
  (CHOOSE v \in secret_versions : v.secret_id = row.id /\ v.version = n).envelope.plain

AbstractStore ==
  [r \in Ref |->
     IF secrets[r] = NoRow THEN NoRow
     ELSE [owner |-> secrets[r].owner, disclosure |-> secrets[r].disclosure,
           state |-> secrets[r].state,
           values |-> [n \in 1 .. secrets[r].current_version |-> PlainOf(secrets[r], n)]]]

AbstractBatches ==
  [b \in Batch |->
     IF prepared_transactions[b] = NoRow THEN NoRow
     ELSE LET row == prepared_transactions[b]
          IN  [column |-> row.expires_at, sealed |-> row.envelope.plain.expires_at,
               muts |-> row.envelope.plain.muts]]

Abstract == INSTANCE Custody WITH
  store <- AbstractStore,
  batches <- AbstractBatches,
  pending <- [c \in Call |-> tx[c].req],
  since <- [c \in Call |-> tx[c].began]

\* The store's SQL, with its locks, waits, failures and rewraps, is the atomic
\* store of the SecretStore port (crates/secrets-postgres/src/lib.rs).
Refinement == Abstract!Spec
=============================================================================
