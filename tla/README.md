# Secrets: verification of the custody service

TLA+ models of the custody service in this repository, the TLC runs that check
them, and TLAPS proofs about them. Every definition is translated from the
source; `PROJECT.json` (`map`) names the lines each one stands for.

## The system

A **secret** is custody of a value under a reference (tenant, namespace, key).
Workloads write and read values over HTTP, users list, revoke and delete the
secrets they own, and an operator rotates the key that wraps everything. Beside
the service there is `secretsctl`, which stores a user's own secrets in one of
several backends behind a routing layer.

| Component | State it keeps | Operations | Interacts with |
|---|---|---|---|
| PostgreSQL store (`secrets-postgres`) | tables `secrets`, `secret_versions`, `prepared_transactions`, `audit_events` | put, get, exists, delete, revoke, list, prepare, commit, abort, `rewrap_all` | every process shares the database; seals through the keyring |
| Envelope encryption (`secrets-crypto`) | the keyring of a process | seal, open, reseal | called by the store |
| SecretStore port (`secrets-core`) | none | the trait the handlers call | implemented by the store |
| HTTP handlers (`secrets-http`) | none between awaits but the request | one handler per route | authorities, then the port |
| Authorities (`secrets-auth`) | grants file, reviewer token | `verify` | network services |
| Service process (`secrets-app`) | keyring read at start | `serve`, `migrate`, `rewrap` | the store |
| Storage contract (`secrets-core/storage`, `authorize`) | none | the checks of an input, the access decision, what a backend answers | in front of and implemented by the backends |
| Remote backend, client | none | the contract over HTTP; rename through a batch | the service |
| Keychain backend | the platform's credential store | the contract | other processes on the same store |
| Federation | namespaces, mounts, bindings | add, remove, mount, bind, unbind, route | configuration and backends |
| Configuration file | one file, a lock file, staged files | load, change | other processes |
| Command line client (`secretsctl`) | backends mounted at start, output file, temporary file | commands | configuration, federation, backends |
| Conformance runner (`checks/conformance`) | one world per scenario: configuration, fakes, armed faults | begin, force an outcome, execute, end | the whole stack, in its process or through `secretsctl` |
| Documentation generator (`secrets-docs`) | none | renders documents from the specification | none |

What is hard here: several service processes run transactions at READ COMMITTED
on the same rows and rely on row locks, on a unique index and on a foreign key to
stay apart; prepared batches expire by two clocks' readings and must apply at most
once; the connection may drop before or after COMMIT; `rewrap_all` rewrites rows
under running calls; keyrings are read once per process, so old and new ones serve
side by side; handlers check and act in different statements; a federated command decides on a
look-up that nothing holds in place until it acts; a file may be cut short, replaced or left
behind by a failure, a death or a loss of power; a conformance scenario arranges a world
from whatever the scenario did before, and infers from codes and counters which branch was
taken. `PROJECT.json`
(`hazards`) lists each at its line with the properties that cover it.

## Modules

| Module | Models |
|---|---|
| `Envelope` | `crates/secrets-crypto`: keyrings, seal, open, reseal, symbolically |
| `PostgresStore` | `crates/secrets-postgres` and its schema, a step per SQL statement |
| `Custody` | the promise of the `SecretStore` port: one atomic step per call |
| `PostgresStoreRefinement` | the mapping under which `PostgresStore` implements `Custody` |
| `KeyRotation` | the documented rotation around serving processes, over `PostgresStore` |
| `CustodyHttp` | the handlers of `crates/secrets-http`, over `Custody` |
| `CustodyHttpRaces` | which handlers a change of owner has overtaken, and whose secrets users act on |
| `ConfigDocument` | what a namespace configuration says, and its five changes |
| `NamespaceConfig` | the promise of a persistent configuration: atomic changes that survive |
| `FileConfig` | `crates/secrets-federation/src/file.rs`, a step per system call |
| `StoragePort` | the port's checks, access decision and answers of `crates/secrets-core`, as operators |
| `ConfiguredBackends` | `crates/secretsctl/src/backends.rs`: what a process mounts and can reach |
| `Federation` | `crates/secrets-federation/src/lib.rs` under the commands of `secretsctl` |
| `FederationRaces` | which commands another has overtaken, and where secrets and bindings may end up |
| `ConformanceWorld` | what a conformance target arranges, and how it reads a branch off an answer |
| `Conformance` | scenarios against a storage target, in the library and in the CLI, over `Federation` |
| `OutFile` | `crates/secretsctl/src/out.rs` and its caller, a step per system call |
| `KeychainBackend` | `crates/secrets-keychain`, a step per call to the platform's credential store |
| `RemoteBackend` | `crates/secrets-remote` and `crates/secrets-client`, a step per request, over `Custody` |
| `RemoteRaces` | which renames another caller has overtaken, and where values may be and go |
| `MCStore`, `MCRotation`, `MCHttp`, `MCConfig`, `MCFederation`, `MCKeychain`, `MCRemote`, `MCConformance`, `MCOut` | instances for TLC |
| `PostgresStoreProofs` | type correctness of `PostgresStore`, batches in time, density of versions, and with it `CurrentVersionOpens` and `AuditMatchesTables`; that it implements `Custody` |
| `FileConfigProofs` | that the file is never torn, keeps what was answered and implements `NamespaceConfig` |
| `FederationProofs` | types of `Federation`, and where secrets and bindings may end up however commands interleave |
| `KeyRotationProofs` | the two invariants of the rotation, over those of the store |
| `KeychainBackendProofs` | types of `KeychainBackend`, and that renames lose and duplicate nothing |
| `CustodyHttpProofs` | that every effect is authorized, and that users act on what they own, also while owners change |
| `RemoteBackendProofs` | types of `RemoteBackend`, and for any number of callers that values are neither lost nor doubled and that a refused rename did not happen |

### PostgresStore

A **call** is one request in flight in one process; `tx[c]` holds what the code
keeps in local variables (`todo`, `found`, `began`, `targets`, `count`) and what
PostgreSQL keeps for the open transaction (`dirty`, `written`, `dead`, `events`).
`pc` is the statement the call is at:

| `pc` | Statement | Action |
|---|---|---|
| `exec` | the next mutation: `SELECT ... FOR UPDATE`, `DELETE`, `UPDATE`, or `COMMIT` when none is left | `SelectForUpdate`, `RefuseReference`, `DeleteRow`, `RevokeRow`, `RowMissing`, `Commit`, `Block` |
| `upsert` | the inserts of `put_tx` and its audit row | `Upsert`, `UpsertRefused` |
| `get` | the join, and the decryption | `Get` |
| `purge` | `purge_expired` of prepare and commit | `Purge`, `RefuseBatch` |
| `insert` | the INSERT of prepare | `Prepare` |
| `begin`, `take` | BEGIN and the DELETE ... RETURNING of commit | `Begin`, `TakeBatch`, `RefuseCommit`, `DropExpired` |
| `abort` | the DELETE of abort | `Abort` |
| `rewrap`, `lock` | the SELECT ... FOR UPDATE of `rewrap_all`, row by row, then its UPDATEs and COMMIT | `SelectVersions`, `LockVersions`, `RewrapVersions`, `RewrapFails` |
| `reseal`, `resealing` | `reseal_batches` | `SelectBatches`, `ResealBatches`, `ResealFails` |

PostgreSQL is modelled at READ COMMITTED as far as the store relies on it. A
statement sees committed rows and its own transaction's writes. A row that was
locked, updated, inserted or deleted is held until the transaction ends. A
statement that waits for a row (`Block`, `snap`) then re-reads that row: it goes on
with the newest committed contents, finds nothing when the row was deleted, and
does not see one inserted in its place. An uncommitted insert is invisible, except to
the unique index. The foreign key and the primary key of `secret_versions` refuse
what they refuse (`ForeignKeyHolds`, `PrimaryKeyFree`). A cycle of waits is broken
by ending any of its members (`DeadlockAbort`). A connection, a process or a future
may be lost at any statement (`Lose`), and the answer of a change may be lost after
it took effect (`Reply`).

### Custody, CustodyHttp, KeyRotation

`Custody` has no keys, row ids, locks or transactions: a secret is its owner,
disclosure, state and the sequence of its values, and each call takes effect in one
step between its start and its reply. An error other than `Unavailable` means that
nothing changed. `CustodyHttp` puts the handlers in front of it, each await a step:
verify the token, check action and tenant, list the owner's secrets on user routes,
call the store, answer. `KeyRotation` adds the operator, the keyring file and
restarts; servers read the file at a restart, and a restart by SIGTERM ends the
call in flight.

The owner that `assert_owner` lists is not held until the store acts. `CustodyHttpRaces` adds the
history variable `reowned`, the handlers for which a workload has meanwhile put the secret for
another owner, alone or in a batch; `UserActsOnlyOnOwned` exempts exactly these.

### FileConfig

`change` of `file.rs` is one process at one of these places; the files it works on are
`file` (what the path names), `staged[c]` (its own temporary file) and `durable` (what
the path may name after a loss of power, as the directory is not synced by a rename).

| `pc` | Code | Action |
|---|---|---|
| `opening` | create the directory, open the lock file | `Open` |
| `locking` | `lock.lock()` | `Acquire` |
| `loading` | `load`, the closure of the change | `LoadRefused`, `LoadAccepted` |
| `staging`, `syncing` | `write_all`, `sync_all` of the temporary file | `Stage`, `SyncFile` |
| `renaming`, `settling` | `rename`, `sync_all` of the directory | `Rename`, `SyncDirectory` |
| `unlocking` | `drop(lock)` | `Finish` |

`Fail` is an error of any step (the temporary file is removed, a rename is not undone),
`Die` the end of a process (the kernel drops its lock), `Loss` a loss of power, after
which a file that was not synced may be cut short. `Look` reads without the lock.

`NamespaceConfig` is the promise: `Rename` is the instant a change takes effect,
`SyncDirectory` the instant it is there to stay, and everything before is invisible.

### StoragePort and ConfiguredBackends

Both are pure. `StoragePort` lists the checks of each command in the order the port makes
them (`ChecksOf`) and refuses by the first that fails (`Refusal`); a text is the class of its
fault, since no property tells two well-formed names apart. `Decision` is `LocalAuthorizer`,
`ActionsOf` what `Authorized` asks it about, `Needs` what routing asks of a backend, and
`ReadFrom` to `RenameIn` what a backend that keeps secrets by address does. `RenameIn` allows
both refusals when the old name is missing and the new one taken, as the fake looks at the
new name first and the other backends at the old one.

`ConfiguredBackends` says what a process of `secretsctl` makes of its `backends` table: a
table that does not parse is an empty one, `keychain/default` needs no entry, and an entry
that cannot be built (no credential store, an origin or a token that is refused) is mounted
all the same and answers `unavailable`. So `Registered` and `Usable` differ, and
`SecretsReachable` depends on it.

### Federation

The configuration is the atomic document of `NamespaceConfig`, each backend the set of
addresses it holds a secret for, and every await of a command is one step: decide on the
scope and open the backends (`Admit`), look up the namespace (`LookUp...`, `Resolve`), look
for bindings (`CheckBindings`, `Locate`, `CheckFrom`, `CheckTo`), ask the backend whether
secrets remain (`CheckSecrets`), change the configuration (`ChangeConfig`), call the backend
(`Backend...`, `AnswersUnreachable`), look the mount up again for the printed report
(`Report`). `registered[c]` and `usable[c]` are what `backends::load` made of one of the
`Environments` when the process started, `mount[c]` the backend the command has captured.

`FederationRaces` adds the history variable `overtaken`: the commands for which another has, since
they looked, removed, added or moved their namespace, bound a name under a namespace they remove,
stored a secret where they remove or remount, or bound a name they rename (`Overtakes`). The
properties are about steps: nothing is stranded, left without its namespace or moved but by a
command in that set (or, for secrets, by one whose table lacks the backend, `Unnamed`), so a
command that was not overtaken has to keep every promise beside any others.

### ConformanceWorld and Conformance

`Conformance` puts one more actor in front of `Federation`: the target a scenario runs
against. Its state is the world of `storage.rs` or `cli.rs` (`configured`, `armed`, and the
configuration and backends of `Federation`), the outcome the scenario forces on a command
(`forcing`), and what is noted around a command to tell branches apart (`before`, `reached`).

| `phase` | Code | Action |
|---|---|---|
| `closed`, `open`, `errored` | `begin_scenario`, `end_scenario`, `configure_external_outcome`, `execute_command` up to the port's answer | `BeginScenario`, `EndScenario`, `ForceOutcome`, `ExecuteCommand` |
| `arrange` | `arrange` and the ensure and clear functions it calls (`Arranged`) | `Arrange` |
| `send` | switches flipped, counters marked, the command sent | `Send` |
| `run` | the command's own steps, which fail where something is switched off | `Run` over `Step` of `Federation` |
| `run`, when it has ended | the switches undone, the branch read off | `Observe` |

`holding` is history: the branches whose conditions, in the words of
`spec/domains/storage.yaml`, held in the world the command was sent in. `TrueBranch` compares
the branch the adapter answers with it.

### OutFile

A read that writes to a file is one process at `pc`: the path is checked (`Check`), the
temporary file created and its mode set (`CreateTemp`, `SetMode`), the port asked (`Ask`), the
value written in parts (`Write`) and synced (`SyncFile`), the file linked into place (`Link`),
the temporary name removed (`Drop`), and the mount looked up for the report (`Report`). A file
is known by the process that made it: `content`, `synced` and `private` are what is true of
it wherever it is named, `path` and `temp` the two names it may have. `Other` is another
program at the path, `LosePower` a loss of power, after which what was not synced may be cut
short and names that no directory sync protects may be gone or back.

### KeychainBackend

Every operation runs on a blocking thread to its end, whether or not its caller waits
(`spawn_blocking`), so no operation is cut short except by the death of its process.
`entry` is the credential store, shared by all processes; an entry is known by the version
`seal` made for it, which a rename carries along. `dropped` is history: the entries a
write or a delete has taken away, which `NothingLost` needs, as an undo may take away what
another process has just deleted. `changes[p]` is the mutex of process `p`.

| `pc` | Code | Action |
|---|---|---|
| `lock` | `calls.exclusive()` | `Exclusive` |
| `get` | `get_secret` of read | `Read` |
| `probe`, `set` | `stored`, then `set_secret` of write | `Probe`, `Set` |
| `remove` | `delete_credential` of delete | `Delete` |
| `source`, `destination` | the two look-ups of rename | `Source`, `Destination` |
| `copy`, `clear`, `undo` | `set_secret`, `delete_credential` of the source, and of the copy if that fails | `Copy`, `Clear`, `Undo` |
| `search`, `scan` | the search of list, then each entry it found | `Search`, `Scan`, `Listed` |

`Fail` is a store call that returns an error: it has changed nothing, or with `LateFaults`
it has done its work. `Die` ends all operations of a process and frees its mutex.

### RemoteBackend

`store`, `batches`, `pending` and `reply` are those of `Custody`, which takes the place of
the service: `Send` makes a request, an action of `Custody` carries it out or refuses it and
may lose the answer (`Unavailable`), and the action named after the request goes on with the
answer as `classify` and `refusal` tell it. `pc` is the request a command is at: `get`,
`put` and `delete` for the three simple ones, `fetch`, `exists`, `prepare`, `commit` and
`abort` for a rename. `Refused` is a request the service turns away before its store
(authorization, body limit), `Revoke` a user's revocation through the user routes.

`RemoteRaces` adds the history variable `overtaken`: the renames for which another caller has, before
their commit takes effect, written the old name since they read it or the new one since they looked
at it. `NothingLost` lets a value go with such a rename and with no other, `OnePlace` lets only such
a rename put a value under a second name, and `RefusedRenameStays` is about those not in the set.

## Runs

All bounds are constants: `MaxCalls` (calls made), `MaxFaults` (losses and edits),
`MaxClock` (ticks).

| Run | What it asks | Instance |
|---|---|---|
| `store_rows` | `VersionsDense`, `CurrentVersionOpens`, `AuditMatchesTables` under races on a reference, and `EveryCallAnswered` | 2 processes, 4 calls, 1 fault; a put, a delete and a revoke of one reference, and two batches of another owner and disclosure that take two rows in opposite orders |
| `store_batches` | `Refinement` and `HeldBatchInTime` with batches and expiry | 2 processes, 4 calls, 1 fault or edit of the expiry column, 1 tick; batches that delete and put the same reference, a malformed, an empty and a cross-tenant one; put, delete and get, also of a malformed reference |
| `store_rewraps` | `Refinement` and `TypeOK` while `rewrap_all` runs | 2 processes, one with the old keyring and one with both keys; two references, a batch on both |
| `store_disclosure` | expects a violation of `RewrapOpensEveryVersion` | see Findings |
| `rotation` | `EveryServerOpensEverything`, `NothingNamesRetiredKey`, `RotationCompletes` | 2 servers and the operator, 3 calls, 1 lost connection of the rewrap |
| `http` | `EffectsAuthorized`, and `UserActsOnlyOnOwned` while owners change | 2 requests at a time, 4 in all, two tenants, users and workloads, one that may only read; a reference that is put for one user, another and none, alone and in a batch |
| `config_file` | `WholeFile`, `AnsweredIsDurable`, `Refinement` and `ChangesAnswered` of the file | 2 processes, 3 changes of 5 kinds, 1 failed step or death, 1 loss of power; the file is missing, or made by hand without the default namespace |
| `federation` | where secrets and bindings may end up: `SecretsReachable`, `BindingsHaveNamespace`, `BindingsNeverMove` | 2 commands at once, 4 in all, of 18 requests, 1 failure at any step; a keychain, a service, and a read-only vault that reads by locator; processes that start with everything reachable, without the token of the service, without a credential store or with a table that does not parse |
| `keychain` | `OneNameEach`, `NothingLost` and `CreatedOverwritesNothing` | 2 operations of 8 kinds at a time in one process, deletes in another, 4 in all, 2 failed store calls, 1 death |
| `remote` | `OnePlace`, `NothingLost` and `RefusedRenameStays` while two callers race | 2 callers, 3 commands of 9 kinds, every answer may be lost, 1 refused request, 1 revocation, 1 tick |
| `conformance` | whether the runner's verdict can be trusted: `TrueBranch`, `ArrangedHolds`, `ForcedTaken`, `ViewShowsAll`, `FaultSpent` | any number of scenarios one after another, each with up to 2 commands that reach the stack and any number the port refuses; 25 inputs, 38 forced outcomes, 5 backends of three kinds; both targets |
| `out_file` | `WholeOrNothing`, `NeverReplaces`, `AnswerTellsFile`, `TempRemoved` | 2 reads into one path, 3 failures, deaths or losses of power, 3 changes of the path by other programs |

Why the bounds are enough: what can go wrong in the store needs two writers on one
row and a third call that observes or replaces it: two processes and four calls reach
first put, second put, delete and put again with any two of them at once, and two prepared
batches whose commits wait for each other. The proof of `VersionsDense` bounds neither. A batch needs a
prepare, a commit and a rival (commit, abort, put or delete), one tick past its
lifetime of one, and one fault. The rotation needs a write by each server around the
rewrap. The file needs two writers, so that one
may come between load and rename of the other, and a third change after a death under the
lock. A federated command goes wrong by another between its look-up and its effect; what they
meet takes two commands more, as a namespace is added and a secret or a binding put under it.
The proofs bound neither. A conformance command depends on what one earlier command left (a
namespace, a secret, a binding, an armed entry), as arrangement looks at one scope: two
commands in one world show that. Two reads race for one path, three faults fail a write, its
clean-up and the machine. A
keychain rename goes wrong by a store call of another operation or by a failure after its
copy, and once more in its undo: three operations, two failures and a death cover that; the
fourth puts a secret there to lose. A remote rename has five requests; three commands put a value
there, rename it, and write, delete, rename or rename back between the requests of that rename.
Only the exemption of `OnePlace` needs more, three names and four commands: the value is written,
renamed by both callers, and the old name written again. The proof covers any number. Deadlock is checked in `config_file`, where lookups are always possible, and in
`conformance`, where a scenario can always be ended;
elsewhere, when all calls have been made, the model stops by its bounds. That no call waits
forever is the property `EveryCallAnswered`, and `ChangesAnswered` for the file.

**Fairness.** `FairSpec` assumes weak fairness of each call's own statements: a
process keeps polling its future, PostgreSQL grants a free lock and ends a deadlock
after `deadlock_timeout`. Nothing obliges a client to call, a fault to happen or time
to pass. `RFairSpec` adds that the operator carries out the next step of the procedure;
the connection of the rewrap may drop, but only `MaxFaults` times.
`FairSpec` of `FileConfig` assumes weak fairness of each process's own steps: calls are finite, so a process that waits for the lock
finds it free for good in the end, also after a death, as the kernel releases it.

## Findings

- `store_disclosure`: `rewrap_all` opens each version under the disclosure its
  secret has *now* (`crates/secrets-postgres/src/lib.rs:81`), while each was sealed
  under the disclosure it was put with. After a put that changes the disclosure, a
  rewrap fails with `Crypto` and rolls everything back, every time, although
  `website/docs/operations.md:51` says that it re-encrypts "every stored version,
  current or older". The other runs with rewraps keep the disclosure of a reference
  fixed, so that they say something about rewraps that succeed.

More places where the code promises less than its contract. Some are in the runs, and the property
exempts just the step that the code does not prevent: drop its exemption and TLC finds it
violated (that of `OnePlace` in an instance with three names and four commands). Others the instance leaves out: where a changed instance is named, TLC finds the
property violated there.

- User routes check the owner in one statement and act by reference in another
  (`crates/secrets-http/src/lib.rs:161`). If a put gives the reference to another owner in
  between, a user revokes or deletes what it no longer owns, although
  `website/docs/security-model.md:77` says that user routes act only on secrets the
  caller owns (`reowned` in `UserActsOnlyOnOwned`).
- `remove_namespace` looks for bindings, then for secrets, and then removes
  (`crates/secrets-federation/src/lib.rs:134`), with nothing held in between. A write that resolved
  its backend before lands after the checks, and the secret is stranded, although
  `spec/domains/storage.yaml:252` says that a removal "is refused while secrets remain". In the
  same way `set_mount` strands a secret, `bind` leaves a binding without its namespace, and
  `bind` comes between the look-ups of a rename and its effect (`overtaken` in
  `SecretsReachable`, `BindingsHaveNamespace` and `BindingsNeverMove`). A report may name a mount
  set since.
- `holds_secrets` (`crates/secrets-federation/src/lib.rs:233`) answers no for a mount that is not
  registered, and a `backends` table that does not parse registers `keychain/default` alone
  (`Mounts`). A process that finds such a table removes or remounts a namespace full of secrets,
  with no other command near it (`Unnamed` in `SecretsReachable`).
- The mutex of `KeychainBackend` is one process's. If the other process of `keychain` may write,
  it can write under the new name between the look-up and the copy of a rename
  (`crates/secrets-keychain/src/lib.rs:256`), and the copy overwrites it: `NothingLost` fails.
  In `keychain` the other process only deletes.
- An error from the deletion of the source is taken to mean that the source is still there
  (`lib.rs:262`). With `LateFaults` TRUE the deletion may have taken effect, the undo deletes the
  only copy and `NothingLost` fails. `keychain` assumes that a failed store call changed nothing.
- A keychain listing (`lib.rs:275`) reads entries one by one without the mutex: a secret that is
  renamed meanwhile may be missing from it, or be in it under both names.
- A remote rename deletes the old name by reference (`crates/secrets-remote/src/lib.rs:227`) and
  writes the new one whatever it holds by then (`lib.rs:213`). With a second caller, a value written
  at either after the rename looked goes in its commit, and two renames of one value leave it under
  both new names if the old one is written again between their commits (`overtaken` in `NothingLost`, `OnePlace` and `RefusedRenameStays`). And a write over a revoked secret answers
  `Replaced` (`lib.rs:189`), because the service kept its versions, although a read answers not-found.
- The conformance runner arms a keychain entry to fail its next call, and "the command made
  that call" (`checks/conformance/src/storage.rs:571`). A rename that a binding refuses makes no
  call, so the entry stays armed and fails a later command (the exception of `FaultSpent`).
- From outside the process, a read refused for want of a binding cannot be told from a read of
  nothing; `cli.rs` answers `not-found` for both (`Guessed` in `TrueBranch`).
- Four outcomes of namespace and binding commands are neither arranged nor checked
  (`Unchecked` in `ArrangedHolds`): a scenario that forces one in a world where an earlier
  command added or removed the record is sent the command all the same, although
  `storage.rs:71` says that such a world cannot be arranged.
- The directory of an output file is never synced, so a read that answered may have left no
  file after a loss of power; and a report whose look-up fails (`local.rs:385`) is an error
  although the file is in place. A temporary file with the value stays behind after a death.

## Proofs

`PostgresStoreProofs` proves `TypeCorrect`: `Spec => []TypeOK`, for all values of the
constants that satisfy `StoreAssumption`, whatever the requests. `TypeOK` is not
inductive: which fields a request has depends on the statement the call is at, the head
of `todo` is a put while `pc = "upsert"`, and counting audit rows needs the versions
to be finite. `TypeInv` adds these (`AtStatement`); there is a lemma per action and
the theorem combines them.

It goes on with `VersionsAlwaysDense`: `Spec => []VersionsDense`, from the same assumption, for
any number of calls that put, delete, revoke, commit, rewrap, are refused or are lost in any
order. `VersionsDense` speaks of committed rows only and says nothing of what a transaction is
about to commit, so `RowInv` adds:

- what each call has written is dense once it is laid over the tables (`WrittenDense`,
  `WrittenHaveRows`, `WrittenOnce`, `DirtyIdsDiffer`), and a committed row it replaces
  keeps its id or has its versions deleted (`ReplacedAreDead`);
- what it has written it has locked (`WritesBehindLocks`), and each id it touches is that of
  a committed row it has written over, or of no committed row and no other call
  (`TouchedIsolated`). So two calls touch different ids (`TouchedDisjoint`), and a commit
  changes no version another call counts on;
- between the SELECT and the INSERTs of `put_tx` a call holds the lock of the row whose next
  number it has chosen, or has version 1 of an id nobody else has (`FoundIsolated`). This is
  where the foreign key matters: the upsert of a call that found no row may meet a row
  committed since, under another id, and then the INSERT of the version must fail.

Its steps fall into three kinds. Most write no row (`QuietStep`); DELETE, UPDATE and the
upsert write one behind its lock (`RowWritten`, `RowWrittenRows`); COMMIT lays what was
written over the tables (`CommitDense`, `CommitRows`).

Three more results build on these invariants, for the same constants:

- `CurrentAlwaysOpens`: `Spec => []CurrentVersionOpens`. A row and the envelope of its current
  version are written by different statements and rewrap replaces the envelope later, so
  `SealedInv` says the same of what each call would commit (`WrittenSealed`), and needs `RowInv`
  for it: a COMMIT leaves the versions other calls count on because they touch other ids.
- `AuditAlwaysTrue`: `Spec => []AuditMatchesTables`. `AuditInv` counts the committed audit rows
  of an id together with those the call has still to commit: they say one put per version for a
  row it has written (`RowsAudited`), one delete for an id it has deleted (`DeadAudited`), and
  nothing for ids it has not touched (`OnlyTouchedAudited`). An id that is not committed was
  never audited before `put_tx` uses it (`NewAreFresh`, `FoundFresh`), which is why a secret that
  is deleted and put again counts from nothing. COMMIT turns the sums into the table
  (`CommitCounts`).
- `HeldBatchAlwaysInTime`: `Spec => []HeldBatchInTime`. A commit past
  `TakeBatch` keeps the lock of its batch's row, and every statement on that row waits for the
  lock (`HoldsBatch`): nobody can delete, replace or re-seal it, or edit its column, between the
  check of the two expiries and the COMMIT.

The last theorem of the module is `StoreRefinesCustody`: `Spec => Refinement`, every
behaviour of the store is one of the atomic store of the port, for all values of the constants.
Beside `StoreAssumption` it needs that `NoRow` is not itself a secret or a batch
(`AbsenceAssumption`). A call takes effect at its COMMIT, or at its one statement where it has no
transaction, and all its other statements are invisible or end it. The steps are small but for
two:

- *COMMIT.* What a transaction lays over the tables must be what its mutations, in order, do to
  the store as it is at the COMMIT, and not as it was when each statement ran: others commit in
  between. `Explains` therefore speaks of every store that agrees with the tables on the rows the
  transaction has written: over each of them the mutations it has run apply, and have just the
  effect that its COMMIT would have (`Laid`). `Accounted` says that these mutations and those
  still to run are the request's, and `WroteExplains` that each statement extends the explanation by one
  mutation. No other call breaks it, as the rows are locked (`OthersLeft`, `CommitViews`).
- *The data.* `AbstractStore` reads a value by choosing the version of a number, which takes
  `VersionsDense` to be meaningful, before a COMMIT as well as after (`View`, `ViewCarried`).
  `rewrap_all` replaces versions by others with the same plaintext (`RewrapViews`), so it is
  invisible. And `Custody` applies a batch of any length by a recursive function: `StagesAt` and
  `StagesExtended` say what it computes, by a least counterexample.

`RefInv` is the inductive invariant: `SealedInv` and `BatchInv` from above, and `CallInv`, which
says for each call that it is accounted for, what a single put, delete or revoke will answer
(`SingleCall`), and which batches it may hold (`LockedBatches`). `RefStep` preserves it,
`CallSimulates` maps the statements to steps of `Custody`, and `Simulation` puts them together.

`FileConfigProofs` proves three results about the file, for any number of processes,
namespaces, changes, faults and losses: `FileStaysWhole` (`Spec => []WholeFile`),
`AnsweredChangesSurvive` (`Spec => AnsweredIsDurable`) and `FileImplementsStore`
(`Spec => Store!CSpec`, the refinement). `WholeFile` is not inductive, since a loss of power
puts back whatever `durable` holds. The invariant `Safe` says that whoever works on the file
holds the lock (`OneWorker`), that everything the path may name is whole and on the disk
(`WholeOnDisk`), that every staged file is whole and is synced when it is renamed
(`StagedWhole`), and that the staged file is the change applied to what the path still names
(`Underway`). The last one needs the lock: with it, each step of `FileConfig` is a step of
`NamespaceConfig` or changes nothing there. Two lemmas about `ConfigDocument` carry the data:
applying a change gives a document, and an accepted change applied twice is the change once.

`OutFileProofs` proves the four properties of `OutFile` for any number of processes, faults
and other programs. The inductive invariant `IInv` says what each call before the link has
established (`Prepared`: the value is whole before it is synced, the mode is set before
anything is written), that what is synced is whole and private and only that is ever placed
(`Durable`), which answer a process will give at every step (`Promised`), and when a
temporary name may be there (`Kept`). `WholeOrNothing` alone is not inductive: a loss of power
may cut any file short that was not synced, so that a placed file is synced has to be carried
from the sync to the link.

`FederationProofs` proves four results, for any number of processes, namespaces, backends,
names and failures, and whatever tables and tokens the processes find: `FederationTyped`
(`Spec => []TypeOK`), and `SecretsStayReachable`, `BindingsKeepNamespace` and `BindingsStay` of
`RaceSpec`, the same steps with the history variable `overtaken`. Commands interleave in any way in
all four. Of the backends they assume only that one which stores can list
(`FederationAssumption`), as the two that do implement all of it. The invariant `TypeInv` of the
first adds `Admission`: a command has opened nothing before its scope was admitted, and which
commands can be at which step. The others are about a step, and so rest on what its command may
count on when it takes it. `RaceInv` says that: a command that nobody has overtaken still finds what
it looked up (`CheckedAt`): its namespace is there and is mounted on the backend it captured, no
binding and no secret is left under a namespace about to be removed or mounted elsewhere, neither
name of a rename is bound. What nobody can take away holds of overtaken commands as well: what the
captured backend can do (`RoutedAt`), and that a backend which holds something can be asked for it
(`HeldIsListed`), without which an empty answer would prove nothing. `OwnStep` says that a command
establishes at each step what it counts on at the next, `OthersStep` that a step of another which
makes it false is in `Overtakes`.

`KeyRotationProofs` proves the two invariants of the rotation for any number of servers, calls,
references, batches and failed rewraps: `ServersOpenEverything` and `RetiredKeyUnused`. Beside
`StoreAssumption` it assumes `RotationAssumption`: the operator's process is not a server, and
servers start on the old keyring. The two properties speak of a few stages of the procedure;
`RotationInv` carries what makes the next stage true. It has `RowInv` of the store, what the
keyring file and the servers' keyrings may be at each stage (`KeyringsFollowFile`), and which keys
the tables *and what servers have written and not committed* name (`KeysByStage`,
`WritesUnderActive`): a version written under the old key before a restart cannot be committed
after it, as the restart ends the call. The work of `rewrap_all` is `RewrapInv`: a version still
under the old key is among its targets, and is still the version of its row (`OldTargeted`; this
is what `RowInv` is for); after its UPDATEs there is none (`OldVersionsGone`); a batch still under
the old key is one it holds and will re-seal (`OldBatchesHeld`). So the answer Ok means that there
is none left (`OkMeansNone`), whatever was put beside it.

`KeychainBackendProofs` proves the four properties of `KeychainBackend`, for any number of
processes, operations, names, failed store calls and deaths. `KeychainTypeCorrect` holds of every
instance. The other three name what the code cannot do without (see the findings): `CreatedIsTrue`
that the operations that write are of one process (`OneWriter`; others may delete), and
`RenamesLeaveOneName` and `NoSecretLost` also that a failed store call had no effect
(`~LateFaults`). The mutex of the process then gives `Alone`: one operation at a time is between
looking and writing, and meanwhile others only take entries away (`Elsewhere`). `MoveInv` says
what a rename may count on at each call (`MoveAt`): what it moves is at its source unless someone
deleted it, from the copy on also at its destination, and at no third name. And `Single`: outside
of a rename two names have one entry only after two failures or a death. `OneNameEach` alone is
not inductive, as it says nothing about what an undo will delete.

`CustodyHttpProofs` proves both properties of the handlers for every set of requests, tokens and
answers of the authorities. `ChangesAuthorized` (`Spec => EffectsAuthorized`) rests on `HttpInv`:
a handler past its checks carries the principal they admitted (`Staged`), the store works on a call
only while its handler waits and on what the handler asked (`Waiting`), and what a batch holds is of
the tenant it was prepared under (`Sealed`), so that a commit admitted for the tenant of the batch
changes no other tenant's secret. `UsersActOnTheirOwn` (`RaceSpec => UserActsOnlyOnOwned`) lets a
workload put any reference for any owner at any time. Its invariant `OwnerInv` says that what
`assert_owner` has listed stays so for each handler that is acting on it, unless the handler is
`reowned`: users' own changes keep owners as they are, and a put or a batch that does not is in
`Reowns`. Batches have any length and are applied by a recursive function, so the proofs need
what that function computes: that it exists and satisfies its equation (`AfterExists`, `StagesAt`)
and that it leaves what no mutation names (`ApplyAllFrame`). The induction principle of the library
takes an operator and cannot be used; each of these is proved from a least counterexample instead
(`LeastOf`).

`RemoteBackendProofs` proves the four properties of `RemoteRaces`, for any number of callers and any
names, commands, lost answers, refusals and revocations. Beside `RemoteAssumption`, which says what
a command is and that the bounds are numbers, it assumes nothing. `RaceInv` says that the batch of a
rename is the one its caller prepared, or is gone, and is nobody else's (`Batches`), and that a
rename which nobody has overtaken still finds what it looked up (`StillTrue`): until its commit has
taken effect, or when it has been told that it did not (`Undone`), the old name keeps the value it
carries, and until then the new name has no active secret (`Uncommitted`). `RefusedRenamesStay` is
a consequence. For `NoValueLost`, `MutateTakes` and `CommitTakes` say that the two actions of the
service that change what a name holds, besides a revocation, take a value away only as the property
allows. `ValuesInOnePlace` also needs `ValueInv`: the value that a put is about to write is in no
name, with no other caller and in no reply yet (`Fresh`), so a put puts nothing under a second name;
and a rename that nobody has overtaken takes its value from where it puts it. A revocation keeps the
values of a secret, so the invariants speak of the last value of a name (`Last`), active or not. A
rename is one batch of two mutations; `ApplyAll` is a recursive function, and `AppliedTwice` computes
it for two from the equation of the function.

`FileConfigProofs` and `FederationProofs` also prove that `TypeOK` of their modules holds
(`FileConfigTypeCorrect`, `FederationTyped`).

**Model-checked only.** `EveryCallAnswered`, `ChangesAnswered` and `RotationCompletes` are
liveness under fairness, which the prover does not do. The properties of `Conformance` are
within its reach and not proved: they are about one scenario of a few steps at a time, which the
run goes through in full.

## What the models leave out

- Statements read at one instant; the purge and the re-seal wait for all the rows they
  match at once, and the three inserts after the upsert, which work behind its row lock,
  are one step.
- The actor in a batch's associated data and in audit rows, labels, timestamps and
  metadata are dropped. Ids are a counter: UUIDs are taken not to collide.
- One clock: the distance between the service's clock and the database's is not modelled.
- The rows of a rewrap are locked in any order, as the plan may give them.
- A commit that waits for a batch row which is deleted and prepared again takes the new
  row, as a call that came later would.
- An autocommitted statement of a process that ends has either happened or not.
- `exists`, `list` and `ready` of the store, and the HTTP routes over them, change nothing.
- In `rotation` disclosures do not change and no batch expires; while servers are being
  restarted one with the old keyring may fail to open what a new one wrote, which is why
  `EveryServerOpensEverything` exempts that stage.
- The TOML text of the configuration and the keys of the file that the store does not own; the
  temporary files a dead process leaves; platforms where a directory cannot be synced.
- The first creation of the configuration directory, whose own parent is not synced.
- `InMemoryConfig`, which is a mutex around the same changes, and the listing of all namespaces
  (`list --all`).
- `Federation` gives a read-only vault no contents: what it answers for a locator is its own.
- Entries of the keychain in another layout, of other services or scopes; a mutex poisoned by a
  panic, after which every change answers `Unavailable`.
- A remote request that takes effect after its caller stopped waiting for it, the bound on the size
  of a value, and versions, which the port passes on as they come. A remote rename keeps the
  disclosure it read; values are told apart here, disclosures are not.
- The conformance target for custody (`custody.rs`), which drives the HTTP service, the gate
  over scenario files, and the parts of a scenario that only name values; in the CLI target
  the check that a denied command changed no file is part of `Admit`.
- The command line itself, where `put` takes its value from (`value.rs`), `health`,
  `generate-keyring` and everything printed; the documentation generator.
- A conformance environment is one that reaches every backend it mounts: faults are those the
  target arranges.
- Encodings (associated data, keychain user, remote key) are values, not strings.

## Not modelled, and why

The documentation generator renders files from the specification: it has no state and
nothing concurrent. Migrations, telemetry and the command line parser are pure input and
output. The injectivity of encodings is a property of strings of any length, which neither
tool decides here; they are values in every module. The distance between two machines' clocks
is not bounded by the code, so no property of expiry could be stated that holds.
