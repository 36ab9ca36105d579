# Tenjin: TLA+ models, model-checking runs and proofs

Tenjin is a forum about anime: an auth server that issues tokens and manages the
signing keys, a resource server that caches reads and turns user actions into
events, database workers that apply those events in batches, and an email worker.
This directory holds TLA+ models of its stateful parts, the TLC configurations
that check them on small instances, and TLAPS proofs for all instances.

## The system

| Part | State | Operations | What makes it hard |
|---|---|---|---|
| Key store (`auth_server/routers/keys.py`, `security/keygen.py`, `utils/bootup.py`, `security/token_manager.py`) | `keydata` table, JWKS file, public PEM files, Redis `VALID_KEYS`, `AUTH_BOOTUP_MASTER`, `ABORT`, a `TokenManager` per worker | rotate, invalidate, clean, poll, boot as master or slave | five copies of one fact, written by concurrent handlers in several processes, with Redis locks that are never taken because the calls are not awaited |
| Token families (`token_manager.py`, `routers/auth.py`) | Redis list per family | login, reissue, purge | concurrent reissues of one family, replay detection; no token can be issued in this version |
| Admin accounts (`routers/admin.py`, `utils/auth_auxillary.py`, `utils/dependencies.py`) | Redis hash per session, `admins` table with row locks, `suspicious_activities` | login, refresh, logout, lock, unlock, create, delete, report | account state in two stores; a report that may lock every account; a session that is looked up once |
| Cache manager (`resource_server/cache_manager.py`) | Redis values, null markers, load locks, action locks, intents | get-or-load, guard an action, paginate | single-flight loading, a lock deleted by the loser |
| Action endpoints (`resource_server/routers/*.py`) | through the cache manager and the event streamer | create, edit, delete, vote, save, report, subscribe | the same user acts twice at once, on state that is only eventually in the database |
| Forum administration (`routers/forums.py`, `models/admin_permissions.py`) | `forums`, `forum_admins` | create, edit, add, remove, promote, demote | every decision is on roles read earlier, in other sessions |
| User accounts (`routers/users.py`, `repositories/user.py`) | `users`, `password_recovery_tokens` | register, login, ask for and use a recovery token, delete, recover | reads and writes in separate sessions |
| Event pipeline (`event_streamer.py`, `resource_auxillary/event_processing`, `resource_database_workers`) | streams, consumer groups, counters, dead-letter queues | emit, consume a batch, retry, acknowledge, side effects | redelivery, partial batches, crashes between commit and acknowledgement |
| Key manager (`resource_server/key_manager.py`) | a copy of the JWKS per worker and in Redis | sync, refresh on an unknown key id | stale verification keys, a poll lock that lapses |
| Email worker (`email_worker`) | a batch, a dead letter queue | dispatch, send, dead-letter | pure input and output |

The auth server publishes the JWKS that the key manager copies; the endpoints read
through the cache manager and write through the event streamer; the database
workers consume the streams and update the caches and counters behind the
endpoints' back.

### Code that cannot run as it stands

Much of this version stops early, by bugs of its own: routes of `users.py` and
`animes.py` without a leading slash, Redis calls that are not awaited, SQL that
raises whenever it is executed, bytes compared with strings. A model of only what
remains would say little, and nothing once a line is repaired. The models therefore
take such a call, where it guards further behaviour, as one that succeeds or raises
(a lookup, a SQL statement, a Redis command, a serialisation), and an un-awaited
call as one that takes effect or does not. The program's real behaviours are among
the model's, and what is checked holds both of the code as it is and of the code
with those calls repaired. Where a bug is in the control flow (a test the wrong way
round, a lock under the wrong name, a `finally` that deletes another's lock, an UPDATE
without WHERE, an offset that is not reset) it is modelled as it is. Each such place
has a comment at the definition.

## Modules

| Module | Role |
|---|---|
| `KeyStore` | the key store: every operation of `keys.py`, the boot sequence, the poller, crashes |
| `KeyRing` | the abstract key ring that `KeyStore` implements |
| `KeySync` | the resource server's copies of the verifying keys; composes the workers with `KeyRing` |
| `AdminAccounts` | admin accounts, their sessions, row locks and suspicious activities |
| `CacheLoad` | reading one resource through the cache: `distributed_get_or_load` |
| `GuardedActions` | `guard_action`, the endpoints that emit events, their intents and the stream |
| `Lookup` | the abstract lookup that `CacheLoad` implements |
| `EventPipeline` | the consumers of the database workers: dedup, work, side effects, dead letters |
| `EntryLife` | the abstract life of a stream entry that `EventPipeline` implements |
| `ForumAdmins` | the endpoints that create, edit and administer forums |
| `Accounts` | registration, login and password recovery |
| `KeyStoreProofs`, `KeySyncProofs`, `AdminAccountsProofs`, `CacheLoadProofs`, `GuardedActionsProofs`, `EventPipelineProofs`, `ForumAdminsProofs`, `AccountsProofs` | the inductive invariants, their proofs, and the theorems |
| `MC...` | each instantiates the module it is named for, for TLC (symmetry) |

How they meet: `KeyStore` implements `KeyRing`, which `KeySync` extends, so a worker
of the resource server is checked against what the auth server promises and not
against its details. `CacheLoad` implements `Lookup`, which is what a lookup may answer
(the row at one instant of the call, or no row), and `GuardedActions`, `ForumAdmins` and `Accounts`
take lookups to be that. `GuardedActions` ends where the stream is read, with a
worker that applies or dead-letters each event once; `EventPipeline` is that worker in
detail, and `EntryLife`, which it implements, says when "once" holds.

### KeyStore

`status` is the committed `keydata` table: a row is absent, active
(`rotated_out_at` null), rotated, or expired. `epoch` and `rotated_out_at` are the
two timestamps queries order by, as logical times. `jwks`, `public_pem`,
`valid_keys`, `boot_master` and `abort` are the shared files and Redis keys;
`active_key` and `key_mapping` the `TokenManager` of each worker; `req` and `saved`
the local state of each admin request in progress; `mode`, `keydata` and `poll`
that of booting and polling workers.

One action is the code between two awaits. SQL follows READ COMMITTED: a statement
sees committed rows and its own transaction's writes, which become visible at
commit; a row lock is held until commit or rollback; NOWAIT fails instead of
waiting, and plain `FOR NO KEY UPDATE` (clean_keystore) waits and re-tests the row. Its rows
are locked in one step here, where PostgreSQL locks them one after the other.
Every database error is an action of its own (`RotateAbort`, `InvalidateFail`,
`CleanFail`, `BootFail`), enabled throughout the try block.

Four things in the code shape the model, each visible at the mapped lines:

* Redis calls in `keys.py` without `await` return a coroutine, which is truthy and
  never runs. The three Redis locks are therefore never taken, the reads of
  `VALID_KEYS` end their handlers with a TypeError, and the cooldown test always
  holds (a staff admin can never rotate).
* `rotate_keys` builds the path of the private PEM under the JWKS *file*; `unlink`
  raises and the handler ends before it updates the TokenManager, `VALID_KEYS` and
  the cooldown.
* The epoch of a new row is `CURRENT_TIMESTAMP`, the start of the transaction, which
  the admin authentication has begun. Two rotations may commit in the other order,
  and `master_bootup`, which takes the row with the newest epoch for the active one,
  may then pick a rotated key.
* `DELETE /keys/{kid}` is declared before `DELETE /keys/clean` and shadows it.
  `clean_keystore` is modelled as an operation all the same; neither violation
  reported below depends on it.

A round of the poller that fails at its first read, or reads an empty `VALID_KEYS`, prints
and changes nothing, so it is no step; one whose query of the database fails between two
keys keeps what it has taken and evicts nothing (`PollFail`).

### KeyRing

Keys are created active, handed over from one to the next, retired once, and never
return; at most `MaxValidKeys` verify. `KeyStore` implements it with `ring <- status`.

### CacheLoad

One resource and the requests that read it. `cache` is the Redis hash as two
groups of fields, the `__NF__` sentinel and the fields of a row, because HSET merges
them; `lock` is the load lock and who set it; `row` the row in PostgreSQL, which
anybody may change. `pc`, `attempt`, `interval`, `loaded` and `answer` are the local
variables of each call; `result`, `truth` and `lapses` are histories that the
properties need (the entry a call answered from, the rows there were during the
call, and how often the lock of a leader at work expired).

The actions are the Redis and database calls of `distributed_get_or_load` in order:
`Get`, `Elect`, then `Load`, `Store` and `Unlock` for the leader, `Wait`, `Follow` and
`GiveUp` for the others. `LoadFail` is an exception in the try block, after which a
write may or may not have been made; `Die` is the loss of the process. TTLs are
untimed: entries and locks may expire at any moment or never.

What the data does in this version of the code is in three operators, each a fact
about the result classes at the mapped lines. `Rebuilt`: the Redis client returns
bytes, so a cache hit never yields a usable object; it is an object without
attributes for the classes in `Lenient` and an exception for the others. `Storable`: of the
rows a leader finds, only those of `ForumAdminResult` can be cached; the other classes
raise before the write. A negative entry is therefore the usual content of the cache.

### Lookup

A call is idle, open, has seen the row, or is done with an answer: one action reads the
row, one returns what was read, one fails from anywhere. `CallOf` maps a request to it:
the row is read in the leader's `Load`, the answer stands from `Store` on although the
lock is still to be deleted, and a hit is a failure, as no entry can be read back.
`ImplementsLookup` says more than `AnswerWasTrue`: the answer is what *this* call read,
is given once, and is not replaced.

### KeySync

`ring` is the abstract key ring, `jwks` the document the auth server serves and
`versions` all it has served. The document is the file that `KeyStore` models in detail,
where it may lag behind the ring, lack a valid key (`keystore_jwks_trim`) or keep an
expired one; here it is therefore any set of keys that were created. `global` is
`JWKS_MAPPING` in Redis and `lock` the poll lock with its owner, which the code does
not compare. `at`, `local`, `got` and `reading` are a worker's step, its mapping, the
response to its request, and what a token validation has read of the shared mapping
before it assigns it. The actions are those of `lifespan` and `update_jwks` (boot, SET
NX, wait, give up, fetch, load, publish, release), of `validate_access_token` (read,
adopt) and of `sync_jwks`, besides lock expiry, the death of a worker and of Redis.
`get_global_key_mapping` gives the outcomes of a read: the shared mapping, or `Raised`. As
the code stands only the second happens when there is a mapping to read: it calls
`.encode()` on the values of HGETALL, which are bytes, since the client is made without
`decode_responses`. A worker then does not boot (`boot`), does not start (`give_up`), or
fails the request (`read_global` is not enabled), and shares what it fetched itself.
The JWKS is fetched only while the shared mapping is empty: no action of a running
system refreshes it.

### AdminAccounts

`state` and `locked` are columns of `admins`, `holder` the row locks of transactions
in progress, `activity` the committed rows of `suspicious_activities`, `session` the admins
with a session hash. A request is a record with its step. A report (`count`,
`lock_all`, `commit_report`) sees committed rows and its own; `UPDATE admins` has no
WHERE clause and takes every row. The dependency of the endpoints behind a session is
`bad_signature`, `expired` and `verified`. `grounds` is what a report is filed for, and
`Forced` the grounds whose call leaves `force_logout` at its default, True. Two of them are
filed by the key store against an admin in a valid session: a rotation by staff during the
cooldown (`keys.py:381`, where the test always holds) and an invalidation of the active
key (`keys.py:124`). The code means it ("Repeated attempt will lead to account lock"), so
`LockJustified` counts them as grave, with what has to be true of them: the role, and a
session seen during the request.

### GuardedActions

A handler is a record of what distinguishes it from the others (the names of its lock
and intent, where it asks for a role, the rows it answers 409 to, what it emits), and
the actions are the steps all of them take: `Begin`, `Authorise`, `Guard`, `CheckRow`,
`Mark`, `Emit`, `Leave`. Handlers that share a lock, an intent or a table form a
family, and a behaviour is about one family. What a name of a lock or intent is in
the code, down to the ones that are wrong there, is in the handler's record.

### EventPipeline

`kind` is the consumer a behaviour is about; six kinds cover the five consumers,
`queue_insertion_consumer` twice because strong and weak entities are reported
differently. `seen` and `applied` are committed; `held` and `done` of a worker are in
its open transaction, with the rule that an insertion waits for the transaction that
has inserted the same id. A call of Redis succeeds, fails before it took effect, or
loses its reply after it did.

Delivery. `ready` counts the copies of each entry in the in-process queues. An entry comes
again (`Redeliver`) in the history of its dispatcher, which is read until it is empty, or
because `reclaim_pending_events` has claimed it: XACK is sent an id without its dash and
acknowledges nothing, and neither a queued copy nor a consumer at work prevents it. A
batch (`batch`, with `copies`) may therefore hold an entry several times, and be shared in
part with another worker's. A malformed record goes to the `dead_letter_queue` of the
process and never comes to a consumer. Two bugs stop delivery as it stands, and are
passed over: the dispatchers hand the flag `read_history` to XREADGROUP for the id, and
`populate_events_batch_from_queue` has no return once its batch is full.

Deduplication names an id once and `trim_duplicate_events` leaves every copy of it in the
batch. What the copies do depends on the kind:

* Strong entities: `executemany` inserts each copy (`Commit` adds `copies`). No id is
  reported for them, so `DeclareRestDead` puts the whole batch into the dead letter queue
  under the entries' own ids, and Redis refuses the second copy's, which is not greater
  than the first's. The refusal raises, the consumer ends and the transaction is rolled
  back. This is why `AppliedOnce` holds although a batch holds an entry twice, and it is
  an accident: once the TODO of `batch_insert_strong_entities` (`insertions.py:134`) is
  done and the ids are reported, the work is committed twice. That is the mutant
  `ReportedAlways`, which violates `AppliedOnce`.
* Associations: the statement takes the later of two rows, and raises when it would update
  one row twice (`Clashes`, `Writes`); an entry that a later one has superseded is neither
  written nor reported.
* Side effects and downstream events are emitted for each copy. `slips` counts the surplus,
  and `EmittedOnce` says so: an entry is emitted once only where it is in a batch once.

XADD under an explicit id is refused unless the id is greater than the last of the
stream. All kinds add to one stream, so `Bury` lets any entry be refused; what was
refused ends the consumer by an exception, while the rest of its MULTI is in effect.
`user_orphan_consumer` has a loop of attempts of its own around the one of the dispatch
(`rounds`, `Undelivered`).

The pages of a decrement are read without ORDER BY and the event is dispatched before
the cascade it counts has committed: `Select` finds rows or none at any offset up to the
bound. `ended` is the first page that was found empty, and a decrement has been worked on
when all pages before it were emitted.

### EntryLife

Each entry is open, claimed by a consumer, finished or lost, and `count` is how often
its work was committed. Where the dedup record is in the transaction of the work, an
entry goes from open to finished in one step; where it is committed first, through
claimed, from where it may be lost. Work is committed at most once, in the step that
finishes the entry, unless an attempt has lost the record (`loose`). Several entries may
move in one step, as a batch does. `Life` of `EventPipeline` is the mapping: an entry is
open until it is in `seen`, which is why a record that is taken back, or made without
the work, is no step of `EntryLife`.

### ForumAdmins

`forum` and `role` are the two tables with their constraints, and a request the record
of what it asked and what its lookups returned. An endpoint is its lookups in order
(`get_forum`, `get_caller`, `get_target`, `get_user`, or `get_forum_by_name`), what it
decides on them (`CallerMay`, `TargetMay` over `Mapping`, the table of permissions) and
one statement in a session of its own. `callers` and `targets` are histories: the
roles the two have had in the forum since the request began. The two lookups are
of different moments, so a SUPER that is demoted between them can promote itself again:
it was entitled to that, as one of two different persons. Who is entitled is taken from
the code, and wider than the README's; see the disagreements below.

### Accounts

`user` and `token` are the two tables. Three things are as in the code: a recovery
token is refused until it *has* expired (`users.py:214`; `resource_server/README.md:346`
has it the other way round), `update_password` deletes the tokens of every account, and
`get_user_password` asks for an account's hash whether or not it is deleted. Usernames
stand for email addresses too.

## Runs

| Run | Instance | Shows |
|---|---|---|
| `keystore_handlers` | 1 worker, 2 requests, 3 keys, caps 2 | two requests of any kind interleaved with boots, failures and crashes: `ValidKeysBounded`, `RotationExclusive`, `WritesAreLocked`, `JwksBounded`, and refinement of `KeyRing` |
| `keystore_workers` | 2 workers, 1 request, 2 keys, one poller, fair | master and slave boots, crashes, polling: `OneActiveKey`, `SignerCanVerify`, and `BootLockFreed` (liveness) |
| `keystore_signer_expired` | 1 worker, 1 request, 3 keys | **violation** of `SignerNotExpired`: a worker signs with an expired key |
| `keystore_jwks_trim` | same | **violation** of `RotationKeepsValidKeys`: a rotation trims a valid key from the JWKS |
| `key_sync` | 3 keys of which 2 verify, 2 workers, 3 JWKS contents | `OneVersion`: the shared mapping is one served JWKS, whole, and a worker trusts a part of one |
| `admin_accounts` | 2 admins, 2 requests, limit 2, with the reports of the key store's endpoints | `LockFlips`, `LockJustified`, `ActsInSession`: who may lock, create and delete accounts, and on what grounds |
| `cache_load` | 2 requests, 1 row content, 2 attempts of 2 polls, 1 lapse, fair | `SingleFlight`, `AnswerWasTrue`, refinement of `Lookup`, `CallsWindDown` (each step uses up attempts and polls), and `Answered` (liveness), with late and dying leaders, expiry and a changing row |
| `cache_negative_entry` | same | **violation** of `NegativeEntryMeansNone`: the second request for a missing resource does not get None |
| `actions` | 2 requests of 1 user, 3 events | `OneHolder`, `OneEventPending`, `DeletionAuthorised`, in each family of handlers |
| `pipeline` | 2 entries, 2 workers, 2 deliveries, 2 retries, 2 pages, 3 faults | `AppliedOnce`, `NothingLost`, `EmittedOnce`, and refinement of `EntryLife`, for each kind of consumer |
| `forum_admins` | 3 users, 2 forums, 1 name, 2 requests | `OneOwner`, `OneName`, `ChangeEntitled` |
| `accounts` | 2 accounts, names, passwords, requests and tokens | `LoginTrue`, `ResetByOwnToken`, and unique names (in `TypeOK`) |

Bounds. Three keys and a cap of two are the least that make a rotation overflow with
a rotated key left over; `MaxNow` = 3 lets three keys be created. Two requests cover
every pair of handlers, which is what the row locks are about, and the proofs lift
the restriction. `JwksCap` and `MaxValidKeys` are equal, as in the shipped
configuration. The two violations need one request at a time.

In `cache_load` requests return and begin anew, so two identities are enough for the
longest chain there is: a late leader deletes the lock of its successor and a third
call is elected meanwhile. Two attempts is the shipped FETCH_MAX_RETRIES; two polls
instead of five only shorten the wait. The proofs lift these bounds, `MaxLapses` too.

In `actions` a request also begins anew after it ends: a loser may delete the winner's
lock and its slot come back as the third request that gets in. Locks and intents
carry the user's name, so users do not interact but through roles, and one is enough.
Three events or markers make an old, a current and a later one. In `pipeline` two
entries and two workers are the least at which deliveries overlap and batches differ;
two deliveries put an entry into one batch twice, or into two; three faults let a step
fail to its last attempt and something else go wrong as well. The code limits neither
deliveries nor failures: both are bounds of the instance, and the proofs are for any
number. In `key_sync` three contents of the JWKS are the empty first one and two to mix.
In `forum_admins` an owner and two supers, or a caller, a target and a bystander,
meet; two forum ids and one name make creations race. In `admin_accounts` the limit
takes two reports. In `accounts` an old and a new token of one account, or tokens of
two, meet. In all of these requests begin over and over: the bound is on how many
are in progress at once. Where there is a proof it has no such bound.

Deadlock is not checked in `pipeline` (when every entry has been delivered as often as
it may be, nothing is left to do).

Fairness. In `CacheLoad`, a call in progress keeps running: it is a coroutine of a
live event loop and its Redis and database calls return or raise. Neither expiry nor
the success of a load is assumed. In `KeyStore`, `FairSpec` assumes that a booting master that neither fails nor dies keeps
running (it is a coroutine in a live event loop), and that Redis expires
`AUTH_BOOTUP_MASTER`. It does not assume that admins call, that slaves or pollers
run, or that a dead process is restarted. A live master is assumed to finish within
the 300 s its lock lasts. The other modules state safety only. In particular a consumer
may die with any entry: the first exception in one of a process's tasks makes
`tasks_wrapper` wait for the others for the graceful timeout, cancel them and raise, so
the process ends. Compose starts it again, but five times only (`docker-compose.yml:20`),
so that nothing there must eventually happen. A restarted consumer is an idle one, and
copies that were queued in the dead process are copies nobody takes.

## Proofs

`KeyStoreProofs` proves, for every finite set of key ids and any number of workers
and requests, from the assumptions `KidAssumption`, `WorkerAssumption` and
`CapAssumption` (positive capacities):

| Theorem | Statement |
|---|---|
| `KeyInvariant` | `Spec => []KeyInv` |
| `FilesInvariant` | `Spec => []FilesOK` |
| `TypeCorrect` | `Spec => []TypeOK` |
| `AlwaysOneActiveKey` | `Spec => []OneActiveKey` |
| `AlwaysBounded` | `Spec => []ValidKeysBounded` |
| `RotationsExclude` | `Spec => []RotationExclusive` |
| `WritesAlwaysLocked` | `Spec => []WritesAreLocked` |
| `JwksAlwaysBounded` | `Spec => []JwksBounded` |
| `SignerAlwaysVerifies` | `Spec => []SignerCanVerify` |
| `KeyStoreImplementsKeyRing` | `Spec => ImplementsKeyRing` |

None of the properties is inductive alone. `KeyInv` adds what each handler may rely
on between its statements: row locks are disjoint (`LocksDisjoint`); a rotation past
its lock has the active row locked, a free new key id, and either room for one more
key or a locked valid row to expire (`RotateOK`); an invalidation or clean only
expires rows it has locked while they were rotated (`ExpireOK`); a booting master
holds the boot lock, and one that is about to insert sees no active row (`BootOK`).
The commit of one handler then cannot disturb another: they would need the lock of
the same row. `AlwaysBounded` follows because between a rotation's count and its
commit only expirations can commit. The refinement needs only the three commits and
`BootInsert`, the sole writers of `status` (`TableWriters`).

`FilesOK` is inductive relative to `KeyInv`: whatever may end up in the JWKS file (the
file, the content a failing handler would write back, the rows a master has read) is a
sequence of key ids within the larger of the two capacities. A rotation appends and trims
(`LastNType`), a boot takes the newest rows up to `MaxValidKeys` (`RowsRead`), and a clean
or an invalidation takes ids out, which `WithoutType` shows to shorten a sequence: for
this proof `Without` picks the positions that stay by their `Rank`. With it `TypeOK`, of
which `CoreTypeOK` is the part without those sequences, and `JwksBounded` hold.
`SignerCanVerify` is inductive relative to `KeyInv` (`SignerStep`): handlers and poller
spare the active key, and a boot serves only once it has loaded it.
`BootLockFreed` is model-checked only.

`CacheLoadProofs` proves, for every finite set of requests, any row contents and any
limits (`RequestAssumption`, `ValueAssumption`, `LimitAssumption`):

| Theorem | Statement |
|---|---|
| `LoadInvariant` | `Spec => []LoadInv` |
| `LoadTypeCorrect` | `Spec => []TypeOK` |
| `AlwaysSingleFlight` | `Spec => []SingleFlight` |
| `AnswersAreTrue` | `Spec => []AnswerWasTrue` |
| `CacheLoadImplementsLookup` | `Spec => ImplementsLookup` |
| `CallsAlwaysWindDown` | `Spec => CallsWindDown` |

`SingleFlight` is not inductive: a free lock lets one more leader in, so the invariant
`Flight` bounds the leaders by the lapses alone whenever no working leader holds the
lock. Deleting another leader's lock keeps it, since the one who deletes stops being a
leader in the same step. `Honest` follows the value from the read to the answer;
`Trying` is what the bound on `attempt` needs. `MaxLapses` occurs in one guard, and
no proof uses it. `LookupStep` maps each action to one of `Lookup`, or to none.
`CallsAlwaysWindDown` is the safety half of `Answered`: `Remaining`, a natural number (the attempts left
times the length of one, and the steps ahead in this one), decreases with every step of
the call and with no other step grows. That an enabled step is taken is fairness, so
`Answered` itself is model-checked only.

`KeySyncProofs`, for any sets of keys and workers and any bound on valid keys:

| Theorem | Statement |
|---|---|
| `KeySyncTypes` | `Spec => []TypeOK` |
| `MappingsAreVersions` | `Spec => []OneVersion` |

Nothing is assumed of the JWKS but that its keys were created, nor of a read of the
shared mapping but that it yields the mapping or raises. `OneVersion` needs `Served`: the
response a worker holds is a served version, and at the
step before it publishes, its own mapping is that response, whole. This is where the
branch of `load_keys` that fails half-way must not publish.

`ForumAdminsProofs`, for any sets of requests, users, forums and names, where `NoForum` is
no row (`ForumAssumption`):

| Theorem | Statement |
|---|---|
| `ForumTypes` | `Spec => []TypeOK` |
| `AlwaysOneOwner` | `Spec => []OneOwner` |
| `AlwaysOneName` | `Spec => []OneName` |
| `ChangesEntitled` | `Spec => ChangeEntitled` |

`Sound` says what of a request's stale knowledge survives to its statement: forums do not
go, the target was not the owner and cannot have become it, and the roles that were
read and permitted the change are in the histories. `SetRoleSound` shows that another
request's change of a role leaves that so; `AddPermitted`, `RemovePermitted` and
`EditPermitted` are what the table of permissions grants.

`AccountsProofs`, for any sets of accounts, names, passwords and requests, where `None` is
no row (`NoneAssumption`):

| Theorem | Statement |
|---|---|
| `AccountTypes` | `Spec => []TypeOK`, unique names included |
| `LoginsTrue` | `Spec => []LoginTrue` |
| `ResetsByOwnToken` | `Spec => ResetByOwnToken` |

`Recalled` says that a request's history is up to date with its account and holds what
the request has tested; `ObserveKeeps` shows it of every statement at once.

`GuardedActionsProofs`, for any finite sets of requests and users and any number of
events (`RequestAssumption`, `UserAssumption`, `MaxEventsAssumption`):

| Theorem | Statement |
|---|---|
| `GuardedTypes` | `Spec => []TypeOK` |
| `AlwaysOneHolder` | `Spec => []OneHolder` |
| `AlwaysOneEventPending` | `Spec => []OneEventPending` |
| `AlwaysDeletionsAuthorised` | `Spec => []DeletionAuthorised` |

`OneHolder` follows from `Unique` and `Holding`: who has set a lock still finds its name
among the locks. `OneEventPending` is not inductive: a request past its guard must know
that no event that counts is pending under its name (`Alone`), and the guard learns this
from an intent it does not find. That inference is `Queued`: queued ids increase, and
while an event counts, its intent is there with an id no smaller than its own, because
the worker clears an intent only at its own value and later events set larger ones. It
holds for the actions in `Strict` only: `HandlerFacts` goes through the handlers and
shows that these file the intent their guard reads. `DeletionAuthorised` follows from
`Rightful`, which says from which step on each kind of handler has tested the right.

`AdminAccountsProofs`, for any sets of admins and requests and any limit of suspicious
activities (`RootAssumption`, `RequestAssumption`, `LimitAssumption`, `IdleAssumption`):

| Theorem | Statement |
|---|---|
| `AdminTypes` | `Spec => []TypeOK` |
| `LocksAlwaysFlip` | `Spec => []LockFlips` |
| `LocksJustified` | `Spec => LockJustified` |
| `ActsAlwaysInSession` | `Spec => ActsInSession` |

`Held` says why a request holds a row lock: it is about to lock or unlock that row, or it
is a report that has counted to the limit. `Owned` is the converse: a lock or unlock past
its SELECT still holds its row, which is therefore as it was read, so nobody else's
statement can come in between. `Known` carries the tests of a session and a role to the
statement that relies on them, and to the report that is filed behind them.

`EventPipelineProofs`, for any sets of entries and consumers and any numbers of retries,
deliveries, pages and failures (`BoundsAssumption`: positive, but for the failures):

| Theorem | Statement |
|---|---|
| `PipelineTypes` | `Spec => []TypeOK`, disjoint dedup records included |
| `AlwaysAppliedOnce` | `Spec => []AppliedOnce` |
| `NothingEverLost` | `Spec => []NothingLost` |
| `AlwaysEmittedOnce` | `Spec => []EmittedOnce` |
| `PipelineImplementsEntryLife` | `Spec => ImplementsEntryLife` |

Two arguments run side by side. Where the dedup record is in the transaction of the work,
who holds the record of an entry is the first to emit for it (`FirstToEmit`): any emission
that is not a slip was made by a consumer that still has to commit the record
(`Standing`), or whose record is committed (`Emitted`), and records are apart. A commit
then leaves nothing behind since what the batch function did not report has been declared
dead (`Local`, `Progress`). Copies are followed by `Queued` (what is queued has been
delivered) and by `Local`: a consumer of strong entities that reaches its commit holds
each entry once, because the dead letters of its whole batch were accepted. Where the
record is committed first, batches behind the dedup
step are recorded and apart, and nothing was done with an entry that is not recorded
(`Apart`); `Progress` follows the offset of a decrement against the first empty page
(`ended`): pages before the offset were sent and none behind it, whatever a page that is
read again contains. `StepIInv` is the step of a
consumer that commits nothing, and every action but `Dedup` and `Commit` is an instance.

The refinement needs the invariant in both states and one more, `Checked`: a malformed
downstream event is taken to the dead letters before the dedup step and never recorded,
so no consumer takes up a recorded entry and a lost one stays lost. `Works` is what all
steps behind the dedup step have in common (one consumer keeps or lets go of its batch,
and what finishes an entry is not undone), `WorksMoves` derives the move of the entry
from it, and `LifeStep` adds `Dedup`, where claims begin, and `Commit`, where the count
moves.

Every invariant and action property of the passing runs is a theorem. Model-checked only
are the two liveness properties, `BootLockFreed` and `Answered`: they need ENABLED and
fairness, which the provers do not handle.

## Disagreements between documents and code

Three are findings with a run of their own: `SignerNotExpired`, `RotationKeepsValidKeys`
and `NegativeEntryMeansNone`, which state what a document or comment says and are
violated. In the following the model does what the code does, and the property is
stated about that; each is noted at the definition.

| Document or comment | Code | Where |
|---|---|---|
| `resource_server/README.md:1482`, of editing a forum: "Only `super` or `owner` admins may perform this operation."  | `admin_permissions.py:41` gives an ADMIN no EDIT_FORUM either, but `edit_forum` does not ask the table: `forums.py:706` refuses only the role `"staff"`, which no role is, so any admin of the forum may | `Editors` in `ForumAdmins` |
| `resource_server/README.md:1602`, of changing a role: "Only the owner can perform this action."  | the table gives a SUPER the permission to promote to SUPER, and `edit_admin_permissions` lets it | `MayTurn` in `ForumAdmins` |
| `resource_server/README.md:1390`: "The forum name must be unique for that anime"; so does the error at `forums.py:166` | the lookup and `uq_forum_name` are of the name alone | `OneName` in `ForumAdmins` |
| `resource_server/README.md:346`: "If the token has not been expired, then a new password hash and salt pair is produced" | `users.py:214` refuses it until it *has* expired | `Accounts` |
| `auth_server/README.md:367`: "Deletion is **not** allowed for admins with role `super`."  | `admin_delete` does not look at the target's role | `ActsInSession` in `AdminAccounts` |
| `consumer.py:186`: "post-process successful events and push failed events to DLQ" | `commit_processed_events` is called with the whole batch, those that failed included | `Emit` in `EventPipeline` |

## Not modelled

Which rows are in a page of a decrement: without ORDER BY one may come in two pages or in
none. Wire formats, cryptography, SMTP, request validation and configuration. Private PEM
files: written and removed, but read by no code. The ambiguity of a commit whose
acknowledgement is lost. Which admin calls an endpoint of the key store: any is
assumed to get in there (`AdminAccounts` has what lets them in).

* Token families: nothing of them ever changes. Both endpoints that begin a family pass
  its fresh id to `issue_refresh_token`, which takes any id for that of a family in use,
  finds the list empty and raises; before that they post to an empty URL.
* Pagination of the cache manager and the endpoints that list: the first look at a page
  that is not cached pops from an empty list and raises, so no page is ever cached.
* The counter flush (`tasks/counters.py`): the first group of counters raises before
  anything is written. The consumer of dead letters is bookkeeping, and
  `reclaim_dead_events` raises before it changes anything.
* The email worker: it declares its whole batch dead, sends each message all the same
  and raises after the last; its only state is a dead letter queue nothing reads.

## Plan

1. A composition of `GuardedActions` with `EntryLife` in the place of its worker, which
   would show what an event that is applied twice or lost does to `OneEventPending`.
2. When they are repaired: `TokenFamily` (reissues of one family race for the head of
   its list), `PageLoad` (page keys, versions and members that expire one by one), and the
   counter flush.
