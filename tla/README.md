# Verification of the Harvest Hub backend API

TLA+ specifications, TLC runs and TLAPS proofs for the Go backend of Harvest Hub.
Users own hubs, hubs carry probes (nodes), and a user can have the motor of a node
run through a command queue that the hub polls. File and line references are to the repository.

## The system

| component | state | operations | interacts with |
|---|---|---|---|
| **Control service** `internal/service/control_service.go` | `motor_commands` (one row per command), `motor_command_events` (append-only log) | `CreateMotorCommand`, `GetMotorCommandStatus` (user); `PullPendingMotorCommands`, `AckMotorCommandEvent` (hub) | reads `hubs` and `sensor_nodes` to decide who may command a node and locks them in creates |
| **Hub provisioning** `internal/auth/service.go`, `internal/service/auth_service_v2.go` | `hubs`, `hub_tokens`; the token in the device's flash memory | `AssociateHub`, `ListHubs`, `RevokeHub` (user); `ClaimHubToken` (device) | signs tokens with the JWT manager |
| **User accounts** (same files) | `auth_users` | `RegisterUser`, `LoginUser`, `ChangeEmail`, `ChangePassword` | JWT manager |
| **Node binding and readings** `internal/service/garden.go` | `sensor_nodes`, `sensor_data` | `InsertSensorData` (hub) | binds a node to the hub that reports it first; the control service relies on that binding |
| **Sensor queries** `internal/service/garden.go` | none | `GetSummary`, `GetLast`, `ListProbesForHubName` | one SQL query each |
| **JWT manager** `internal/auth/jwt` | key pair in memory and in two files | `NewOrLoadJWTManager`, `GenerateToken`, `ValidateToken` | auth service, interceptor |
| **Interceptor** `internal/auth/middleware.go`, `internal/auth/context` | none | puts a token's claims into the request context | in front of every handler |
| **Chat service** `internal/service/chat.go` | none | `SendMessage` | one query and one call to a language model |
| **Start-up** `server/main.go` | the process | migration, key loading, wiring, `http.ListenAndServe` | serves every request in its own goroutine on one connection pool |

All handlers run concurrently and share nothing in memory; they meet in PostgreSQL, at its
default isolation (READ COMMITTED). The hard behaviour is what overlapping handlers do to
rows they read at one time and write back at another:

- gorm's `Save` writes *every* column of a row as it was read, so it undoes what another transaction did in between;
- only `CreateMotorCommand` locks what it reads (`SELECT … FOR UPDATE` on node and hub); pulls, acknowledgements and status calls lock nothing;
- a handler reads its clock before its transaction starts, so it acts with a time that is over;
- a create is two transactions with anything in between;
- hubs retry polls, acknowledgements and claims whose answers got lost;
- nothing works in the background: expired leases and commands are cleaned up only when a call comes by.

What makes a component correct:

- *Control service*: one active command per node; a confirmed or finished command is never handed out again; a lease is exclusive while it runs; nothing takes effect after a command's expiry; queue order; the rate limit in every window; one command per idempotency key; an event log that tells the real transitions; no command blocks its node for ever.
- *Hub provisioning*: a hub is claimed once until it is revoked, and no loss of an answer locks a device out for good.
- *Accounts*: an email and a password change both last. *Binding*: a node stays with the first hub that reports it and a reading belongs to the hub that sent it. *Queries*: everybody sees his own readings and nobody else's.
- *JWT keys*: after any crash the pair on disk fits together, and a token stays valid over restarts. *The whole*: a hub that keeps trying gets its readings in.

`PROJECT.json` lists under `hazards` where each of these can go wrong, with the properties that watch it.

## Modules

### `MotorCommand` — one row and its transitions
Pure definitions, no state: the statuses, the row, and every way the code rewrites it
(`Expire`, `Requeue`, `Reconcile`, `LeaseTo`, `Acked`) with its guards (`CommandExpired`,
`LeaseExpired`, `ShouldExpireOnAccess`, `AckTransition`, `AckAccepted`). The three lease
columns are set and cleared together, so the expiry stands for them. Reason, message, action
and duration columns only inform a reader. Both models of the control service use these
definitions and differ in *when* rows are read and written.

### `ControlService` — a transaction as one step
State: `now` (wall clock), `cmd` (the table), `creating` (creates between their two transactions).

| action | code |
|---|---|
| `CreateBegin` | validation, first clock readings, the reconciling transaction (lines 78–121, 815–823) |
| `CreateInsert` | second transaction: not a replay, rate limit, no active command, insert (126–188) |
| `CreateAnswered` | the same transaction when it answers with the existing command or refuses |
| `CreateAbort` | the caller goes away or the transaction fails |
| `Pull` | reconcile the hub, lease the oldest queued commands (250–326) |
| `AckApplied`, `AckRepeated` | reconcile the hub, then apply a status or find it already applied (328–433) |
| `GetStatus` | expire an overdue command on access (216–248, 755–789) |
| `Tick` | time passes |

Each call picks a clock reading up to `MaxLag` behind `now`; this is the delay between
`time.Now()` and the transaction. Calls that are refused change nothing (a refused
acknowledgement also rolls back its reconciliation) and have no action. A hub never changes its
user and a bound node never changes its hub, so a node determines both (`HubOf`) and calls by
others, refused at once, are left out. A row the owner of a hub may see is then the same as a row of the node.

These are the executions in which transactions do not overlap; the repository's tests, on a
single SQLite connection, can produce no others.

### `MotorSlots` — what the queue promises
An abstract specification without clocks, leases or calls: a node is a slot; a command enters a
free slot once, is confirmed at most once, leaves, and never returns. `ControlService` implements
it under the mapping `Slots` (occupant: active commands, confirmed: sent or executing, retired: terminal).

### `ControlServiceRC` — a statement as one step
The same handlers on PostgreSQL: `session[w]` is the call worker `w` runs, `todo` the saves its
last read decided on, `buf` what it saved and has not committed. `View` is what a statement reads at
READ COMMITTED; `Save` writes the row as computed earlier and waits for another
transaction's uncommitted write of that row; `TargetLocked` is the `FOR UPDATE` of creates;
`Rollback` may end any call at any point (refusal, cancelled context, lost connection, database
deadlock). `audit[c]` folds a command's events to the last status reported and whether each event
started where the previous one ended and led to another status. `Connections` bounds the transactions running at a time:
with 1 the module implements `ControlService` (`ImplementsControlService`: the instance `Atomic` with `Creates`, the creates whose second transaction is to come, for `creating`).

### `HubProvisioning` — claim-once tokens
State: `owner` (`hubs`), `rows` (number of `hub_tokens` rows per hub), `claim` (requests being
served), `holds` (does the device have its token). `ClaimChecked` is the load and the count of
`ClaimHubToken`, `ClaimStored` its insert, `ClaimAnswered` the arrival of the answer, `ClaimLost` any
failure after the check. A device that waits in vain claims again while its earlier request runs.
The device's retries, its reset and the owner who revokes a stranded hub are not in the
repository; they follow `docs/HUB_PROVISIONING.md` and are marked external in the map. The content of tokens is not modelled.

### `SensorBinding` — a node's hub and its readings
State: `hubOf` (`sensor_nodes.hub_id`: no row, a row without hub, or a hub), `created` (nodes whose row
this code created), `sentBy` (which hubs sent the node's rows in `sensor_data`), `insert` (the requests being served).

| action | code (`garden.go`) |
|---|---|
| `LoadNode` | the checks of `InsertSensorData` and the load in `bindNodeToHub`; a node of another hub is refused (39–57, 87–103) |
| `CreateNode`, `CreateRefused` | the insert of the node's row and its failure on the unique index (91–96) |
| `BindNode` | the update of a row that had no hub, whatever it says by now (104–108) |
| `StoreReading` | the insert into `sensor_data` (64–76) |
| `InsertLost` | a failing statement or a dying process |

The handler has no transaction, so each statement is a step. Nothing in the code makes a node row without a
hub, but the schema allows it and the handler binds it: `Init` lets any node have one. Two requests that load such a row both
bind it, so a node is only pinned once it is `Settled`; a row the code created is settled from the start.

### `NodeRegistry` — what the handler promises
The abstract specification of `InsertSensorData`: a node is pinned to a hub once (`Pin`) and takes readings of that hub only (`Take`).
`SensorBinding` implements it for the nodes this code registers, under the mapping `Pinned` and `Reported`; nodes that had a row without a
hub stay outside the registry, since two hubs can bind such a row.

### `SensorQueries` — who sees what
No steps: `GetSummary`, `GetLast`, `ListProbesForHubName` and the chat's garden context as functions of the tables
and of the caller's token (`UserToken`, `HubToken`). The answer is the set of nodes it is about. Two of them have a set of
possible answers: `ListProbesForHubName` takes the first hub of that name, and names need not be unique; `ChatContext` takes the
first `ChatLimit` rows (`FirstOf`; 50 in the code) in the order of hub name and node id (`ListedBefore`). `HubName` and `NodeId`
number names and ids in the order the database sorts them.

### `JwtKeys` — two key files
State: `privateFile`, `publicFile` (missing, torn, or the pair whose half they hold) and `server`, the process.
`StartLoaded` takes both files as they are, `StartFresh` generates a pair if one is missing or unreadable,
`SavePrivate` and `SavePublic` write in place one after the other, `Crash` may hit anywhere and leaves the
file being written as it was or torn. Only crashes damage files in the model.

### `Garden` — the composition
One server process, hubs, owners and nodes. It extends `HubProvisioning` and takes `SensorBinding`, `JwtKeys` and `SensorQueries` by
INSTANCE; each action is an action of one component together with what it needs of the others. Claims and readings are served by the same workers while the process
is up; a process that dies drops what it served (`Drop`) before the next one starts. `DeliverToken` signs with the key of the serving process,
`ValidToken` is `ValidateToken`, and `Authenticated` is the interceptor in front of `InsertSensorData`. Losing the token
(`Reset`) also stands for its expiry after a year.

### `Accounts` and `Credentials`
`Credentials` is what the comments in `auth/service.go` promise: an account has an email of its own and a
password, and a request changes the one it is about. `Accounts` is the code: `ChangeEmail` and `ChangePassword` load the row and, a bcrypt comparison later, `Save` all
of it; `RegisterUser` and `RegisterLogin` are the two halves of `Register`, `Login` is one query. `Overlap` says whether requests of one user may overlap.

### Proof modules and model-checking modules
`ControlServiceProofs`, `ControlServiceRCProofs`, `ControlServiceRCSerialProofs`, `HubProvisioningProofs`, `SensorBindingProofs`,
`JwtKeysProofs`, `GardenProofs` and `AccountsProofs` hold the theorems. The modules named `MC…` give TLC the hub map, the hub
names, the model values and the symmetry sets.
Definitions commented *Mutant* are plausible bugs; putting one in place of the definition that follows it must make a property fail (`PROJECT.json`, `mutants`).

## Runs

| run | instance | shows |
|---|---|---|
| `queue_node` | 1 node, 3 commands, 3 keys, 2 creates at once, expiry 2, leases of 1 and 3, time 0..3, lag 1 | `OneActivePerNode`, `LeaseMatchesStatus`, `RateLimitHolds`, `NeverRedelivered`, `LeaseHonoured`, `ReportsUnderLease`, `NothingAfterExpiry` |
| `queue_hub` | 2 nodes of one hub, 2 commands, 2 keys, up to 2 per pull, rate window 0, expiry 2, lease 1, time 0..3, `FairSpec` | implements `MotorSlots` (`ImplementsSlots`), `OldestFirst`, `PendingResolves` |
| `delivered_stuck` | 2 nodes of one hub, 2 commands, time 0..3, `DiligentSpec` | **violated**: `DeliveredResolves` |
| `rc_race` | 1 node, 2 commands, 2 overlapping calls, expiry 1, lease 1, time 0..3 | `LeaseMatchesStatus`, `AdmissionStable`, `RateLimitHolds`, `BusyOnlyByRevival` survive overlapping |
| `rc_serial` | 1 node, 2 commands, 2 calls with one connection, lag 1 | `AuditIsChain`; implements `ControlService` |
| `rc_active` | 2 overlapping calls | **violated**: `OneActivePerNode` |
| `rc_lease` | 2 overlapping polls | **violated**: `LeaseHonoured` |
| `hub_provisioning` | 2 users, 2 devices, 2 claims at once, `FairSpec` | `BoundedClaims`, `Provisioned` |
| `hub_claim_once` | 1 device, 2 claims at once | **violated**: `ClaimOnce` |
| `garden` | 2 owners, 2 hubs, 1 node, 2 requests at once, 2 key pairs, any number of crashes, `FairGardenSpec` | `TokensSurvive`, `HubsAttributed`, `NodesStay`, `ReadingsArrive`; implements `NodeRegistry` (`NodesPinned`) |
| `garden_queries` | 2 owners, 3 hubs (two with one name), 2 nodes, 1 request at a time, room for 1 node in the chat prompt | `OwnersSeeTheirReadings` |
| `accounts_overlap` | 2 users, 3 emails, 2 passwords, 2 requests at once | **violated**: `OneColumnAtATime` |

**Bounds.** `MaxTime`, `MaxLag`, the sets of commands, keys and workers, `MaxPull` and the lease and
expiry distances are bounds; everything else is unbounded. Two commands are enough for a second
active command, for queue order and for a replaced lease; the third in `queue_node` is the one
a full rate window refuses and the successor of a successor. Two workers are enough for
any pair of overlapping calls. Times 0..3 hold a lease of length 1 inside an expiry of 2 with one
unit to spare for a requeue, a second lease and the expiry itself; in `queue_node` a lease of length 3 outlasts the expiry of its command.
A rate window of 0 in `queue_hub` lets a node have its second command before the first one expires.
Its clock readings do not lag: `ImplementsSlots` and `OldestFirst` are proved for any lag.
In `rc_race` a command can be finished, and its node be free for the next one, while an older read of it waits to be saved, so the revival of
`BusyOnlyByRevival` occurs. An expiry of 1 leaves no time for a requeue there: requeues are in `rc_serial` and, under any overlap, in the proofs.
Commands, keys and workers are interchangeable in the safety runs (they are only compared for equality), so are symmetric there; liveness runs use no symmetry. Deadlock is checked everywhere.
In `garden` two hubs and two requests make the races for a new node and for a row without a hub; one node is enough, as nodes share nothing but the
workers. Two key pairs are what an aborted start and the next one need; a pair that is in no file any more can be generated again. `garden_queries` needs no two requests at once: what it adds is
a prompt too small for a user's nodes and a hub name that does not determine the hub. Every property of the two runs but `ReadingsArrive` is also proved for any number of each.

**Fairness.** `FairSpec` of `ControlService`: time passes, and each hub keeps polling without
every single poll being delayed between its clock reading and its transaction. Nothing is
assumed of users or that a hub acknowledges. `DiligentSpec` adds every acknowledgement the service would accept and every status
query: the strongest help from outside, under which `DeliveredResolves` still fails, so the fault is the service's.
`FairSpec` of `HubProvisioning`: strong fairness for a device's claims, their storing and
their answers (each attempt may fail, not all of them), weak fairness for the owner's revocation of
a hub that is listed as claimed but has no token. Without that revocation one lost answer locks the device out.
`FairGardenSpec` of `Garden`: faults (a crash, a request that fails while the process is up) may come any number of times but end at some point;
the process is started again by its supervisor and gets on with its start; every request ends. The hubs in `Diligent` claim until they have a token and
send their readings again and again (strong fairness, since another hub's requests, a restart or a lost token may disable each attempt), and their owners
revoke stranded claims. All other hubs and owners may stop at any time, and tokens may be lost without end.

## What disagrees with the documents

1. **A confirmed command can block its node for ever** (`delivered_stuck`). After its expiry a
   `sent_to_probe` or `executing` command can neither be finished nor expired: acknowledgements are refused
   with "command has already expired", and clean-up covers queued and leased rows only.
2. **Two active commands on one node** (`rc_active`), against `motor_command_models.go:7`: a
   save of a row read earlier revives a command that was finished meanwhile, after a create found the node free.
3. **Two polls lease the same command** (`rc_lease`), against `control_service_test.go:703`.
4. **Claim-once does not hold for overlapping claims** (`hub_claim_once`), against `docs/HUB_PROVISIONING.md:79`.

5. **An email and a password change undo each other** (`accounts_overlap`), against the comments at `auth/service.go:120` and `166`:
   each saves the whole row it loaded before bcrypt, and brings back the other's old value.

6. **A node without a hub can be bound twice**, against `garden.go:30` and `docs/HUB_PROVISIONING.md:138` ("pinned to their first-seen hub"):
   the update of `bindNodeToHub` (line 105) has no condition, so of two hubs that load the row before either binds it the second moves the node.
   `PinnedToFirstHub` states the promise. No run is spent on it, since no handler makes such a row; what holds instead, that the node stays once those requests
   are served, is `NodesStay` of `garden`.

1 is not a matter of the instance: `StuckNeverResolves` proves it for every execution in which a command gets stuck.
2 to 6 need overlapping requests, which the tests do not produce; that they need them is proved (`OneActiveWhenSerial`, `LeaseExclusiveWhenSerial`, `ClaimedOnceBySingleWorker`, `SequentialChanges`, `PinnedBySingleWorker`). In the same executions as 2 and 3 `AuditIsChain` fails too:
the log reports transitions from statuses the row no longer had.

## Proofs

All theorems hold for every value of the constants under the assumptions declared in the
modules: `HubAssumption`, `TimeAssumption`, `RateAssumption`, `RCAssumption` (positive expiry and lease distances, a limit and pull size of at
least one), `WorkerAssumption` (finitely many claims at a time), `MarkAssumption` (hubs, users and keys differ from the marks for their absence) and
`TableAssumption` (finitely many nodes, names and ids that can be sorted, no two nodes with one id, room for a node in the prompt).
What a single theorem assumes beside them is said with it.

`ControlServiceProofs`. The inductive invariant is `IInv == TypeOK /\ LeaseMatchesStatus`: without the
second conjunct a leased row might have no lease expiry and would never be requeued, so a step from it would be
unpredictable. `NextEvolves` reduces every action to a statement about single
rows: for some clock reading `t`, each row stays, is reconciled, leased or acknowledged at `t`, or is newly
inserted (`Changed`, `Evolves`). What a row may become is then proved once (`RowStep`), and the theorems follow
from it without looking at the actions again.

| theorem | states |
|---|---|
| `TypeCorrect`, `LeaseColumnsAgree` | `[]TypeOK`, `[]LeaseMatchesStatus` |
| `OneActiveCommand` | `[]OneActivePerNode`, inductive together with `IInv`: rows become active by an insert only, and an insert sees no active row of its node |
| `NoRedelivery`, `LeaseExclusive`, `ReportsNeedLease`, `ExpiryRespected` | the action properties of `queue_node` |
| `RateLimited` | `[]RateLimitHolds`; the strengthening `RateInv` relates creation times to the clock and to the readings of creates in flight, which lets the count at an older reading bound every window the new row falls into |
| `DeliveredInOrder` | `OldestFirst`, from what `OldestOf` selects |
| `QueueImplementsSlots` | `Spec => Slots!SlotSpec`: an insert is `Enter`, every other change is `Settle`, the rest stutters |
| `StuckForGood`, `StuckBlocksNode`, `StuckNeverResolves` | a confirmed command that even the oldest clock reading sees expired (`Stuck`) stays so for ever, no command is inserted for its node, and `DeliveredResolves` is false whatever fairness is added: `Changed` of such a row contradicts its own guard |
| `PollsResolve` | if time reaches a pending command's expiry (`ExpiryComes`) and its hub polls after that (`PollComes`), the command does not stay pending, which is `PendingResolves`: an overdue command stays overdue whatever else happens to it (`OverdueStays`), and one poll of its hub expires it (`PollExpires`) |

`HubProvisioningProofs`. `BoundedClaims` is inductive with `TypeOK`. The second part says what the single claim costs.

| theorem | states |
|---|---|
| `ClaimsBounded`, `ClaimedOnceBySingleWorker` | rows plus checked claims never exceed the number of workers, since a claim is let in only at zero rows and each row takes the place of a checked claim; with one worker this is claim-once |
| `OnlyOwnerUnlocks` | a device with a token row, no token and no request under way (`LockedOut`) stays so until `RevokeHub` by its owner |
| `LockedOutForGood` | `Provisioned` is false in every execution with a lock-out that is never revoked, so `FairSpec` cannot do without the owner; `Owned` (only associated hubs have rows and claims) is the invariant it needs |

`ControlServiceRCProofs`. Sessions overlap at will here, so nothing can be said of how new a row in `todo` or `buf` is. `IInv` says what survives that:
such a row is a consistent row of a command that exists, with the node, key and creation time the command will always have
(`GoodWrite`), and the folded events end at the status of the committed row. Hence a commit writes consistent rows, and no step but an insert changes which
rows belong to a node (`CommandsStay`). For creates, `Exclusive` adds that two creates inside a transaction are for different hubs; what a create found
about its node is then stable until it inserts. All of it is independent of `Connections`.

| theorem | states |
|---|---|
| `TypeCorrect`, `LeaseColumnsAgree` | `[]TypeOK`, `[]LeaseMatchesStatus` |
| `ChecksStay` | `[]AdmissionStable` |
| `OnlyRevivalIntervenes` | `BusyOnlyByRevival`: of the other calls on the node only one that saves a stale row commits an active one, and a create is kept out by the locks |
| `RateLimited` | `[]RateLimitHolds`, from `ChecksStay` and the order of creation times and clock readings |
| `OneCommandPerKey` | a node has one command per idempotency key; it follows from `ChecksStay` without the unique index |
| `CommandsKeepIdentity` | no step deletes a command or changes its node, key, creation time or expiry |

`ControlServiceRCSerialProofs` has what one connection gives. At most one session is then in a transaction, so the rows in its `todo` and `buf` are those
the table had when it began (`Serial`), and what it will leave behind is known from its first read on: `Promised` is the table a transaction
still has to produce, and `Promises` that every step keeps it. The transaction therefore acts at its commit as the one step of `ControlService` it stands for
(`OutcomeImplements`), and its other steps stutter; a create in flight between its transactions is what `Creates` shows. The theorems of
`ControlServiceProofs`, as an instance under the same mapping (`Service`), then hold of the statements.

| theorem | states |
|---|---|
| `AuditChains` | `[]AuditIsChain` when `Connections = 1`: no transition is missing from the log, and no repeated acknowledgement is in it |
| `StatementsImplementTransactions` | `Spec => ImplementsControlService` when `Connections = 1`, for clock readings up to `MaxLag` before the transaction and any delay inside it (`MaxTime` is the lag of the atomic model) |
| `OneActiveWhenSerial`, `LeaseExclusiveWhenSerial` | `[]OneActivePerNode` and `LeaseHonoured`, both refuted by TLC for two connections |
| `TransactionPromisesHold` | `NeverRedelivered`, `OldestFirst` and `ImplementsSlots` of `ControlService` |

`SensorBindingProofs`, `JwtKeysProofs`, `GardenProofs`.

| theorem | states |
|---|---|
| `TypeCorrect`, `HubsAttributedToNodes`, `NodesNeverMove` (`SensorBindingProofs`) | a request that is about to store a reading of a node registered by this code comes from its hub; no request that would bind such a node is under way, since the node never was a row without a hub. A node that had one keeps its hub from the moment it is `Settled` |
| `PinnedBySingleWorker` (`SensorBindingProofs`) | `PinnedToFirstHub` for a server that serves one reading at a time: nothing changes a row between its load and its update |
| `HandlerImplementsRegistry` (`SensorBindingProofs`) | `Spec => ImplementsRegistry`: `CreateNode` is `Pin`, since a node without a row has no readings that the mapping would bring to light; `StoreReading` is `Take`; binding a row that had no hub is a stutter |
| `PairFits` (`JwtKeysProofs`) | `[]PairMatches`: the public file is written last, so a whole public file belongs to the private one, and from then on no start touches either |
| `PairStays` (`JwtKeysProofs`) | once both files can be loaded, no step of any process writes them |
| `GardenTypes`, `HeldTokensAccepted`, `ReadingsBelongToHub`, `NodesStayWithHub` (`GardenProofs`) | the invariants of the components hold in the composition, since every step of `Garden` is a step or a stutter of each; a token held or about to be delivered was signed by the pair in the files |
| `GardenImplementsComponents`, `GardenClaimsBounded` (`GardenProofs`) | the composition implements `HubProvisioning`, `SensorBinding` and `JwtKeys`, so their theorems hold in it, the bound on token rows for instance |
| `SystemImplementsRegistry` (`GardenProofs`) | `NodesPinned`, from `HandlerImplementsRegistry` |
| `QueriesShowOwnReadings` (`GardenProofs`) | `[]OwnersSeeTheirReadings` for any names and any `ChatLimit`: a node left out of the prompt has `ChatLimit` nodes of the same user before it |

`AccountsProofs`. For any overlap: `TypeCorrect`, and an email and password given to `Login` are those of one account (`LoginFindsOneAccount`). For `Overlap = FALSE`: `SequentialAccounts` (`Spec => Credentials`' specification) and `SequentialChanges` (`OneColumnAtATime`). The invariant: the row a request is about to save
agrees with the table in the column it leaves alone, since no other request of that user is open. `Accounts` has this proof in place of a passing run.

Only model-checked: the liveness properties `PendingResolves`, `Provisioned` and `ReadingsArrive` (fairness is outside the prover's reach).
What is proved in their direction: that `PendingResolves` follows once time passes and hubs poll (`PollsResolve`; that weak fairness in `FairSpec` provides both is a matter of ENABLED and left to TLC),
and the negative half, where a fairness assumption is missing or of no help (`LockedOutForGood`, `StuckNeverResolves`).

## Not modelled, and why

- Answers of calls (which command a replayed create returns): they change nothing another call can see.
- Lock queues and database deadlocks: two transactions of a hub can save the same rows in different orders; the victim's rollback is covered by `Rollback`, the waiting cycle itself is not in the model.
- Key files that are deleted or edited from outside, and a deployment that keeps them on a disk that goes with the container: the code then generates new keys, as the comment on `NewOrLoadJWTManager` says. Nor an error in reading intact key files, which the code answers with new keys as well.
- Time in tokens: an expired token is one the device lost (`Reset`). Readings' values, times and averages: no property distinguishes them.
- The chat's prompt text and its call to the language model; message formats, logging, HTTP, bcrypt, CORS, configuration, schema scripts: no state and no ordering.
- The status `cancelled` exists in the code but no handler sets it; it is in `Status` and no action produces it.

## Plan

Done: all components above with state, their composition in `Garden`, and proofs about each.

Left, in this order:

1. Binding and queue in one model: nodes registered while commands for them are created, in place of the constant `HubOf`.
2. The steps behind `Provisioned` and `ReadingsArrive` as theorems, the way `PollsResolve` does it for the queue, so that only fairness is left to TLC.
3. A claim as a lock held until it is revoked, as an abstract specification of `HubProvisioning` with one worker.
