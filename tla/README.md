# Morsel: a TLA+ verification project

Morsel is a small platform-as-a-service: repositories declare apps, a control
plane puts them on a Kubernetes cluster, hibernates them when nobody uses them
and wakes them on request, and keeps an eye on the bill. This directory models
the parts of it whose correctness depends on the order in which concurrent
parties act, checks them with TLC and proves the central properties with
TLAPS.

Paths below are relative to the repository; `ctrl/` stands for
`cmd/morsel-ctrl-plane/internal/`.

## 1. The system

| Component | State it keeps | Operations | Hard behaviour |
|---|---|---|---|
| App lifecycle (`ctrl/api/handler/apps.go`, `lifecycle.go`, `repos.go`) | rows of `apps`, `operations`, `scale_events`; the app's namespace in the cluster | UpsertApp (deploy), HibernateApp, WakeApp, DeleteApp, SyncRepo; each starts a goroutine | goroutines of one app overlap with no lock; Kubernetes calls fail half way; the process dies and nothing resumes |
| Internal wake handler (`ctrl/api/mux.go`) | the `wakingNow` map, `last_active_at` | one wake per namespace at a time, in the background | several requests at once; an entry must not leak |
| Hibernation watcher (`ctrl/watchers/hibernation.go`) | none (a ticker) | lists apps, hibernates the idle ones | works from a snapshot |
| Budget watcher (`ctrl/watchers/budget.go`), gate and exemptions | the single `platform_config` row, `exemptions` | tick, PATCH config, override, exempt | whole-row read-modify-write by two parties; month's end; one-shot enforcement |
| Kubernetes client (`internal/kube`) | the cluster's objects | Apply, Delete, scale, route, watch a rollout | each call may fail; controllers act later |
| Queue service (`svc_queue.go`, `ctrl/queue`) | a SQLite file per queue, `quota.db`, notifier channels | create, delete, enqueue, dequeue with long poll, ack, quota | visibility timeouts, dropped signals, a queue deleted under a request, crashes |
| Wake proxy (`svc_wake_proxy.go`) | none | turns a request into a call of the internal wake handler | - |
| Tiers, repos, quotas (`handler/tiers.go`, `operator.go`) | `tiers`, `repos`; the limits in the namespaces | create, edit, delete a tier, choose the default, assign a repo, check the app count | check-then-act across statements; a goroutine propagates an edit |
| Tokens (`handler/token.go`, `bootstrap.go`, `github_auth.go`, `ctrl/tokens`) | `principals`, `refresh_tokens`, the bootstrap secret | login, bootstrap, refresh, change of a principal | two refreshes of one token at once; a bootstrap that stops half way; a demotion during a refresh |
| Admin UI sessions and CLI profiles (`ctrl/adminui/handler/auth.go`, `cmd/morsel/internal/cli`) | a token pair in a cookie or a file | silent refresh, login, logout, service deploy | an answer that is lost or overtaken |
| Cost estimate (`ctrl/cost`) | none | running hours from scale events | inference from an incomplete log |
| Health, pages of the admin UI, local platform, installation | little or none | - | sequential |

How they interact: the API handlers, the wake handler and both watchers are
goroutines of one process that share the SQLite store (one connection, so every
statement is atomic, and nothing larger is) and the cluster. The gateway sends
a hibernated app's traffic to the wake proxy, which calls the wake handler. The
queue service is a process of its own with its own files; the hibernation
watcher asks it whether a worker's queues are idle.

`PROJECT.json` lists every component with its status, and under `hazards` each
place in the code where a test would hardly reach what can go wrong, with the
properties that watch over it.

What makes each component correct, in short:

- *Lifecycle*: the operation that a client polls says what its goroutine did;
  traffic is never routed to a workload that is scaled to zero; the status
  column agrees with the cluster when nobody is at work; an accepted operation
  ends.
- *Wake handler*: the map holds exactly the namespaces being woken.
- *Watchers*: an idle app is scaled down; the stored budget limits follow the
  estimate; an exemption counts exactly as long as the operator meant it to.
- *Queue*: no message is lost, handed out twice within a visibility timeout, or
  delivered after its acknowledgement; no request hangs.
- *Tiers*: there is never more than one default; the tier of a repo exists; a
  deploy does not take a repo past its quota; an edit reaches the namespaces.
- *Tokens*: an exchanged refresh token is dead for ever; a client that behaves
  is not logged out by others; a demotion counts at once; an instance is never
  left with neither an admin nor a bootstrap token.
- *Cost*: the estimate is the time the app ran, as far as the log tells it.

## 2. Modules

| Module | Models | State |
|---|---|---|
| `AppLifecycle` | every lifecycle goroutine, statement by statement and call by call; the wake handler; both watchers' hibernations; the cluster's controllers; crashes | `row`, `opStatus`, `lastEvent` (tables), `kube` (cluster), `task` (goroutines), `wakingNow` |
| `AppLifecycle_proofs` | invariant of the control state | |
| `AppRouting_proofs` | invariant of the order of cluster calls | |
| `AppStatus_proofs` | invariant of the status column and the cluster | |
| `Budget` | the budget watcher's tick, the two wake gates, PATCH, exemptions, months | `config`, `exemptions`, `hibernated` (tables), `tick`, `patch`, `wake` (goroutines), `period`, `spend` (world), `permanent`, `override` (history) |
| `Budget_proofs` | invariant of the exemptions table, type correctness | |
| `QueueContract` | abstract: what the queue promises of a message | `status`, `leased`, `held` |
| `LocalQueue` | the queue service for one namespace, implementing `QueueContract` | `exists`, `gen`, `msg`, `total`, `limit`, `clock` (files), `send`, `cons` (requests), `chan` |
| `LocalQueue_proofs` | invariant of the queue, and the refinement | |
| `Tiers` | the operator's requests on tiers and repos, the propagation goroutine, and deploy, sync and deletion as far as they count apps or set limits | `tiers`, `repoTier`, `app` (tables), `ns` (cluster), `req` (requests), `calm` (history) |
| `Tiers_proofs` | invariant of the tiers and of what requests know of them | |
| `Tokens` | login, bootstrap, refresh, changes of principals; the clients that keep a token pair | `principal`, `rows`, `secret` (store), `session` (clients), `req` (requests), `retired`, `disturbed`, `seen`, `hadAdmin` (history) |
| `Tokens_proofs` | invariant of the sessions, tokens and roles | |
| `Cost` | `RunningHours` and the log it reads, for one app | `log`, `hibernated`, `listed` (tables), `workload` (cluster), `now`, `periodStart`, `truth`, `missed`, `firstTells` (history) |
| `Cost_proofs` | induction over the log, invariant of the estimate | |
| `MCAppLifecycle`, `MCBudget`, `MCLocalQueue`, `MCTiers`, `MCTokens`, `MCCost` | instances for TLC | |

Conventions. One action is one SQL statement or one Kubernetes call; a
goroutine's position is its `pc`, whose labels name the call it makes next.
What a handler reads before it starts a goroutine is kept in the task record,
as the closure keeps it. Operators named after a function of the source model
that function. A definition whose comment begins with *Seeded fault* is a
plausible bug that stands next to the definition it would replace; it is part of
no specification and exists to show that a property can fail.

### AppLifecycle and the code

`UpsertApp`, `HibernateApp`, `WakeApp`, `DeleteApp` and `SyncRepo` are the
handlers; `DeployStep`, `HibernateStep`, `WakeStep`, `DeleteStep` the bodies of
`runDeploy` (with `Client.Apply`), `hibernateApp`, `wakeApp` and `deleteApp`
(with `Client.Delete`); `InternalWake`, `WakeTouch`, `WakeRefused`,
`LoadOrStore`, `WakeFinish` the wake handler and its goroutine; `IdleStep` and
`BudgetStep` the two watchers over the list they read. `KubeCall` gives every
call its two outcomes, `OnError` says where a goroutine goes on failure.
`PodReady`, `PodGone` and `NamespaceGone` are the cluster's controllers.

The constant `Exclusive` restricts requests to apps with no task at work. The
code does not enforce this: it is what a client that waits for its operation
does. Properties that need it say so; section 3 describes what happens without
it.

### Budget and the code

`TickStart` .. `PersistLimits` are the statements of `Budget.tick` in order,
with the row that the tick read in `tick.cfg`; `PatchRead` and `PatchWrite` are
`PatchPlatformConfig`; `WakeGate` and `CheckExemption` are
`checkBudgetAndMaybeExempt` and `isBudgetBlocked`. The estimate is a number per
month that may move either way (prices change, deleted apps drop out); an
estimate that cannot read everything is short. A forced hibernation and a wake
are one step each here; `AppLifecycle` has their steps. `permanent` and
`override` are history variables: what the operator decided, to be compared with
what the table says.

### LocalQueue and the code

Every request opens its own connections, so its steps are the statements and
commits of `LocalQueue.Enqueue`, `Dequeue` and `Ack`. SQLite is external: a
deferred transaction reads one snapshot, and its first write fails if anyone
has committed since (`stale`); a connection to an unlinked file goes on with the
dead file (`gen`). The refinement maps a stored row to "queued", a row of an
unlinked file to "purged", a claimed row to a lease, and the consumers that were
given a message to `held` (`ContractStatus`, `ContractLeased`, `ContractHeld`).

### Tiers and the code

A request is a record that holds what the handler has read so far, so the
windows between two statements are where the code has them: `UpdateTier` (read
and patch in memory) and `PatchTierWrite`; `DeleteTier`, `CountReposByTier`,
`DeleteTierRow`; `UpdateRepoTier` .. `ListRepoApps`; `UpsertApp` ..
`ApplyManifest`. `PropagateRepos` .. `ApplyNamespaceTier` are the goroutine that
an edit leaves behind. Errors that the code passes over (`countErr`, `tierErr`,
a failed read of the default) are alternatives of the step, the others end the
request (`RequestFails`). `calm` records that no two requests have overlapped
and nothing has failed so far: the handlers use no transaction, and what their
checks promise holds only then.

### Tokens and the code

`Login`, `GitHubPrincipal`, `InsertRefreshToken` are `HandleGitHubAuth`;
`BootstrapCheck` .. `DeleteBootstrapToken` are `HandleBootstrap`;
`FindRefreshToken`, `RefreshRole`, `RotateRefreshToken` are `TokenRefresh`, which
finds the row by hash and rotates it by id. `Refresh`, `RefreshRefused` and
`Answer` are the clients: the admin UI's `RequireSession` clears the cookie on
every failure, the command line's `silentRefresh` keeps its profile. A token is
the number of its generation, since tokens are random and never repeat.
`disturbed` records the clients that had two requests at once or lost an answer.

### Cost and the code

`RunningHours` is its loop as a recursive function (`Loop`, with the turn
`Count`) from the state that `RanBefore` guesses (`Begin`); `Charged` adds the
interval that is still open.
Beside the log that the operations write, `truth` adds up the hours with a
replica. `missed` and `firstTells` name the two ways in which the log is
incomplete: a change without an event (wakes through the proxy, deletions,
failed deploys, failed inserts) and a first event that was no change.

## 3. Runs

Passing runs (states are distinct states; two workers):

| Run | Instance | Checks | States |
|---|---|---|---|
| `AppLifecycle_overlap` | 1 HTTP app, 1 operation, 2 proxy wakes, both watchers, free overlap, errors, crashes | `TypeOK`, `OperationTellsTheTruth`, `WakingNowExact`, `TerminalIsFinal` | 1.67M |
| `AppLifecycle_serial` | one app of each type, 2 operations, 1 wake, idle watcher, an image that never starts, no overlap, errors | `RouteOnlyToScaledUp`, `DeletedMeansGone`, `StatusMatchesCluster` | 0.32M |
| `AppLifecycle_live` | 1 HTTP app, 2 operations, 1 wake, idle watcher, fair | `OperationsEnd`, `WakesEnd`, `IdleAppHibernates` | 1.9k |
| `Budget_limits` | 1 app of 1 repo, 2 months, 2 ceilings, 1 PATCH, 1 fault or crash, fair | `TypeOK`, `ExemptionsExact`, `LimitsConverge` | 0.84M |
| `LocalQueue_contract` | 1 enqueue, 2 consumers, a queue deleted and recreated, failed writes, crashes, fair | `TypeOK`, `OneHolder`, `RequestsEnd`, `KeepsContract` | 82k |
| `Tiers_quota` | 2 tiers, 1 repo with 2 apps, 4 requests, 2 at a time, errors | `TypeOK`, `OneDefault`, `TiersInUseExist`, `NewAppWithinQuota`, `EditsReachNamespaces` | 0.54M |
| `Tokens_sessions` | 2 people, 1 browser, 1 profile, 4 requests, 2 at a time, 3 tokens, 2 deploys, errors, lost answers | `TypeOK`, `ExchangedOnce`, `SessionSurvives`, `RoleIsCurrent`, `NeverLockedOut` | 2.18M |
| `Cost_estimate` | 5 hours, 4 events, any division into months, failed inserts | `TypeOK`, `NeverMoreThanElapsed`, `MonthExact` | 1.43M |

Why the bounds are enough. The lifecycle's races are between two goroutines on
one app: two operations, or an operation and a wake, cover deploy over
hibernate, wake over delete and delete over deploy, and a third operation only
repeats a pair; apps share nothing but the watchers' lists, so three apps, one
of each type, cover the lists. Two images tell "the pod that is ready" from
"the pod that was asked for". Crashes of tasks that do not overlap are left to
the proofs of `RouteSafe` and `DeletedGone`, which include them. In the queue two
consumers are what a double delivery needs, and one deletion separates a live
file from a dead one; several messages and queues are covered by the proofs. In `Budget` two months give one month's end, and one
PATCH is what a lost update needs; the fault bound is what makes "eventually"
meaningful, since a watcher whose every write fails corrects nothing. With
ceilings of 1 and 2 units and estimates of 0 and 1, no limit, the soft limit and
the hard limit all occur. In `Tiers` four requests make a repo with an
app on a tier and change both while it is being used; quotas of 1 and 2 put
every count at, below and above its limit. In `Tokens` a bootstrap makes the
admin, a second login or a patch the other actors, and three tokens give one
exchange and a race for it. In `Cost` four events over five hours put a month's
end before, between and after them. Symmetry (of operations, wakers, requests,
apps, people) is used in safety runs only.

Deadlock is checked in `Budget`. The other systems may stop: operation ids,
enqueues, requests and hours run out, and nobody has to send another request.

Fairness. Goroutines that can run do run (`OpStep`, `WakerStep`, `EnqueueStep`,
`ConsumerStep`): the Go scheduler starves none. Timeouts of a wait are part of
its step. Tickers keep firing (`IdleStep`, `WatcherStep`). In
`AppLifecycle_live` the cluster's controllers work (`PodReady`, `PodGone`,
`NamespaceGone`), and calls do not fail. Nothing is assumed of clients,
operators, time or crashes.

### Where the documents and the code differ

Four runs check what a document says and find it violated:

- `AppLifecycle_f_redeploy` - a deploy of a hibernated app leaves `hibernated`
  at 1, so neither watcher ever hibernates the app again.
- `AppLifecycle_f_rollout` - `WatchDeploymentRollout` is satisfied by the ready
  pod of the image being replaced, so a deploy whose image never starts
  succeeds and is recorded as healthy.
- `Budget_f_hard` - the list of apps is read once, when the hard limit is newly
  hit, and the limit is stored only afterwards: an app woken in between runs
  for the rest of the month.
- `Tiers_f_limits` - the manifest of a deploy carries no limits, so every deploy
  puts the small baseline into the namespace, whatever the repo's tier.

Other differences met while modelling, visible in the modules but without a run
of their own:

- A wake that overlaps a hibernation (route to the proxy, route restored, scale
  to zero) leaves the route on the app's Service and no replica behind it; no
  request reaches the proxy any more (`hibernation.md`).
- The bytes of a deleted queue's messages stay in `total_bytes`, which the
  comment on `Usage` calls the bytes currently stored.
- The app count is checked only for an app without a row: one that is marked
  for deletion and deployed again, and every app of a SyncRepo, passes unchecked
  (`cost-controls.md`, App Count).
- Removing a principal deletes the row and leaves the refresh tokens
  (`authentication.md` and `control-plane.md` say that they are revoked). They
  are refused as long as there is no principal (`RoleIsCurrent`), and work again
  once the person is granted a role again.
- An app that was registered and never deployed has no events and is charged
  from the start of the month (`cost-controls.md`: no running intervals means
  zero compute cost).
- SyncRepo only marks an app that is no longer declared; its namespace stays,
  and `docs/specs/conventions/idempotency.md` says it is deleted.
- `image_last_healthy` is taken from `image_current` at upsert, whether or not
  that image ever became healthy (`deployment.md`).
- A wake through the proxy records no scale event (`cost-controls.md` says every
  one is recorded).
- An HTTP app whose `last_active_at` is NULL - one that was never woken - is
  never hibernated, and a hibernated worker is never woken by the watcher
  (`hibernation.md`).
- `Dequeue` begins a deferred transaction where `queue-service.md` says
  `BEGIN IMMEDIATE`. `OneHolder` shows that this costs an error answer and no double
  delivery.
- The watcher's write of the limits puts the whole row back as it was at the
  start of the tick, so a PATCH of the ceiling in between is lost (`Budget`,
  `PersistLimits`). `LimitsConverge` holds for the row as it then stands.

## 4. Proofs

All theorems hold for every value of the constants that satisfies the named
assumptions (`ConstantsOK`, `ActorsDistinct`; `BudgetConstants`;
`QueueConstants`; `TierConstants`; `TokenConstants`, `NoneApart`;
`CostConstants`). Those say only that sets which stand for different things are
disjoint and that `None` is none of the values it stands beside, that each app
has one known type and one repo, that percentages and ceilings are positive,
that there are finitely many apps (which counting them needs), and that exactly
one of the built-in tiers is the default, as `db/migrations/001_schema.sql` inserts them.

**Control of the lifecycle** (`AppLifecycle_proofs`). `OperationTellsTheTruth`
and `WakingNowExact` are not inductive: that a goroutine with `pc = "succeed"`
belongs to a running operation needs to know which labels an operation's
goroutine can be at. The invariant is

    Control == TypeOK /\ HasApp /\ RoleOK /\ OpStatusOK /\ WakingNowExact

`RoleOK` gives operations, wakers and watchers their
labels, `OpStatusOK` the operation's status for each label, `HasApp` that a
task at work has an app. One lemma per group of actions shows that `Control` is
kept; `WorkStep` carries the common case of a task that moves from one working
label to the next. From `ControlInvariant` follow `TypeCorrect`,
`OperationsTruthful`, `WakeMapExact` and, for the action property,
`TerminalStatusFinal` - with any number of overlapping tasks, errors and
crashes.

**Order of the cluster calls** (`AppRouting_proofs`). `RouteOnlyToScaledUp` and
`DeletedMeansGone` need to know what every intermediate label has established.
`Ordered` says, for tasks that do not overlap, that an app has at most one task
(`OneTask`), that its objects are consistent (`AppOK`: a route to the app implies
a workload scaled up, ...), and what each label needs of them (`TaskOK`: before
scaling to zero the route is not on the app, ...). It is inductive relative to
`Control`; `RouteSafe` and `DeletedGone` follow.

**Status and cluster** (`AppStatus_proofs`). `StatusMatchesCluster` speaks of
apps that no task works on, and so says nothing of the tasks that lead there.
`Settled` adds what holds at every label (`GoodAt`): the status agrees with the
objects wherever a failed call can end the task; at the four labels between the
last cluster call of a hibernation or wake and the UPDATE of the row
(`Between`), where it need not, the objects are already those of the status to
come; and `kube.Apply` works under the status "deploying", which promises
nothing. It is inductive relative to `Control` and `Ordered`: the latter says
that the route has left the app before the workload is scaled to zero, and that
the workload is up before the route returns. `StatusAgrees` follows. A crash
between a cluster call and the UPDATE breaks the property, which is why it
excludes crashes.

**Exemptions** (`Budget_proofs`). `ExemptionsExact` speaks only of the rows that
count now. The invariant adds which rows there are (`Table`: each stands for a
decision of the operator, and each decision in force has its row) and that a
tick never works with a later month than the current one (`Clock`), without
which the clean-up could delete an override that still counts.
`ExemptionsAreExact` follows. `TypeCorrect` needs only that a tick that is
scaling an app down has one (`Taken`).

**The queue** (`LocalQueue_proofs`). `OneHolder` is not inductive: it says
nothing of a dequeue that has selected a row and not claimed it yet. The
invariant is

    Inv == TypeOK /\ Requests /\ Rows /\ Fresh /\ Leases /\ NoRace /\ OneHolder

`Fresh` says what a transaction knows of its row as long as nobody has committed
since its snapshot, `NoRace` that nobody holds that message meanwhile: together
they are why the deferred transaction is enough. `Rows` and `Leases` tie the
rows to the requests. `TypeCorrect` and `NeverTwoHolders` follow from
`Invariance`. For the refinement, one lemma per action that is visible in the
contract (`InsertContract`, `SetVisibilityContract`, `DeleteMessageContract`,
`LapseContract`, `DeleteQueueContract`) shows the step of `QueueContract` it
maps to, and `Stutters` and `CrashStutters` that all others map to none;
`ImplementsContract` is `Spec => KeepsContract` for every number of queues,
messages, consumers and deletions, with failures and crashes.

**Tiers** (`Tiers_proofs`). `OneDefault` holds whatever overlaps and fails,
since the flag moves in one statement and a patch does not write it. The other
properties are about `calm` histories, and need to know what a request still
remembers correctly:

    Inv == TypeOK /\ Requests /\ OneDefault /\ TiersInUseExist
             /\ Alone /\ CalmRequests

`Alone` says that a calm history has at most one request at work, `CalmTier` and
`CalmQuota` what that request knows: at the DELETE no repo is on the tier; at
the INSERT of an app the count is below the quota of the tier that the repo has
now; during a propagation every namespace has the new limits or is still ahead
(`Ahead`). `UsedTiersExist` is a part of `Inv`; the action properties
`QuotaIsKept` and `EditsArrive` follow from it step by step, the first with the
cardinality of one more app.

**Tokens** (`Tokens_proofs`). The invariant is

    Inv == TypeOK /\ Requests /\ Issued /\ Hashes /\ ExchangedOnce /\ Private
             /\ Undisturbed /\ Roles /\ Admins /\ NeverLockedOut

The exchange finds a row by its hash and rotates it by its id, without a
transaction: `Hashes` says that the row found stays the only one which can have
the token, whoever rotates it meanwhile, and `Issued` that a new token is new.
`SessionSurvives` needs that others cannot rotate a client's row: `Private`
says that no token, and no row about to be rotated, is in two clients' hands,
and `Undisturbed` follows the token from the answer to the session. `Roles` ties
the role that a request carries to the roles seen since it began; `Admins` says
who can only exist after an admin did, which is what `NeverLockedOut` needs when
a bootstrap stops half way. `TokensExchangedOnce`, `SessionsSurvive`,
`RolesCurrent` and `BootstrapNeverLocksOut` follow from `Invariance`.

**The estimate** (`Cost_proofs`). What the loop of `RunningHours` computes for a
log of any length is a matter of induction. The library's induction theorems
take a predicate as a parameter, which the provers cannot instantiate; the
lemma `Induction` takes a set instead and is proved from the existence of a
least element (`WFMin` for `<` on the naturals). From it follow that the
recursive functions `RowsSince` and `Loop` exist and are computed turn by turn
(`Recursion`, `SameTurns`), and that one more row in the log is one more turn
(`AppendRow`, `AppendTurn`). The invariant then speaks of the month's account
only: `Bounded` (what was charged lies in the part of the month that is over)
and, where nothing was missed, `Exact` (it is the time that the app has run).
`ChargeIsBounded` and `ChargeIsExact` follow.

Every inductive invariant also holds in all states of its component's safety run
(TLC).

Only model-checked: liveness (`OperationsEnd`, `WakesEnd`, `IdleAppHibernates`,
`RequestsEnd`, `LimitsConverge`), which is out of the prover's reach, and the
four violations. Every invariant and action property of the passing runs, and
the refinement, is stated by a theorem.

## 5. What is abstracted or left out

- Writes to the store that fail are only logged by the lifecycle goroutines;
  `AppLifecycle` takes them as always succeeding. A failed Kubernetes call has
  no effect on the cluster.
- An app keeps its type; which of the two gateways a route is attached to,
  manifests, environment and resource limits are not modelled. The deletion of a
  namespace takes its objects at once.
- `idle_after` is read as "recent" or "old enough"; the answer of the queue
  service to the watcher may be either.
- In `AppLifecycle` SyncRepo's statements are taken together and the quota check
  of UpsertApp is left out; `Tiers` has both. In `AppLifecycle` the budget gate is a choice; `Budget` has it.
- Queue: one namespace; callers are already identified; calls that only read
  are left out; the order in which the `.db`, `-wal` and `-shm` files are
  removed, and a request between `stat` and `open`, are not modelled.
- Budget: arithmetic is on integers (percentages of small ceilings);
  `default_idle_after` is not part of the row; an app has one wake under way at
  a time, and one PATCH is in flight.
- Tiers: CPU and memory are one value; storage limits and `hibernate_after` are
  left out; the two objects that ApplyNamespaceTier writes are written together;
  a deploy reaches its manifest in one step and a namespace goes at once.
- Tokens: GitHub is configured and answers; a login is the identity of a
  principal; deploy tokens, which nobody keeps, and signing keys, which never
  change, are left out.
- Cost: one app; an operation takes no time; prices are left out.

### Not modelled

Health reporting (probes that read and answer), the pages of the admin UI (they
render what the API answers), the local platform (fixed values and thin
adapters), installation (idempotent creation of fixed objects) and the
interactive part of the command line keep no state that two parties change; a
model of them would restate their assignments.

More than four fifths of the lines of the repository's Go code are generated: the ogen
server and client (`oas_*_gen.go`, twice), the sqlc queries and the templ pages.
They decode, encode and dispatch and have no behaviour of their own; what they
are generated from - the SQL statements, the handlers - is what the modules
translate. Counted against the generated lines too, the modules therefore cover
a small share of the repository; of the hand-written control plane they cover
the handlers, watchers, store, queue and Kubernetes calls that change state.

## 6. Plan

What would add most next:

1. The action property behind `ExchangedOnce` (a row, once its token is
   exchanged, only ever moves on to newer tokens), and a theorem that names what
   a crash can leave behind in `AppLifecycle` beyond `RouteSafe`.
2. The deploy client of the command line (polling an operation to its end),
   composed with `AppLifecycle` to justify `Exclusive`.
3. The parts of liveness that are safety: that a task at work always has a step
   it can take.

## 7. Running it

    tlc -workers 2 -config AppLifecycle_serial.cfg MCAppLifecycle
    tlapm AppRouting_proofs.tla

Every run is listed in `PROJECT.json` with its module and configuration.
