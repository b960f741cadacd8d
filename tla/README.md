# Verification of the Telegram companion

TLA+ modules, TLC configurations and TLAPS proofs about the desktop companion
in `src/`. The modules are written from the Go source (and the Objective-C
bridge); `PROJECT.json` maps every definition to the lines it stands for.

## The system

A desktop application (Go, Wails, SQLite) drives several Telegram accounts. An
account is a *scout* (it only reads) or a *spammer* (the code's name for an
account that sends). Messages that match keywords become jobs in a durable
queue; a runner sends the replies. Separately, a user can plan direct messages,
manage catalogs of channels the accounts join, collect and analyse messages, and
route accounts through proxies. Around it: a licence with revocation, an
updater, backups and a bundled first profile.

| component | state | operations | what is hard | module |
|---|---|---|---|---|
| delivery runner (`usecase/scheduler.go`) | one `RunOnce` in progress | select, claim, decide the turn, wait for a rest, check, send, settle | everything it read may change before it is used | `Delivery` |
| job queue and live history (`sqlite/job_store.go`) | `outgoing_message_jobs`, `live_delivery_history` | enqueue, next due, claim, delay, count a failure, close, complete | retries after crashes, attempt limit, two tables that must agree | `Delivery` |
| account store (`sqlite/production_store.go`) | status, role, flood wait, cursor, rests | role change, flood wait, recovery | written by the manager, both runners and handlers | `Delivery` |
| outbound boundary (`gotd/outbound.go`) | last grant, grants of the last minute | account lease, re-check, reserve, send | clock and settings read before the mutex | `Delivery`, `OutboundRate` |
| scheduled messages (`scheduled_dm*.go`) | tasks, recipients, runs, deliveries, leases | save, start, stop, cancel, claim, delay, complete | lost answers, edited tasks, checks and writes in two steps | `ScheduledDM` |
| updater (`updater/service.go`) | snapshot, retry state, busy, operation number, timers | check, download, install, progress, timers, start, stop | driver calls outside the mutex, cancellation against answers | `Updater` |
| Sparkle driver (`updater/sparkle`) | the bridge's action, state and replies; blocks for the main thread | begin, poll, cancel, destroy, callbacks | two threads, asynchronous cancellation, sessions that outlive their operation | `Sparkle` |
| Telegram runtime (`gotd/manager.go`, `updates.go`) | one worker per account, registered clients | apply a snapshot, supervise, activate, unregister | a worker replaced while it connects, late undoing | `Runtime` |
| catalogs and memberships (`usecase/catalogs.go`, `gotd/membership.go`) | channel rows, one membership per account | join, retry, leave, switch, remove | network between a read and the write of the row | `Membership` |
| collection of messages (`scouting/collector.go`, `message_store.go`) | rows, tombstones, cursors | page, update, edit, delete | pages and updates out of order, failed scans | `History` |
| analytics scheduler (`usecase/analytics_scheduler.go`) | setting, current loop, running cycle | start, stop, run now, restore | saved first, changed in memory later | `Collection` |
| canonical keywords (`canonical_service.go`, `canonical_store.go`, bindings) | tables, saved settings, configuration in use | classify, trigger, move a form, service words, synchronize | several calls each reread and overwrite | `Keywords` |
| imports (`usecase/imports`) | snapshot, records, embeddings, saved imports | copy, recheck, parse, embed, save | file edited meanwhile, model changed meanwhile | `Imports` |
| licence gate and checker (`license`, `revocation`) | activation, kept revocation state, gate state | check, activate, supervise, lock | clock set back, network withheld, two checkers | `License`, `LicenseLock` |
| licence generator (`cmd/license-generator`) | local registry and journal, remote manifest | revoke, reconcile, publish, retry | lost answers, two machines, compare-and-swap | `Publication`, `ManifestLog` |
| first-launch seed (`app/first_launch_seed.go`) | profile, staging, marker, secrets | inspect, stage, exchange, mark, roll back | kills between renames, a second launch | `Seed` |
| backups (`service/backup`) | archives, barrier, schema | create, verify, publish, rotate, migrate | failures half-way, concurrent rotations | `Backup` |
| proxy routes (`proxy/routes`) | profiles, assignments, health, checks | check, fail, assign, publish | results applied late, two assignments for one place | `Routes` |
| Tor and connectivity (`proxy/tor`, `main.go`) | process, status, ready signal, errgroup | start, serve, retry, stop, observe | signals and observations of an earlier run | `Connectivity` |
| application (`main.go`, `desktop_activation.go`, `usecase/automation.go`) | resources, runs of the workers, operations | build, start up, start, stop, shut down | stops without answer, starts during shutdown | `Lifecycle` |

Interaction: the two runners share the outbound boundary and the account rows;
the manager writes account status through a callback; settings and catalog
handlers change what the delivery runner has already read. The workers of
`Runtime` ask `Routes` for a route and report failures to it; `Connectivity`
supplies the system route. The gate of `License` decides whether `Lifecycle`
builds the workspace, and its supervisor may end it.

## Modules

An action is one transaction or statement of the store, one section under a
mutex, one access to a file or the keyring, or one call over the network, with
the computation around it; everyone else may act between two of them. Times are
reduced to whether they have passed, except in `OutboundRate`, `ScheduledDM`
(planned times) and `License` (a small clock).

*Delivery*: one transaction of the store is one action, and a `RunOnce` is the
sequence of actions recorded in `run.step`. The account's lock is held exactly
while `run.step = "inflight"`. Telegram accepts a message with success, with a
lost answer, not at all, with a flood wait or with a closed private chat. `sent`
records what it accepted; the random identifier of a request is computed from
the job, so a repetition by the same account to the same peer is the same
message.

*OutboundRate*: a caller first reads clock and limits (`ReadClock`) and later
enters the mutex (`Reserve`). The clock moves on, and back where `ClockSetBack`
allows it.

*ScheduledDM*: tasks, runs and deliveries, the handlers as one action per
transaction (listing and setting a status are two), the runner phase by phase.

*Updater*, *Sparkle*: an action is one section under `Service.mu`, one call of
the driver or one cancellation; calls, timer callbacks, `Start` and `Stop` are
goroutines whose progress is kept in `proc`, `timer`, `starter` and `stopper`.
`Sparkle` EXTENDS `Updater` and replaces its free driver by the polling loop, the
main thread with its queue of blocks, the bridge, and the framework (external).

*Runtime*: the manager's loop visits the accounts of a snapshot; a worker
connects, activates (split where it talks to Telegram), serves and ends; the
goroutine that unregisters after a disconnection is a step of its own.

*Membership*: one channel of either catalog; a pass of an account reads the
channel, then its membership, talks to Telegram and writes the row it changed.

*History*, *Collection*, *Keywords*, *Imports*: see the head of each module.
`History` numbers the messages of one chat; `Keywords` takes a keyword's value for
its hash; a digest in `Imports` is the content it is of.

*License* over *ManifestLog* implements *LicenseLock*: what the owner of a
licence is promised (a revoked one that was seen stays locked, a clock or a
network that lies buys at most the grace). *Publication* implements
`ManifestLog`: its manifests form one growing history.

*Seed*: a directory tree is an identity with a version; *Backup*: an archive is
its kind, the schema of its database and the versions of its session files.

*Routes*: a revision number is only compared with the one its check began with,
so a check carries whether somebody wrote the route since. *Connectivity*: the
generation of the supervisor is likewise reduced to `fresh`. *Lifecycle*: the
controllers share one scheme (`slot`, `answer`), the analysis, the backups and
the maintenance each have theirs.

`MCDeliveryLive`, `MCAccounts`, `MCBackground`, `MCDisk`, `MCRecords` and
`MCDesktop` put several
modules that share no variable side by side: `part`, chosen by `Init` and never
changed, says which one moves, so a behaviour is a behaviour of that module (and
the state space the sum, not the product, of theirs). Their fairness is the
modules' own, guarded by `part`. The other MC modules instantiate one module.

## Runs

| run | modules | bounds | shows |
|---|---|---|---|
| `delivery_single` | Delivery | one job of every shape, two accounts, 3 attempts, 3 interruptions | `DeliveryInv` (types, bounded attempts, the claim kept), `DeliverySafety` (one account per job, history matches queue, no rest without its switch), `DeliverySteps` (the queue only advances, scouts never send) |
| `delivery_live` | Delivery, License (with LicenseLock, ManifestLog) | two jobs, one account, one interruption; two licences, one receipt, clock 0..1 | `ModeRespected`, `EveryJobEnds`; `LockHolds`, `NeverOlder` |
| `accounts` | ScheduledDM, Membership | drafts with one or two recipients and runs, two edits; one account with faults | `ScheduledDMInv`, `OpenDeliveryEnds`; `MembershipInv`, `RemovalKept`, `RemovalCompletes` |
| `updater_service` | Updater | two callers, two timers, one stopper | `UpdaterInv`, `ChainInv`, `UpdateNeverLost` |
| `background` | Sparkle (with Updater), Runtime, Collection | three operations on the bridge, Stop on the main thread; one account on two routes, two revisions, two connections; three loops, two users | `BridgeInv`, `StopHeldOnlyByBegin`; `RuntimeInv`, `Settles`; `CollectionInv`, `KeepsCollecting` |
| `disk` | Seed, Backup, OutboundRate | two launches, two secrets, one kill, one fault; three archives, two session files; two callers, clock 0..6 set back | `SeedInv`, `UndoRestoresSecrets`; `BackupInv`, `RotationKeepsNewest`; `RateInv` |
| `records` | Publication (with ManifestLog), Imports, History | two generators on one or two machines, two handles; two imports of four contents; three messages, two texts | `PubInv`, `OneHistory`, `OutcomesAreTrue`; `ImportsInv`; `HistoryInv`, `EditsAdvance` |
| `desktop` | Keywords, Routes, Connectivity, Lifecycle | two keywords of one form; two accounts for one place, three handlers; no or two bridges, one fault; two runs per worker | `KeywordsInv`, `KeywordsSettle`; `RoutesInv`, `RouteRecovers`; `ConnInv`, `ConnSettles`; `LifecycleInv`, `ShutdownEnds` |
| `delivery_flood` | Delivery | as `delivery_single` | violation: `FloodWaitHasDeadline` |
| `publication_retry` | Publication | two generators | violation: `PendingCanRetry` |
| `membership_withdrawn` | Membership | one account, no faults | violation: `NothingToCancel` |
| `updater_quit` | Sparkle (with Updater) | two operations, Stop on the main thread | violation: `StopReturns` |

The bounds: races in this code are between two or three parties (two accounts
for a job, a user and a runner, two handlers for one row), so two of each and
one more interruption than a single mistake needs are enough to make every
disjunct fire; counters (attempts, runs, revisions, faults, launches) are capped
where one more repeats what has happened. Each property is broken by a mutant of
a mapped definition (listed under `mutants`).

The session files of `disk` are symmetric.

Deadlock is not checked where the system may rest: bounds on interruptions, a
chain of timers that was stopped, a program that was shut down.

## Fairness

Weak fairness stands for goroutines that can go on, timers that fire and calls
that return. Beyond that:

* `Delivery`: the runner's ticker keeps calling `RunOnce`; clocks move; a
  settings call ends, perhaps with an error. `NextDue` orders by `next_attempt_at`, which only grows for
  jobs that are retried, so no due job is passed over for ever (strong, per job).
  Nothing is assumed of Telegram: every send may fail.
* `ScheduledDM`: the runner goes on; of the accounts looked up again and again
  one is found in the end, and of the usernames and messages tried again and
  again one meets no temporary error (strong, but none is promised to any one
  delivery). The code retries temporary errors for ever by design, so without it
  nothing could be promised. A runner that ended waits for the next Start.
* `Updater`, `Sparkle`: goroutines run, and the main thread as long as it is in
  its loop, which it leaves for good when `OnShutdown` calls Stop
  (`StopOnMain = TRUE` in both runs). The framework owes
  nothing: it may stay silent at every stage, and the polling loop still answers
  a cancelled operation.
* `Runtime`, `Collection`, `Keywords`, `Routes`: loops, workers, checks and calls
  that have begun go on. Probes and connections may fail up to the bound.
* `License`: the supervisor gets the mutex it waits for, the checker's or the
  gate's, however often the user checks (`SupervisorLocks`, strong): Go's mutex
  lets no waiter starve.
* `Membership`: a connected account checks again and again, and what it asks of
  Telegram and of the store does not fail for ever (strong, since the kill of the
  program cuts passes off).
* `Connectivity`: a killed process exits. Neither Tor nor Telegram owes anything.
* `Lifecycle`: shutdown's deadlines come, and the maintenance obeys its context.
  No other worker is trusted to end.

## Proofs

| module | proves about |
|---|---|
| `Delivery_proof` | `Delivery` |
| `Disk_proof` | `OutboundRate`, `Backup`, `Seed` |
| `ScheduledDM_proof` | `ScheduledDM` |
| `Updater_proof` | `Updater`, `Sparkle` |
| `Background_proof` | `Runtime`, `Collection` |
| `Rights_proof` | `License` (over `ManifestLog`, against `LicenseLock`), `Membership` |
| `Records_proof` | `Publication` (against `ManifestLog`), `Imports`, `History` |
| `Desktop_proof` | `Connectivity`, `Routes`, `Lifecycle`, `Keywords` |

A theorem holds for all values of the constants that satisfy the assumption its
module names (`DeliveryAssumption`, `RateAssumption`, `ScheduledDMAssumption`,
`UpdaterAssumption`, `SparkleAssumption`, `RuntimeAssumption`,
`CollectionAssumption`, `LicenseAssumption`, `MembershipAssumption`,
`PublicationAssumption`, `ImportsAssumption`, `HistoryAssumption`,
`ConnectivityAssumption`, `RoutesAssumption`, `LifecycleAssumption`,
`KeywordsAssumption`, `BackupAssumption`, `SeedAssumption`): counters
are natural numbers, maps have their types, a NULL is not an identifier, a timer
is not a caller, a file's content is a sequence of lines, a private job has
somebody to answer. Only `RateMinute` and
`RateInvariant` have a hypothesis beyond that (see below). No theorem bounds the
number of accounts, jobs, callers, generators or messages, so each holds for the
whole family of which a run checks one member.

Each inductive invariant was checked with TLC, on the run's constants or larger
ones, before it was proved. Where it is stronger than what the run lists, the
proof module defines it.

*Delivery.* `DeliveryInv` is `TypeOK` with two strengthenings. `AttemptsLeft`: a
pending job has an attempt left, without which counting a failure could leave
the type. `ClaimKept`: what was sent belongs to the job's claim, and from
`CanDispatch` to the answer the runner's account is the claim; a role cannot
change while the lock is held. The proof first shows what every action does
(`StepOK`: rows advance, messages come from the claim, the runner settles), one
lemma per group of actions, then that such a step keeps the invariant.
`OneAccountPerJob` and the action properties `QueueOnlyAdvances` and
`NoScoutSends` follow. `RestOffReleasesEveryone` is proved separately: with the
switch off, no step makes a job wait. `ReplyInv` adds what a row keeps of the
job as it was enqueued, what the history says of the row, and what the RunOnce
in progress knows: the kind it decided fits the row, and the success it is about
to record is a message Telegram has. Its proof again first shows what every
action does (`Moves`): a row keeps its mode unless a closed private message turns
it public, and the history is closed in the step that ends the job.
`ModeRespected` and `DeliverySafety` follow. They need the clause of
`DeliveryAssumption` on shapes: `keywordDeliveryJobs` makes no private job
without a sender to answer (`live_sink.go`).

*OutboundRate.* `OrderInv` (types, stamps in order, spacing) is inductive for
any settings. `MinuteBound` needs `HistoryCovers`: from the last grant on,
history is full or knows every stamp of the minute. That is inductive only under
`SameLimit`, which is a hypothesis of `RateMinute` and `RateInvariant`; with two limits the
bound fails in the model (see the end of this file), so it cannot be dropped.

*ScheduledDM.* `ScheduledDMInv` joins: runs are made in order, each after the
one before completed; a run is complete exactly when none of its deliveries is
open; every accepted message is the one its row describes; the runner holds the
lease of the row it works on; the next planned time is
`start + completed * interval`. `OneMessagePerRun` follows from unique
recipients within a run and from a row whose account and random identifier never
change.

*Updater.* `UpdaterInv` says: `busy` is held by exactly one operation, the
latest; at rest (`AtRest`) the shown retry state is the one `begin` follows and
an offered update has a version, a ready one 100 per cent; while an operation
runs (`InFlight`) nobody but itself changed the snapshot since `begin`, and what
it remembers was at rest; once the driver is stopped nothing is counted. A
progress callback that passes the service's test carries the current number, so
it is the running download's own: that makes late callbacks harmless. `Finish` is the heart of it
(`FinishRests`): every way to end an operation leaves the service at rest and
the update at least where it stood, which also gives the action property
`UpdateNeverLost`. A timer's goroutine could in principle be restarted by its
own timer; `FireOnce` excludes that first.

`ChainInd` adds to `ChainInv` who holds a timer of the scheduler: its addTimer,
`kept`, the watch of the lifecycle, or the one call of `Stop` that took it. A timer
that waits has not fired, so the chain passes from a goroutine to the timer it
registers and is never doubled.

*Sparkle.* `NativeImplements` shows that every step of the native driver, of the
main thread and of the framework is a step of the service over its free driver or
changes nothing in it; all theorems of `Updater` therefore hold on the real
driver. `BridgeInd` adds the shape of the main queue: at most a cancellation of
the operation that began last, and behind it the begin block of the call that
holds `Driver.operation`. That is why a cancellation nobody waits for cannot hit
the next operation. It is proved for Stop on any thread. With `StopOnMain = TRUE`,
as in the runs, no block runs any more once Stop has begun, so that
`BridgeOutlivesBlocks` adds something for the other value only.

*Runtime.* `RuntimeInd` adds what a worker may rely on at each step of its
activation (`Serves`) and `Watched`: whoever waits for the disconnection that ends
the newest registration of a scout waits for the connection of the worker that
made it. Without it a goroutine left behind by an earlier connection could
unregister a scout that serves. *Collection*: `CollectionInv` is inductive.

*License.* The types and `NeverOlder` first. Then every step of the gate, the
supervisor and their checker maps to a step of `LicenseLock` or a stutter
(`LockIsImplemented`): what runs is a licence whose receipt is not among those
kept. The run's `LockHolds` adds that what was open is closed in the end.

*Membership.* What a pass of an account may rely on after each call to Telegram
(the channel and row it read may have changed since), and that a step of one
account leaves the passes of the others undisturbed. `MembershipInv` is proved
with a member in the channel or its removal under way; the removal stays
requested (`RemovalIsKept`) because every writer of a stale row is guarded by it.

*Publication.* `PubInd`: the file grows by one licence at a time; what any disk,
memory or remembered result says of a publication, the file has shown; a cached
reader saw some earlier content. Hence no record is published that is not
listed; what a generator shows as published is in the newest manifest, and a
disk records a failure only against a foreign key (`OutcomesStayTrue`); the file
implements `ManifestLog` (`HistoryIsOne`). "Failed" is also shown, and not
recorded, for what the publisher refuses before it sends anything (`Tell`).

*Imports.* `ImportInd`: a copied snapshot is made of lines of the file that was
opened; after the rechecks its digest is a content the path really had; records,
ranking and model follow it. *History.* `HistInd`: every message that a scan is
due to collect is stored, has a tombstone or lies in the part still to come, so
the cursor that is saved last passes none by.

*Connectivity, Routes, Lifecycle.* A run of Tor answers its own ready signal, and
a process belongs to the run that started it. A route carries the accounts that
are assigned to it and a check writes only if nobody wrote since. Each stage of
shutdown finds what it needs still open: what was stopped stays stopped unless a
launch that began before is still under way.

*Keywords.* `KeywordsInd` adds what a call still remembers while it writes: the
settings it is about to save hold nothing but typed keywords and the triggers
recorded with them, and what the analysis found is canonical. Two calls may
overwrite each other's settings in any order, and still no trigger that is gone
stays behind as a keyword of its own.

*Backup.* `BackupInd` adds who a hidden archive belongs to (`WorkOK`), what every
creator may rely on at its step (`CreatorOK`) and what stands between the program
and an upgrade (`StartupOK`). The core of `RotationKeeps` is `SpareKept`: when one
rotation removes an archive, every other that can be spared keeps enough newer
ones, because the removed one had enough newer ones itself and all of them are
newer still. So the decisions of overlapping rotations, made from listings that
are stale by the time they are used, stay good. The model rules out one thing: an
archive that goes bad between the verification and the removal of a rotation.

*Seed.* `SeedInd` adds what the launch that holds the lock may rely on at each
step (`LaunchOK`): before the exchange its seed is hidden and the profile is no
seed, after it the profile is its own seed with all secrets written, and the tree
that was displaced lies in its staging directory. Two lemmas carry the proof: a
step of the installer leaves launches without the lock what they rely on
(`InstallerStep`), and what a program without the lock may do to the disk takes
nothing from the installer (`GentleStep`).

Left to TLC alone:

* liveness, which needs fairness and `ENABLED`: `EveryJobEnds`,
  `OpenDeliveryEnds`, `StopHeldOnlyByBegin`, `Settles`, `KeepsCollecting`,
  `RemovalCompletes`, `KeywordsSettle`, `RouteRecovers`, `ConnSettles`,
  `ShutdownEnds`, and the eventual closing in `LockHolds`;
* the violations.

## Known disagreements

Found by runs of their own (`violation`):

1. `recordSuccessfulDelivery` clears `flood_wait_until` and leaves the status, so
   a completion that races a flood wait recorded elsewhere leaves the account in
   flood wait with no deadline (`delivery_flood`).
2. A revocation left pending cannot be retried once another one reached a higher
   sequence: its minimum is the maximum over all records (`publication_retry`).
3. After a retried join, Leave drops a membership whose request is still
   outstanding at Telegram; the account can be admitted later
   (`membership_withdrawn`).
4. `tc_sparkle_begin` waits for the main thread and looks at no context
   meanwhile. `OnShutdown` calls `Service.Stop` on that thread, after its loop,
   and Stop waits for the operation: closing the window while an operation begins
   hangs the program (`updater_quit`). `StopHeldOnlyByBegin` (`background`) shows
   that nothing else holds Stop: an operation that the bridge has begun, or that
   has not come so far, ends without the main thread.

Visible in the models, without a run:

* A refusal prunes the rate history with its own clock. A caller that still
  holds an earlier clock and a looser limit can then exceed the limit per minute
  (`OutboundRate`; `RateInv` is proved for settings of one limit only).
* Starting a scheduled task checks the status and sets it in two steps; a cancel
  or the last completion in between is undone (`ScheduledDM`).
* An installation that fails on the native driver cannot be retried, because the
  bridge gave the framework's reply away when it began (`Sparkle`).
* A settings call whose cleanup fails leaves the rest switch off with rests in
  place; the user sees the error, and the next save or start makes up for it
  (`Delivery`, `ClearFails`; `RestOffReleasesEveryone` asks nothing meanwhile).
* A run started after shutdown has stopped its worker meets a closed database
  (`Lifecycle`, `relaunched`); `StartScheduledDMTask`'s own Stop has no deadline
  and shares its done value with the user's.
* Two assignments of accounts to routes may publish their lists in the other
  order (`Routes`).
* A killed first launch that leaves `app.db-wal` behind makes the next public
  launch answer "blocked"; a rollback whose rename fails keeps the seed's data
  with the old secrets (`Seed`, `stuck`).

## Not modelled

Signatures, encryption, archive and file formats, text matching and ranking, the
user interface and packaging. The lease variants of the queue, because nothing in
production calls them; `Restore` of a backup, which writes a fresh directory; the
retention of messages by age; the handoff between two processes at a relaunch;
the pool of database connections (see the hazard at `canonical_store.go:149`);
the history of backups, which no configuration of the program has. `Keywords`
lists one class of keywords in one step, with its forms.
`PROJECT.json` lists every component with what is left out of it.
