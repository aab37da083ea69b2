# En Croissant: a verification project for its native core

En Croissant is a chess application: a Rust backend (`src-tauri/src`) that owns
files, databases, engine processes, downloads and games, and a TypeScript
renderer (`src`) that talks to it through Tauri commands and events. This
directory holds TLA+ modules of the parts in which many actors share state,
the TLC runs that check them on small instances, and TLAPS proofs of their
safety properties for every value of the constants. Every definition is
translated from the source; `PROJECT.json` maps it to its lines.

## 1. The system

### 1.1 Actors

| actor | where | what it does |
| --- | --- | --- |
| renderer documents | `src/` | one per webview; call commands, hear events, may reload or be destroyed at any moment |
| command futures | every `#[tauri::command]` | run on tokio; may be dropped at any await |
| workflows | `fs.rs`, `file_workspace.rs`, `db/` | hold a registry lease, report progress, pass a commit gate |
| blocking workers | `infra/blocking.rs` | at most four at a time |
| game loop and engine task | `game.rs` | one loop per session, at most one task per loop |
| engine actors | `engine/process.rs` | one per child process |
| window and exit handlers | `main.rs` | sweep an owner; seal, drain and shut down |

### 1.2 Inventory

**Operation registry** (`infra/operations.rs`). State behind one mutex: `reads`
(reservations that are reserved, cancelled or active), `accepted` (downloads,
conversions and other accepted work with owner, admission key, `committing` and
a cancellation token), `completions`, `sealed`. Operations: prepare, claim,
cancel, release, accept, begin_commit, sweeps by tab, owner and progress id,
seal, wait_for_drain, drop of a lease. Hard: methods of several webviews and
workflows interleave freely, expiry is lazy, the seal races late claims, the
drain sleeps on a condition variable. Correct when active leases are never
evicted or reused, an answered cancellation binds, a publication is not torn,
one download publishes per key, and a drained registry is empty.

**Engine install mailbox** (`infra/operations.rs`, `operations/completions.rs`).
Records of installs that outlive the document that asked for them; admission,
finish, retirement and acknowledgement jobs that may be asked for repeatedly.
Correct when records keep their places, upgrades of one engine exclude each
other, and what leaves the mailbox is finished. The **account completion
mailbox** (`operations/accounts.rs`) follows the same pattern.

**Keyed locks** (`infra/keyed_locks.rs`). A concurrent map from keys to
`Arc<Mutex>`; an entry is removed by the lease that finds itself alone. Correct
when two leases of one key never hold different mutexes, and entries do not
outlive their leases.

**Progress store** (`progress.rs`). Items by id with a generation, TTL and a
capacity of 1000; leases of generations, shared by the threads of a job. Events are
emitted after the lock is released. Correct when a stale lease revives nothing,
the first terminal state sticks, and a clear spares a live download.

**Progress bar hook** (`hooks/useProgress.ts`). The item it draws and the
minimum generation it accepts. Subscribes, then asks. Correct when it never runs
backwards and ends up showing what the store has.

**Game sessions** (`game.rs`). The table of live sessions, session metadata and
snapshots, lifecycle locks (keyed locks), and per session a controller, a loop,
an engine task, engine processes and a cleanup slot. Hard: stale engine answers,
competing ends of a game, replacement and abort of a session whose loop is
completing, dropped command futures, join budgets, shutdown.

**Engine supervisor and actor** (`engine/process.rs`). The supervisor keeps
admissions, published actors and pending actors by key, an owner of each child
process, tombstones of retired engines, and a seal. Operations: admit, prepare and
consume a search, spawn, publish, reuse a warm engine, stop, release, terminate
exactly, kill, close a tab, retire, shut down. Hard: every operation awaits
between its lock scopes and may be dropped there; terminations are shared, fail
and are retried; a stop may name a search that is over. Correct when no child is
forgotten, a stop harms no other search, a drain leaves nothing of its scope and
every command returns. The actor itself pairs stop and bestmove on the wire.

**Blocking gateway** (`infra/blocking.rs`). A semaphore of four permits,
cancellation while waiting, panics carried back.

**Search cache and position search** (`main.rs:337-472`, `db/search.rs`, the
mutations of `db/mod.rs`). Results and mapped indexes, an invalidation counter,
collision locks and generation locks (both keyed locks), index sidecars on disk.
Hard: an index is probed, opened and cached in separate steps while mutations
commit and invalidate. Correct when no stale index is cached, waiting searches do
not generate what is already there, and an answer is of one revision.

**Application shutdown and quit gate** (`main.rs`, `state/quitGate.ts`). Seals
and awaits every owner under one budget before the process exits.

**Database repository, linked collections, migrations, SQLite binding**
(`db/`). SQL transactions, batches over several collections.

**File replacement, downloads, workspace, path authority**
(`infra/fs.rs`, `fs.rs`, `file_workspace.rs`, `infra/path_authority/`). Staging,
publication and rollback of files; handle-based path resolution.

**Download jobs of the renderer** (`hooks/downloadJobs.ts`). One failure arrives
as an event, in the startup snapshot and as the rejection of the job, in any order
and across reloads. Correct when it is announced exactly once.

**Completion consumers of the renderer** (`state/*Completions.ts`). Apply each
completion once.

**Parsers, chess, practice, puzzles, accounts, network, sound, settings, user
interface.** Data computation and I/O.

### 1.3 How the parts interact

A renderer reserves a ticket in the registry and passes it to the command that
does the work; the command claims it, holds the lease, starts a generation in
the progress store under the download's progress id, and passes `begin_commit`
before it publishes. Cancelling goes through the registry; clearing a bar asks the
registry, under its lock, whether a live download owns that id. Installs leave a
record that the renderer retires and acknowledges. Game commands hold the keyed
lock of their game id; the engine task takes it only to apply its move; the loop
never takes it. Shutdown seals the registry and the game manager, shuts down the
sessions and waits for the drain. Searches take the generation lock of a database
before they write its index; mutations of the database invalidate the search
cache. Tab close, engine removal and updates go to the engine supervisor, which
also owns the engines of games.

## 2. Modules

| module | models | extends |
| --- | --- | --- |
| `OperationRegistry` | registry and install mailbox | |
| `KeyLock` | what a lock per key promises (abstract) | |
| `KeyedLocks` | keyed locks; implements `KeyLock` | |
| `SearchCache` | search cache, index loader, searches and mutations, over the keyed generation lock | `KeyedLocks` |
| `ProgressStore` | progress store, with the registry's claim and release of downloads | |
| `ProgressBar` | the hook and the event channel, composed with the store | `ProgressStore` |
| `DownloadFailures` | download jobs of the renderer and the native download, composed with the store | `ProgressStore` |
| `GameSession` | the sessions of one game id | |
| `EngineSupervisor` | the supervisor of engine processes | |
| `OperationRegistry_proofs`, `KeyedLocks_proofs`, `ProgressStore_proofs`, `GameSession_proofs`, `EngineSupervisor_proofs`, `DownloadFailures_proofs` | theorems | the module they are named after |
| `SearchCache_proofs` | theorems | `SearchCache`, `KeyedLocks_proofs` |
| `ProgressBar_proofs` | theorems | `ProgressBar`, `ProgressStore_proofs` |
| `MC*` | instances and symmetry for TLC | the module they check |

Definitions named for a mistake (`...Unguarded`, `...IgnoringCancel`, ...) stand
directly before the definition they are a wrong version of. No specification
uses them; each one, put in the place of the right definition, makes TLC find the
property that `PROJECT.json` pairs it with violated.

### 2.1 OperationRegistry

`reads`, `accepted`, `completions` and `sealed` are the fields of
`RegistryState`. `readLeases` and `leases` count the `OperationLease` values
alive; `tail` is what the workflow under an install's own lease is doing; `drain`
is where the shutdown thread is in `wait_for_drain`. `answered` and `committed`
are history. One mutex guards the whole state, so a method is one action; a
method that refuses only purges (`Refused`). A ticket is minted once. Time is
`Expire`, which may come at any moment. `DropAwaiter` is the future of a command
going away while its work runs on. An analysis reservation's kind is its tab.

A file's admission key is its progress id and excludes the same owner; an account
download's key excludes every owner and it reports under its own ticket.

### 2.2 KeyedLocks

`locks` is the map; `entry` is the map's entry guard a dropping lease holds while
it counts references; `lock` is the address a task's `Arc` refers to and `holder`
who has that mutex. An address nobody refers to may be reused by the next
`Arc::new`. The three ways to lock (blocking, try, cancellable) differ in how
they wait and give up; a task that gives up goes from leased to dropped.

`KeyLock` is the abstract specification: a caller asks for a key, is granted it
while nobody owns it, withdraws, and frees it. `Waiting` and `Owners` map the
leases to it: a task waits while it is leased and owns while it is locked; the
entry guard, the count and the removal are stuttering steps. `IsKeyLock` states the
refinement.

### 2.3 ProgressStore and ProgressBar

`entries`, `expired`, `recency` and `clock` are the store. A thread has a `lease`,
is or is not the `owner` of the `JobProgress` (whose drop reports), and has at
most one event `out` between the store's lock and the emission. `clear` is the
clear command: decided under the registry's lock, applied, emitted, answered.
`live` are the progress ids that have a live download. Progress is an integer up
to `Full` (100 in the code), reported from `Raw`, one below and one above.

`ProgressBar` adds the channel to one webview, bounded by `MaxChannel`, and the
hook: its phase, `item`, `minimum` and the query it has asked. Emission is taken
to be reliable. Two things are left out: a listener whose registration failed and
`fence(null)`. `excused` marks the one case in which a bar may stay stale: a
clear before the hook has settled, followed by a late event of the cleared
generation, which no fence rejects.

### 2.4 GameSession

`ctl` is `GameController`: moves, status, position generation, revision, request
nonce, active request, whether the engine is thinking, the token of the latest
request and whether the GameOver was claimed. The controller's lock is held for
one action at a time, events included. `task`, `loop`, `retire` and `holder` say
where the engine task, `run_published_loop`, each `finish_retired` and the
command with the lifecycle lock are; each await between lock scopes is a step.
`games`, `latest`, `snapshots`, `slots`, `next` and `sealed` are `GameManager`.

Abstractions: a position is its sequence of moves, one of `MaxPly` moves is
terminal; a flag falls or does not, at every place the code looks; calls to the
engine succeed, fail or are cancelled; the clock tick is always due (a tick and a
human command need `revision < MaxRevision`, a bound). `Incidents` selects what
may go wrong: panicking tasks, dropped futures, loops that outlast the join
budget, engines that survive termination, shutdown. A panicking loop has the
effect of a timed-out one (the loop is gone, the join failed) and is not separate.

A `start_game` call passes the seal check and waits for the lifecycle lock
(`queued`) before it takes a slot. When its construction fails it awaits the end of
its engines (`Abandon`, `Abandoned`) and only then gives up its slot. When its future
is dropped before it has published (`StartDropped`), the slot and the lock are free
at once, and the guards of the engines only spawn their termination: the engines are
`"Dropped"`, running and in nobody's table, until `GuardTerminates`. `Unpublish` frees
the slot with the loop's last reference, unless a retirement still has one.
The 128 snapshots are shared with all other games: `EvictSnapshot` takes the
oldest of this game at any moment.

Not modelled: clock values, `get_game_state` (reads only), and the instant
between `session_is_current` and `apply_move` in which `shutdown_all`, which does
not take the lifecycle lock, may remove the session.

### 2.5 SearchCache

A database is its `revision`; a `sidecar` and a `legacy` sidecar are the revision
they were generated from, 0 when there is none; `writer` is the repository's write
lock. `counter`, `indexes`, `results` and `collisions` are `SearchCache`; the two
caches are maps with their keys in order of use. A thread is `at` one of the steps between
which the code releases its locks; `round` is the loader's progress through its
attempts (fast, under the lock, promoted, generated), `snap` the counter it read
before it probed, `loaded` what it has mapped. The generation lock is the lease of
`KeyedLocks`, action by action; the collision locks are used as the plain lock
that `KeyLock` promises. An invalidation is three steps (counter, results,
indexes), and evicts its folder or everything.

Abstractions: object, length, modification time and data revision of an identity
change together; an index is its source; an error or cancellation may come
wherever the code checks for one (`Failing`). A promotion may publish the sidecar and
fail all the same (`PromoteFails`). The byte budget of the results is a choice: a
result may not be kept, or any number of the oldest leave for it. Databases that are linked
collections, and the contents of results, are left out.

### 2.6 EngineSupervisor

A launch is its generation; `pc` says where its future is. `reg` holds what the
code keeps under `registration` and `admission_coordination`: `admissions`,
`prepared`, `cancelled` and `leases` for the reservations, `actors`, `stopped`,
`search` and `warm` for published engines, `pending`, `spawning`, `owner`,
`attempt` and `results` for pending ones and their terminations. Sections under
these locks contain no await, so each is one action built from functions of the
registry (`CancelExact`, `Handoff`, `Observe`, `Enter`, ...), which keep the
code's names. `lifecycle` is held across awaits and is a lock per key. A `task` is
a command (stop, release, exact termination, kill, tab, retirement, shutdown) or
the cleanup that a dropped guard spawned. `returned`, and `retired.evicted`, the
tombstones that left a full `RetiredSet`, are history.

`Incidents` selects the faults: dropped futures, children that exit, stops, starts
and spawns that fail, revoked operations; `MaxFailures` bounds failed
terminations. Generations are not reused; the tombstone sets keep `Capacity`
entries. Not modelled: the UCI protocol inside an actor, its deadlines (an engine
call succeeds, fails or finds the engine terminal) and the comparison of options
that decides on reuse (left open).

### 2.7 DownloadFailures

Native side: `work` is the workflow of `download_file`, claimed, running or
reported. Renderer side: `document` and `page` say which page is loaded and how
far `initializeDownloadFailures` is; `wire` holds events on their way, `job` the
`DownloadJobEntry` of an id with the failures it holds back, `owned` and
`announced` the receipts, `requests` the clear calls in flight. An identity
`[id, generation]` is its generation, which names one download. `told` and `heard`
are history of the current document. A reload forgets the page's state, keeps the
native work, and may or may not lose calls that were sent. A page that could not
subscribe starts all the same (`"Deaf"`, bootstrap logs the error), and so does one
whose snapshot was refused (`"Blind"`, the `catch` of `initializeDownloadFailures`):
it has its listener and nothing else. A cancel call that fails on its way is not
modelled.

## 3. Runs

All bounds are in the `.cfg` files. Deadlock is checked in the runs of the
registry, the store and the bar. In `GameSession`, `SearchCache`,
`EngineSupervisor` and `DownloadFailures` the bounded instances end, so it is not
checked there; `LifecycleIsReleased` and `CommandsEnd` say that nobody is left
waiting.

| run | bounds | shows |
| --- | --- | --- |
| `registry_operations` | 2 owners, 2 tickets, 1 install, one tab, one file key, one account key, 2 places, fairness | `CancelHonoured`, `CommitProtected`, `OneWriter`, `LeaseBacked`, `DrainedIsEmpty`, `DrainCompletes` |
| `registry_mailbox` | 2 installs of 1 engine, 3 tickets, 2 places | `OneUpgradePerEngine`, `MailboxOwned`, `PlacesKept`, `AcknowledgedIsFinished`, `SealedOnlyShrinks` |
| `search_cache` | 2 searches, 1 mutator, 1 database, 2 queries, 2 mutex addresses, 2 revisions, 1 index, 2 results | `NoStaleIndex`, `NoRedundantGeneration`, `AnswerIsCurrent`, `EntriesLeased`, `IsKeyLock` |
| `progress_store` | 2 ids, 2 threads, capacity 1, 3 generations | `NoResurrection`, `FirstTerminalWins`, `LiveBarSpared` |
| `progress_bar` | 1 id, 2 threads, 2 generations | `FenceHolds`, `Converged`, `BarOnlyAdvances` |
| `download_failures` | 1 id, 2 threads, 3 generations, 2 documents | `ToldOnce`, `HeardIsTold`, `StoredIsTold` |
| `game_play` | 1 session, 3 plies, 2 moves, book to ply 2, 1 engine slot, every incident | `EngineMoveIsFresh`, `RevisionsIncrease`, `GameOverIsFinal`, `EnginesHoldSlots`, `ShutdownLeavesNone`, `RetiredIsNotPlayed` |
| `game_replace` | 2 sessions, 2 slots, timeouts, surviving engines, dropped `start_game`, fairness | `SnapshotIsFinal`, `LifecycleIsReleased` |
| `game_liveness` | 1 session, 3 plies, dropped futures and shutdown, fairness | `EnginesAreReaped`, `EngineIsAsked` |
| `supervisor_search` | 2 generations of 1 key, searches and registered launches, one exact stop or release of the first; dropped futures, exits, failing stops and spawns, revocation | `NoOrphan`, `LeasesRegistered`, `StopIsExact` |
| `supervisor_teardown` | 2 registered launches of 1 key, one command of every kind, one failing termination, dropped futures, fairness | `DrainLeavesNone`, `CommandsEnd` |
| `supervisor_tab` | 1 launch, 1 tab close | `TabDrained` is violated, see below |

Why the bounds are enough for what the properties are about: rivalry in the
registry is between two operations, and two places are filled by two of them, so
the limit is reached; a removed and recreated lock entry needs a task that drops
and one that arrives, and a second address for the new mutex (the theorem of
section 5 covers any number); a stale index needs one commit between probe and
insertion, a redundant generation two searches; a stale lease needs the generation
before the current one, and capacity 1 evicts on every start; a failure told twice
needs a rejection beside an event and a document that is reloaded, and the third
generation is a retry after both; three plies with two moves contain a take-back to
the same side to move with another position; a replacement concerns two sessions;
a stale stop, a replaced admission and a failed predecessor concern two
generations of one key. The safety theorems of section 5 do away with these bounds
for every safety property but the violated `TabDrained`.

What the bounds leave out. `search_cache` has two leases, so a third task that
arrives while a lock entry is removed is not in it; that case rests on the theorems
`EntriesAreLeased` and `LeasesAreKeyLocks`, which hold for any number of tasks.
`supervisor_teardown` has registered launches only: a search, which holds the
lifecycle lock across its spawn, the warm stop and the release by a search's guard
are outside what `CommandsEnd` says (the safety properties of `supervisor_search`
and the theorems cover them). Dropped `abort_game` futures are in the runs with one
session only, and in `game_replace` the second session is the one that replaces.

**A finding.** `terminate_tab` is documented to cross the publication barrier and
"then drain until this tab has no actors" (`process.rs:2771-2773`). A launch that
is admitted after the cancellation and is pending when the drain scans gets its
termination started, but its admission is not cancelled. It is published while the
drain waits, and the next scan skips the generation as visited. `terminate_tab`
returns while that engine, terminating or dead, is still registered under its tab.
The process itself does not survive (`NoOrphan`), and shutdown and retirement are
not affected (`DrainLeavesNone`), because there the policy refuses the publication.

What some of the properties do not say, because the code does not promise it:

* `CancelHonoured` ends at the seal. A sealed registry cancels committing
  downloads too, and `cancel_download_for_progress` then answers true for one that
  is past its gate.
* `SnapshotIsFinal` ends when `shutdown_all` has sealed the manager: it stops a
  loop without removing its session first, so an unfinished game may be stored as
  completed while the process exits.
* `EngineIsAsked` is checked without panics. A task that panics after its request
  was cancelled takes the `continue` of `game.rs:3144`, past `maybe_start_engine`;
  if the notification of the next position was consumed before, the engine is not
  asked until another one comes.
* A launch that replaces another waits for the published engine of its key or, if
  there is none, for the newest earlier one that is terminating
  (`process.rs:2695-2719`), not for all of them; no property says that two
  processes of one key never overlap.
* `StoredIsTold` is about a document that got its snapshot. One whose snapshot was
  refused tells of what it hears, and of a failure of an earlier document only if
  its event still comes; the code warns and goes on
  (`downloadJobs.test.ts:157` expects that).
* `EnginesHoldSlots` excepts the engines of a `start_game` that was dropped before it
  published. Their slot is free while the spawned termination still runs, so for
  that time more engines may be alive than slots account for; `EnginesAreReaped`
  says that the time ends.
* `StoredIsTold` is about failures the store still holds. A clear in flight across
  a reload may remove a failure before the next document takes its snapshot.
* `NoStaleIndex` is about indexes. Results carry no counter: they are keyed by the
  revision they were computed from, and `AnswerIsCurrent` is what protects a reader.
* `DrainLeavesNone` ends for a retirement when its tombstone is evicted: a
  `RetiredSet` drops its oldest entry when it is full (`process.rs:1596-1607`, 4096
  entries), and from then on a launch of that engine is admitted again. Retiring it
  once more does not bring the old promise back before the new drain has returned,
  which is why the evictions are remembered and not read off the set.

## 4. Fairness

`DrainCompletes`: leases of workflows that were told to stop are dropped, an
install that runs finishes, and the woken shutdown thread looks again (weak
fairness; all are threads or futures that the runtime schedules). The timer of
`wait_for_drain` is not relied on, so the property is that no wakeup is lost.

`GameSession`: weak fairness of a loop's, a task's, a retirement's and a begun
command's own steps, because tokio polls what is ready; an engine that was asked
answers, fails or is cancelled (the supervisor's timeouts), and the termination that
a dropped guard has spawned runs. Strong fairness only for the step in which a task
applies its move: it waits for a tokio mutex, which is a first-in-first-out queue,
while commands keep taking it. No join budget, no dropped future and no action of
the user is assumed to happen.

`EngineSupervisor`: weak fairness of `Advance`, that is, as long as some launch,
task or termination can go on, one does. The registry locks are held across no
await, and spawns, stops and terminations have deadlines in the code. No caller is
assumed to launch, to consume its reservation or to end its engine. Every step
uses something up, so nothing stronger is needed.

## 5. Proofs

| module | theorem | statement |
| --- | --- | --- |
| `OperationRegistry_proofs` | `TypeCorrect`, `LeasesAreBacked`, `CancellationIsHonoured`, `CommitIsProtected`, `OneWriterPerKey`, `SealCancelsAll`, `DrainIsComplete` | the invariants `TypeOK`, `LeaseBacked`, `CancelHonoured`, `CommitProtected`, `OneWriter`, `SealedIsCancelled`, `DrainedIsEmpty` |
| | `SealStopsAdmission` | the action property `SealedOnlyShrinks` |
| | `UpgradesExclude`, `RecordsAreOwned`, `PlacesAreKept` | the invariants of the mailbox `OneUpgradePerEngine`, `MailboxOwned`, `PlacesKept` |
| | `OnlyFinishedRecordsLeave` | the action property `AcknowledgedIsFinished` |
| `KeyedLocks_proofs` | `KeyExclusion`, `EntriesAreLeased` | the invariants `Exclusion`, `EntriesLeased` |
| | `LeasesAreKeyLocks` | `IsKeyLock`: `KeyedLocks` implements `KeyLock` |
| `SearchCache_proofs` | `StaleIndexesAreDropped`, `GenerationsAreNeeded`, `AnswersAreCurrent` | the invariants `NoStaleIndex`, `NoRedundantGeneration`, `AnswerIsCurrent` |
| | `SearchRunsTheLocks`, `SearchesAreSerialised` | `SearchSpec` implements the `Spec` of `KeyedLocks`, hence `EntriesLeased` and `IsKeyLock` |
| `ProgressStore_proofs` | `StaleLeasesAreRefused`, `TerminalStateSticks`, `ClearSparesLiveDownloads` | the action properties `NoResurrection`, `FirstTerminalWins`, `LiveBarSpared` |
| `ProgressBar_proofs` | `BarRunsTheStore` | `BarSpec` implements the `Spec` of `ProgressStore` |
| | `ClearedBarsStayAway`, `BarConverges` | the invariants `FenceHolds`, `Converged` |
| | `BarNeverGoesBack` | the action property `BarOnlyAdvances` |
| `DownloadFailures_proofs` | `FailuresAreToldOnce`, `HeardFailuresAreTold`, `StoredFailuresAreTold` | the invariants `ToldOnce`, `HeardIsTold`, `StoredIsTold` |
| `GameSession_proofs` | `EnginesAreAccountedFor`, `ShutdownIsComplete`, `SnapshotsAreFinal` | the invariants `EnginesHoldSlots`, `ShutdownLeavesNone`, `SnapshotIsFinal` |
| | `EngineMovesAreFresh`, `RetiredGamesRest`, `GameOversAreFinal`, `RevisionsAreOrdered` | the action properties `EngineMoveIsFresh`, `RetiredIsNotPlayed`, `GameOverIsFinal`, `RevisionsIncrease` |
| `EngineSupervisor_proofs` | `TypeCorrect`, `ChildrenAreSeen`, `LeasesAreRegistered`, `DrainsLeaveNone` | the invariants `TypeOK`, `NoOrphan`, `LeasesRegistered`, `DrainLeavesNone` |
| | `StopsAreExact` | the action property `StopIsExact` |

Each holds for any sets of owners, tickets, tasks, keys, ids, threads, databases,
launches and commands, any number of sessions and documents, any limits and any
selection of incidents. The assumptions on constants are the `ASSUME`s of the
modules: limits are natural numbers (capacities are not zero), kinds of identities
are disjoint, the value that stands for "none" is none of the entries, sessions or
replies, the launches and commands of the supervisor are records of the right
fields, and there is a launch.

None of the invariants is inductive alone. What each proof adds, and why:

*Registry.* `CancelHonoured` needs
that a download which was answered and is not sealed is cancelled or still a
cancelled reservation, and that its ticket is not claimed again;
`OneWriter` needs that a rival admitted beside a cancelled download cannot meet it
at the gate, because a cancelled one never passes it and a committing one is never
cancelled before the seal (`CommitProtected`). `LeaseBacked` needs that a ticket is
in one table at a time and is never minted twice; `DrainedIsEmpty` needs
`LeaseBacked` and that a sealed registry admits nothing. `Inv` in
`OperationRegistry_proofs` is their conjunction. Most methods only shrink the
tables and set tokens: one lemma (`QuietKeeps`) covers them all, another
(`AcceptKeeps`) all admissions.

*Mailbox.* `MailInv` ties a record to the accepted entry, the lease and the tail of
its workflow (`RecordsOK`, `TailOK`): a running record has the lease that will
finish it, and application leases exist for finished records only. `PlacesKept`
counts two disjoint sets, so it needs that both are finite and that every admission
looked at their sum (`FinitePlaces`).

*Keyed locks.* `Inv` says that every outstanding lease holds the mutex the map
has for its key (`Anchored`), that different keys have different mutexes
(`Distinct`), that a task that has counted itself alone still holds the entry
(`EntryOwned`), and who holds which mutex (`HolderOK`). `Exclusion` follows.
The refinement uses the same invariant: `Lease` maps to asking, `Acquire` to a
grant, `BeginDrop` of a task that never locked to a withdrawal, `Unlock` to freeing,
the rest to stuttering. Only the grant is not immediate: the mutex is free, so by
`Anchored` and `HolderOK` nobody owns the key.

*Search cache.* Every step of the search is a step of the keyed locks or leaves them
alone, so their invariant and theorems carry over. `SearchInv` adds where a search
has the generation lock (`PlaceOK`). The heart is `ProbeOK`: as long as the counter
is still the one of the snapshot, what was probed is the current revision, or the
mutator that made it old has committed and not yet counted, and will drop the index
after it has. `NoRedundantGeneration` needs that under the generation lock no
sidecar is newer than what was probed (`SoleOK`), `AnswerIsCurrent` that what a call
loaded is no older than its begin and no newer than the database (`AnswerOK`), and
that cached results are what their key says (`ResultsOK`).

*Progress store.* `StoreInv` says that no lease, item or clear is ahead of the
generation clock, and that a clear which has decided is right about the live
downloads as long as it holds the registry's lock. The lemma `StoreStep` carries it
through every action together with what a step may do to an item (`EntriesStep`),
from which the three action properties follow.

*Progress bar.* `BarRunsTheStore` shows every step of the composition to be one of
the store or a stutter, so `StoreStep` applies to it. `BarInv` speaks of all the
items of the drawn id that are known anywhere (stored, answered, displayed, in
`out` or in the channel): the stored one is the last word among them
(`StoredIsLast`), nothing is ahead of an end (`EndIsAhead`), the clock is ahead of
every item and every clear (`Timely`), the stored item is displayed or on its way
(`OnItsWay`), and what left the store is excused or fenced off by a clear that is
heard or will be (`Gone`). `Converged` follows when nothing is on its way.

*Download failures.* `FailuresInv` follows each failed generation through the places
it may be in (`Trace`: store, thread, wire, snapshot, buffer of a job). While the
workflow or the answered job of this document is pending its generation is
untold and unannounced (`Silent`), can only be found under its own id, and so is
buffered when it arrives; a failure that is observed without a buffer is therefore
nobody's to reject (`NotPending`). `ReceiptsOK` says that what was told has one
receipt, that an owned generation is told, about to be told by its rejection, or was
never seen to fail, and that what was heard has a receipt or waits in a buffer.
`StoredOK` says that a failure in the store has been heard, is in the snapshot or is
on its way, from the moment the snapshot is answered; of a page without a snapshot
it says nothing.

*Game sessions.* `Inv` says who may still touch a session: one that is not published
has no task, loop or retirement (`UnbornOK`, which also covers the session of a
dropped start, so its guard alone is left to end its engines), a retirement is of a
session that left the table, or the manager is sealed (`RetireOK`, `HolderOK`).
`SlotsOK` says that engines nobody has begun to end hold their slot. `TaskOK` says that a
task of the current generation carries the current moves, which makes a comparison
of generations as good as one of positions; `EmittedOK` relates the last event to
the controller's revision and claim; `EndsOK` says that an unsealed live session
whose loop ends has a finished game, and that the state `complete_exact` read is
still the state.

*Supervisor.* The registry is changed by functions of it, so the lemmas are about
those: most of them neither admit, publish nor forget (`Keeps`), and one lemma per
function says so. `Inv` adds to `NoOrphan` and `LeasesRegistered` that a
generation without a launch has neither lease nor child (`Begun`), that a launch
which spawns stays pending, because no termination of it can end before
(`SpawnsSeen`), what a launch that waits for a predecessor or reuses a warm engine
has registered (`WaitsOK`, `ReusedOK`), and that a launch which looked and still has
the admission of its key finds no engine published there (`KeyClear`).

*Supervisor, drains and stops.* Both rest on `Life` (theorem `Lives`), the life of a
generation: a published engine is published under the key of its launch, is past
its launch and is not pending as well (`ActorsOK`); before it has its slot nothing
is known of a child (`EarlyOK`); an attempt that ended well has reaped its child
(`AttemptsOK`), and whoever waits for an attempt waits for one there is
(`AwaitsOK`); a launch that may still get a child has an armed lease or an entry in
the map, or is cancelled (`ArmedOK`). One lemma per function of the registry says
what it writes (`Orderly`), one per action which of two frames it fits
(`LaunchStep`, `CommandFrame`), so that the rest of the argument sees frames and
not actions.

`DrainLeavesNone` takes three facts that outlive each other (`Drained`). A drain
leaves its tombstone or seal before it asks for a lock (`Marked`): from then on no
launch of its scope is admitted. Its barrier cancels the admissions it finds, and by
`ArmedOK` and `LeasesRegistered` it finds all that could still get a child (`Shut`).
What it visited is reaped, or it still waits for its attempt, or it will report the
failure (`WatchOK`); so when a round finds nothing new, `NoOrphan` leaves nothing
unvisited and nothing of the scope is alive (`Gone`), which `Marked` and `Shut` keep
true after it has returned. A first form of the property, which asked
whether the tombstone is in the set now, turned out not to be inductive for a good
reason: evicted and inserted again by a second retirement, the tombstone is there
while a child launched in between still runs.

`StopIsExact` is a property of four sections of a stop that are awaits apart
(`Held`). A stop of one search targets that search alone, and the engine it selected
has the key of the stop (`StopOK`); pending engines serve nobody, so what it binds
of them takes nothing away from another search. When it holds the lifecycle lock
and will reap its engine, that engine serves its search or is not published any
more, and it stays so, because a launch that gives an engine a new search holds the
lock of the same key (`BindsOK`, `Holding`).

`TypeOK`, `SealedIsCancelled` and `Exclusion` are proved and are not repeated as
properties of a run. The inductive invariants were run through TLC on the
instances of section 3 before they were proved.

*Only model-checked.* Every safety property of a passing run has a theorem.
`DrainCompletes`, `EngineIsAsked`, `LifecycleIsReleased`, `EnginesAreReaped` and
`CommandsEnd` are liveness under fairness, which this prover does not do; nor does
it do induction over data or `RECURSIVE` operators, of which the modules have none.

## 6. Plan

Done: the registry with its mailbox, keyed locks and the lock they implement, the
search cache over them, progress store, bar and download jobs, game sessions, the
engine supervisor; the theorems above. Modelling that is left, in this order:

1. The completion consumers of the renderer composed with the registry's mailbox
   (one application per record across reloads), and the account mailbox.
2. `EngineActor`: the request slot and stop/bestmove pairing, with the abstract
   engine that `GameSession` and `EngineSupervisor` already assume.
3. `Shutdown`: the registry's drain, `shutdown_all` and `terminate_all` under one
   budget, with the quit gate.
4. `GameClock`: clock arithmetic against a reference.
5. Atomic file replacement and linked-collection batches with their crash points.

Abstract specifications worth stating next: a monotone register per generation,
implemented by `ProgressStore` and `ProgressBar`; "an engine answers the request it
was asked", implemented by `EngineActor`.

Theorems next: the refinement of a monotone register by store and bar.

## 7. Not modelled

Parsers, PGN and chess computation, encodings and index formats (data a model
would copy character by character); SQLite and its migrations; HTTP, OAuth, key
stores; path resolution over operating system handles; sound, feedback,
appearance; rendering and settings. The blocking gateway is a semaphore around the
runtime's blocking pool; what may go wrong with it, a closure that asks for a second
permit, is a property of call graphs and not of its state. `PROJECT.json` lists
every part with its reason.
