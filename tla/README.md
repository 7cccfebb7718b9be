# AITracker: a verification project

AITracker is a local-first tracker of AI usage: an Electron desktop
application (`electron/`) around a TanStack Start server (`src/`) that scans
the log files of AI tools, keeps what it learns in SQLite and shows it. There
is no central server. The hard parts are inside one machine: background tasks
that share one collector budget, snapshots that must be durable before they
are shown, two processes that open one database, an updater that must not hand
over a wrong installer, a scanner whose runs survive crashes.

The project models the parts whose correctness depends on the order of events.
Each module is translated from the source named in its header; `PROJECT.json`
maps every definition to its lines. Paths below are relative to the
repository's root.

## 1. Inventory

| Component | State | Operations | Interacts with | What is hard | What makes it correct |
|---|---|---|---|---|---|
| Task scheduler, runs: `src/modules/tasks/application/scheduler.ts` | `queue`, `active`, `activeExecutions`, retry timers, `startupCompletions`, run rows, `lifecycle` | `runNow`, `drain`, `execute`, `cancel`, retry timers | run store, resource budget, executors (collectors) | every store call and every acquire is an await others cross; the lifecycle changes under parked continuations; the store may reject | one execution per task, bounded retries, no stale start, rows that are final stay so |
| Task scheduler, lifecycle: the same file | `started`, the shared timer, the startup sweep, the delayed sweep | `start`, `stop`, `refresh`, the tick | task API, composition root | `stop()` during `start()`; timers armed after awaits; barrier on completions that several paths settle | the barrier is honest, no stale timer, `start()` and `stop()` settle |
| Resource budget: `src/platform/runtime/resource-budget.ts` | `inFlight`, `waiters` | `acquire`, `release`, abort listener | scheduler | release hands over to a waiter that is being aborted | permits are counted exactly, nobody waits beside a free permit |
| Snapshot coordinator: `src/platform/snapshot-runtime/coordinator.ts` | `current`, `invalidated`, the load, the refresh, the clear | `hydrate`, `refreshNow`, `invalidate`, `clear` | repository, collector, task scheduler, readers | failures between save, reload and commit; clear and invalidate during a refresh; restarts | readers see the durable generation, fresh means recently collected |
| Snapshot runtimes (usage, sessions, skills, installation, WSL, exchange rate) | instances of the coordinator | collectors | coordinator | a collector may hand old data back, or find nothing | old data is not called new |
| Writer ownership: `src/platform/database/writer-ownership.server.ts` | a lock file, `HELD_LOCKS` | acquire, release, exit hook | `DatabaseHost`, release data reset, other processes | every system call is a step another process can come between; crashes leave the lock | one writer, live locks stay, stale ones are reclaimed |
| Database host, migrations: `src/platform/database/` | connection, `user_version`, ledger | open, close, borrow, migrate | all repositories | crash between migrations | each migration once and whole |
| Backup, recovery, retention: `recovery.server.ts`, `retention.server.ts` | backup files, manifest | backup, restore, prune | database host | crash between set-aside and rename | a restore loses nothing |
| Release data reset: `electron/release-data-reset.ts` | marker, data directory | reset at start | writer ownership | consent, check, removal and mark are separate steps other processes come between | only with consent, never under a live writer, never after the decision is recorded |
| Update manager: `electron/update-manager.ts` | `#state`, `#downloadedPath`, `#expectedArtifact`, the installer file | check, automatic check, download | feed, network, disk, UI | calls interleave on one path and one file; every request may fail | what is handed over is the verified installer of the version shown |
| Installer hand-over | scripts | relaunch | update manager | runs after the process | out of scope, rests on the line above |
| Security scanner: `electron/security-scanner-service.ts` | run rows, history, epoch, worker pool | start, cancel, clear, run | scan scheduler, UI | status check, then awaits; epochs; persistence on the way | one scan, its result is committed once |
| Automatic scan scheduler: `electron/automatic-security-scan-scheduler.ts` | durable cursor, generation, timer | start, update, suspend, resume, stop | scanner, power events | answers of superseded passes; crash or suspend between start of the scan and write of the cursor | one timer, no occurrence lost |
| Task run repository: `sqlite-task-run-repository.server.ts` | `task_run` rows | append, transition, recover, compact | scheduler | run ids start at 1 in each process; 500 rows are kept for all tasks | freshness and catch-up read the truth |
| Task API, preferences | preferences | run, cancel, patch, await | scheduler | the preference is stored before the scheduler learns of it | the timer follows the preferences |
| Composition root, startup barrier | wiring | | all | | which options run |
| State broker, main, preload, tray, windows | processes, windows | loopback HTTP, IPC | server | | request and response |
| AI orchestration, insight enhancer | profiles, cache, one generation in flight | generate, cancel | providers | single flight with a cache key | one result per key |
| Distillation quota | daily counter | reserve, settle | AI orchestration | concurrent generations at the limit | the limit holds |
| Skill distribution | files in tool directories | `executeInstallPlan` | file system | partial failure | what is reported is what is on disk |
| Reports, knowledge, search, sessions, projects, monitoring | none of their own | queries | SQLite | | presentation |
| Scanners, tool registry, pricing | parsed logs, generated data | parse | collectors | formats | not a protocol |
| CLI, release scripts | | packaging | | | outside the running system |

`PROJECT.json` lists the hazards found in these parts, each at its line with
the properties that watch it or the reason none does.

How the modelled parts meet: the composition root creates one scheduler; its
executors call `refreshNow` of a snapshot coordinator with the run's abort
signal; the heavy ones first acquire the permit of the resource budget; the
coordinators and the run store write through one `DatabaseHost`, which holds
the writer ownership for as long as it is open. Before a desktop launch opens that
host, the data reset looks at the same lock and may remove the directory it is in.
The updater and the scanner live in the Electron process and share nothing with the
task scheduler; the scheduler of automatic scans drives the scanner.

## 2. Modules

| Module | Models | Role |
|---|---|---|
| `ResourceBudget` | `resource-budget.ts` | state and synchronous effects of one resource class |
| `TaskRuntime` | `scheduler.ts`: runs | extends `ResourceBudget`; when calls happen is left open |
| `TaskScheduler` | `scheduler.ts`: `start`, `stop`, `refresh`, tick | extends `TaskRuntime` and says when the calls happen |
| `TaskDueness` | `scheduler.ts`: `isDue`, `scheduleNext`, cursors, sweeps; the run history | when a task runs on its own, with a clock, restarts and preferences |
| `TaskRuntimeProofs` | | the theorems about `TaskRuntime` |
| `TaskSchedulerProofs` | | extends `TaskRuntimeProofs`: `TaskScheduler` implements `RuntimeSpec`, and its own theorems |
| `TaskDuenessProofs` | | the theorems about `TaskDueness` |
| `LatestSnapshot` | | abstract specification of a snapshot domain |
| `SnapshotCoordinator` | `coordinator.ts`, the outcomes of the usage collector | implements `LatestSnapshot` |
| `SnapshotProofs` | | the refinement, proved, and the invariants of the coordinator |
| `WriterOwnership` | `writer-ownership.server.ts`, its use in `DatabaseHost` | processes and a file system |
| `DataReset` | `release-data-reset.ts`, its consent in `main.ts` | extends `WriterOwnership`: launches and command line processes |
| `DataResetProofs` | | the theorems about `DataReset`, and through it about `WriterOwnership` |
| `UpdateManager` | `update-manager.ts` | interleaving calls, feed, disk |
| `UpdateManagerProofs` | | the theorems about `UpdateManager` |
| `SecurityScanner` | `security-scanner-service.ts`, `recoverInterrupted` | overlapping starts, the worker pool, records and history over a broker that may fail |
| `SecurityScannerProofs` | | the theorems about `SecurityScanner` |
| `AutomaticScans` | `automatic-security-scan-scheduler.ts` and its callers | overlapping passes, a durable cursor, power events, restarts |
| `AutomaticScansProofs` | | the theorems about `AutomaticScans` |
| `MC*` | | values of the constants for TLC |

### The task runtime

An action is one synchronous segment of the JavaScript, from one await to the
next. `pc[r]` names the await at which the continuation of run `r` is parked:

| `pc` | parked at | lines of `scheduler.ts` |
|---|---|---|
| `appending`, `skipping` | `runNow` awaits the append of its row | 832-871 |
| `withdrawing` | the transition of a removed run to `cancelled` | 872-884, 1078-1094 |
| `starting` | `drain` awaits the transition to `running`; `active` is set | 422-447 |
| `waiting`, `acquired` | `execute` awaits the permit, or has been granted it | 459-487 |
| `executing` | the executor | 475-493 |
| `end...` | the terminal transition, inside the try or the catch block | 488-535 |
| `retryWait`, `requeueing` | the retry timer; its transition back to `queued` | 516-530 |
| `dropped` | nothing: `drain` has skipped it and nobody holds it | 432 |
| `wedged` | nothing: the transition to `running` was rejected | 435 |

`drain` is written as its effect up to the first await: it takes the first
item by priority whose task is not active and drops what is ahead of it. It is
part of every action whose code ends in `drain()`.

Deliberate differences from the code, each an over-approximation unless noted:

- Store calls of different runs resolve in any order. The code serialises them
  (`withRuns`, 392-402) and the SQLite repository is synchronous, so production
  shows fewer orders. The memory repository and any future asynchronous one are
  covered.
- Time is left out. An armed timer may fire, a task that a sweep or tick looks
  at may be due. What decides dueness (`nextRunAt`, `isDue`, the preferences) is
  the subject of `TaskDueness`.
- In `TaskScheduler` the store never rejects a write of a row (`MaxFaults = 0`) in
  the runs checked; those faults are explored in `TaskRuntime`. A recovery or a read
  of the sweep that rejects (`RecoverFails`) is in all of them.
- Whether the barrier waits for a run of the sweep (`shouldAwaitStartupTask`, and a
  sweep without a grace period) is chosen when the run resolves (`SweepResume`).

`scheduleNext` is called by three: by `start()` (`arming`), by `refresh()` and by a tick
that has seen all tasks (`TickEnds`). Each call reads the stores under the lifecycle it
was made in, so several may be at it at once: `rearming` is the set of their
lifecycles, and `Rearmed(l)` is the comparison after the reads. A tick that fails arms the
timer at once, which leaves `armed` as it is. The grace timer of the delayed sweep
is set before `start()` awaits `scheduleNext`, so `LateRun` may come while `startPc` is
`arming`; it awaits its runs one after the other (`lateRun`). A call of `stop()` while
another waits makes the model follow the later one, which resolves last.

Behaviour worth knowing, seen while modelling and kept as the code has it: the
`lifecycle` captured by a retry timer is that of the moment the attempt ended
(`EndDone`), so a run that outlives `stop()` and ends with a retry belongs to the new
lifecycle; the tick passes no expected lifecycle; `refresh()` ends pending
retries and the delayed sweep; `cancel()` of a run that waits for its retry timer
does nothing; a required startup task that is skipped fails the start.

### When a task is due

`TaskDueness` is the other half of the scheduler. Three records say what has run: the row
of the last success in the history (freshness, 229-248), the slot claimed in memory
(`lastScheduledAt`), and the calendar cursor in the store (600-626), the only one that is
there after a restart even if nothing ever succeeded. `isDue` (543-580) and `scheduleNext`
(667-735) read them differently, and the properties are about what follows when they
disagree: the timer armed for a task the tick then does not run, an occurrence that came while
no process ran, a tick that gave its slot back, a preference that is stored before
`refresh()` runs.

The module abstracts what the other two have: `scheduleNext` is one step, a run starts when it is
queued, every snapshot exists at startup so no run is awaited. For each task a tick first reads
(`TickReads`: the preference, the slot and, last, the rows) and then runs what it found due (`TickTask`),
whatever has happened in between, under the time it fired at. Either read may be rejected
(`TickSkips`: the tick goes on with the next task), and so may the append (`TickFails`: it comes again
later; in the sweep `SweepFails`: the sweep ends). A run that ends first stores its row (`Finish`) and leaves
`active` afterwards (`Freed`, the `finally` of `execute`).

One order between these is excluded, by `Deciding`: a task does not leave `active` between the tick's read of
its rows and the tick's `runNow`. Both requests pass the line of `withRuns` (394-402), first come, first
served, and SQLite answers within the turn. A row appended behind the tick's list is stored while `isDue`
resolves; from its answer to `runNow` the tick has fewer turns of the microtask queue to go than the run
has from `append` over `transition` and `execute` to its `finally`. So `runNow` still finds the task busy and
records a skip; when the row was appended ahead of the list, the tick has read the success. For the same
reason no timer fires and no request comes in while rows are being settled or the delayed sweep goes from
one task to the next (`Settled`), and the sweep's tasks share one `fireAt`. `FreshSpared` rests on this: with
a store that answers in a later turn, a task that succeeds between the read and the run would be run again.

The history is a sequence in the order of
`rowid`; `Store` is the upsert by run id and the compaction. Schedules are an interval and a day;
weekly, monthly and DST arithmetic, and a settings fingerprint that changes, are left out.
`Forgotten(t)` names a success that the history has lost; the properties excuse it and
`task_history` is about it.

### Snapshots

`SnapshotCoordinator` has one domain, usage. The sources are a version that mutations
increase, the data of an envelope is the version it was collected from. What the code does not keep
are `began`, when the refresh that committed an envelope started, `taken`, when its data was read from the
sources (`at`, the `generatedAt`, is that of the commit, which comes later), and `from`. A
repository call takes effect or fails in the segment that makes it. The refinement maps
`shown` to the data in memory and `durable` to the data in the store.

A refresh ends in one of four ways (`usageCollect`, `src/src/app/composition.server.ts` 407-533, over
`usage-collector.server.ts`):

| Action | The collector | Committed as |
|---|---|---|
| `Scan`, then `Collected` | scanned the sources | fresh, `generatedAt` of the commit |
| `Reused` | ran out of time, threw or found nothing healthy, and was given a snapshot | that one, stale, its `generatedAt` kept |
| `Spare`, then `Collected` | the same, and was given none: it hands back what it loads from the store, or `EMPTY_SNAPSHOT` | fresh, `generatedAt` of the commit |
| `Failed` | was cancelled or threw, or the save was rejected | nothing |

`EMPTY_SNAPSHOT` is not `null`, so it is a version of its own, `Blank`, older than every version of the
sources. Two ways lead to a spare: a first start, and a hydration whose load was rejected, which leaves
memory empty beside a store that is not. In the second, a load that fails again replaces the stored
generation by the empty one; `LatestSnapshot` allows that by a step of its own (`Blanked`), while readers see nothing.
A source that came back lifeless keeps its previous evidence (`retainSourceEvidence`); the version does
not tell sources apart.

`ClearDuringLoad` is `FALSE` in the runs: the load of the SQLite repository is
synchronous, so no `clear()` is called between its read and its resolution. With an
asynchronous repository (`TRUE`) `hydrate` could put cleared data back into
memory, and the model shows it. One `clear()` is in flight at a time.

### Writer ownership

Inside a process the code is synchronous; between processes every system call
is a step. A process is a member of `Proc` from its start to its end. Pids
are not reused, the assumption the code makes as well (31-35). `contended` is a
history variable: two processes have been inside `acquireWriterOwnership` at
once. Two details the model keeps: an acquisition that finds the name taken and then
unreadable is refused although the holder has just released it, and a lock whose
unlink failed stays under its own live pid, so the same process cannot reopen
before a second `close()`. A third: the link may be made and the call fail after it
(`PublishFails`, when the permissions of the lock cannot be narrowed): `open()` fails, and the lock stays under
the pid of a live process that does not know it holds it.

### Data reset

A desktop launch goes through the `stage`s `asking` (the dialog), `preparing`, `checking`
(`assertNoActiveDatabaseWriter`), `pending` (removed, to be marked after the warmup) and `ready`;
then it opens the database. Command line processes (`Proc \ Desktop`) only open it. The removal
takes the lock file and the rows, since they are in one directory, one after the other in either order
(`RemoveNext`), with steps of other processes in between, until nothing is left (`Removed`); so the reset can
take a lock from the processes of `WriterOwnership`, whose properties are checked on the composition. The
single instance lock of Electron keeps two launches from being alive at once. `rows` tells the data of an
older release, none, an initialized database and one with work in it apart. A removal that fails
leaves what it has not taken yet and ends the launch. `Initialize` stands for the migrations of an empty database. `contended` is set by the check too, when it runs
while another process is inside the acquisition: that pair is the race of the finding on the lock
with the reset as one of the contenders. Left out: path validation and symbolic links; that the
migrations refuse the database of an older release, so the model lets more processes work on it than
the product does.

### Update manager

Calls are members of `Call`; they share one state, path and file. The installer's
name does not depend on the version, so a file left by an earlier run of the
application may be anything (`Init`). `setEnabled` and development builds, which
only return early, are left out. `overlapped` is a history variable: a check
began while another was comparing or discarding a waiting installer. A download makes its
directory (`Prepared`), unlinks the stale file (`Unlinked`) and creates its own exclusively (`Created`), each a step
that may fail and that another call may come between. A release may be replaced or withdrawn at any time
(`Publish`). The address shown and the address to load are set together, so their comparison (1047)
never fails: TLC confirms that an available version is the expected one whenever there is one, and an alias
in an address changes nothing. Without the exclusion of `overlapped`, `InstallerVerified` does not hold (16 states: the slower check
replaces the state of the download to which the faster one led).

### The scan service

A member of `Scan` is one call of `start()` (or `startAutomaticScan()`, which differs in when it
captures the epoch) and the run it begins. `pc[s]` names what it awaits:

| `pc` | awaits | lines of `security-scanner-service.ts` |
|---|---|---|
| `manual`, `automatic` | the model profile | 924-935, 1074-1082 |
| `listing`, `resolving` | the discovery of Skills, the targets | 937-945, 1083-1095 |
| `saving` | the first run record | 1043 |
| `reading`, `scanning` | the old history, the worker pool | 1219, 1236-1353 |
| `locking`, `merging`, `writing` | the history lock, its read, its write | 1753-1766 |
| `finishing`, `failing` | the last run record, in #run or in its catch block | 1391, 1061 |

Records are written one at a time in the order they were asked for (`saves`), the history lock
is the line `turns`. A request may be answered with a failure after it has taken effect or
without; a request that takes effect later than its timeout is not modelled. The targets
of a scan are a number, the entries a run has made the set of ways they ended (all a verdict needs);
an unchanged Skill that an automatic scan skips counts as complete. `doomed` is a history
variable: the runs that had begun before a `clear()` that has resolved.

Seen while modelling: the epoch is not looked at again after the targets are resolved, so a start that was
parked there takes the state over from a scan that has begun meanwhile, whose record stays
`running` until the next restart closes it. A `clear()` that fails leaves the cancel request
set, which the next start takes back. Two simplifications that no property can tell from the code: a `clear()`
with no run active resumes in the same step (the code awaits `undefined` there), and a verdict compares the ways
the entries ended where the code compares a counter with the number of targets; the two differ for
untrusted targets only (1249), which the discovery does not let through.

### Automatic scans

`start()`, `resume()` and `update()` each begin a new pass under a new generation; the timer begins
one under the generation it was armed in. A pass awaits one request of the local server at a time:

| `at` | awaits | lines of `automatic-security-scan-scheduler.ts` |
|---|---|---|
| `reading` | the schedule and the cursor (`reconcile`) | 194-223 |
| `marking`, `attempting` | the occurrence stored as pending; the start of the scan (`attemptDue`) | 149-167 |
| `advancing`, `disabling` | the next occurrence, or that there is none, stored (`attemptDue`, `armFresh`, `reconcile`) | 168-192, 203-206 |

Requests of a superseded pass still take effect, possibly after those of the pass that replaced it: the
code checks its generation after an answer, never before the server applies the request. A failed request
ends its pass: nothing catches it. `setScanSchedule` stores the schedule and then calls `update()`.
Three observations carry the history the properties need: `promise` is the occurrence a timer was last armed
for, `broken` that a request of the current pass has failed, `overtaken` that a superseded pass wrote the
cursor last. Quitting the application or a crash clears the memory and keeps what was stored. `ReadDone` reads the schedule and
the cursor at one point, where the code makes two requests at once (198-201): what changes between them is a
cursor written by a superseded pass, or a schedule that is being saved, after which `update()` supersedes the
reading pass. The scan itself is `ManualScan`, `Started` and `ScanEnds`; that a scan ends is assumed here,
although one whose first record cannot be written leaves the scanner busy for good (`MCSecurityScannerStuck.cfg`). An
occurrence is strictly later than its base for all cycles; the daily and the hourly cycle differ in whether
they keep to a grid.

## 3. Runs

| Run | Question | Instance | States |
|---|---|---|---|
| `task_runtime` | Do runs keep single flight, the heavy budget, the permit account, the empty queue, bounded retries, the lifecycle guard and final rows? | 3 tasks (2 heavy), 2 runs, 1 retry, 2 lifecycles, 1 store fault, limit 1, manual and startup triggers | 1.1 M |
| `task_scheduler` | Are timers current and is the barrier honest under start, stop, refresh and the sweeps? | a heavy, required startup task, 2 runs, 1 retry, 3 lifecycles, overlapping stops | 1.2 M |
| `task_scheduler_live` | Do `start()`, `stop()` and waiters get on? | 2 heavy tasks, one a required startup task, 2 runs, no retries, 2 lifecycles, fair | 200 k |
| `snapshot` | Does the coordinator implement `LatestSnapshot`, and does freshness mean what it says? | an empty snapshot and 2 source versions, clock 0..2, 2 faults, 1 restart | 2.9 M |
| `task_dueness` | Do the timer, the catch-up and freshness agree with what has run, across restarts, preference updates and failed writes? | an interval startup task and a daily task, history of 2 rows, clock to 3, 2 runs per process, 1 upset | 1.0 M |
| `task_history` | Does the history keep a fresh success? (finding) | as above, history of 3 rows, clock to 4, 1 upset | to the counterexample |
| `data_reset` | Does the writer own the lock, do live locks stay, are stale ones reclaimed; is data removed only with consent and never under a writer; does a mark mean an initialized database? | 2 launches, 1 command line process, 2 attempts, 1 fault, fair | 190 k |
| `data_reset_linux` | Is the user always asked? (finding) | 1 launch on a platform without the dialog | to the counterexample |
| `writer_ownership_race` | At most one writer? (finding) | 3 processes, 1 open each | to the counterexample |
| `update_manager` | Is the installer verified, kept, and does the status settle? | 2 calls, 2 releases, withdrawals, 1 restart | 370 k |
| `security_scanner` | Is cleared history gone, does a cancel stay in force, are records backed by entries, do scans and `clear()` end? | 2 scans, 2 targets, 2 workers, 1 clear, 1 fault or restart, fair | 190 k |
| `automatic_scans` | One timer, something always armed, no occurrence dropped, a due scan starts at last? | off, daily and hourly schedules, cycle of 2, clock to 3, 1 interruption, 1 saved schedule, 1 failed request, fair | 155 k |

The bounds and why they are enough:

- `MaxRun = 2`: single flight, the permit, the drop in `drain` and the
  withdrawal are about pairs of runs; one task can get both, or two heavy tasks one
  each. With one run each retry is a third "arrival". The proofs lift the bound for
  all but the liveness properties.
- `MaxQueue = 1`, `MaxLifecycle = 2` or `3`: a lifecycle before, one during and one
  after a stop; `task_scheduler` needs three for start, stop, start.
- `MaxFaults = 1`: one fault at any point; two faults in one run are two
  independent lost writes. `snapshot` has two, for a hydration that is rejected and the
  collector's own load after it.
- `task_dueness`: two tasks of different kinds share the timer and push each other's rows
  out of a history of two; `Period = 2` and `MaxTime = 3` give an occurrence to miss and one
  after it, `MaxUpsets = 1` an exit, a preference update or a rejected read or write at any point. A run id is used again after an exit, which `MaxRuns = 2` is enough for.
- `data_reset`: one launch after another, since two are never alive at once, and a process that does
  not know of the reset. `writer_ownership_race`: one process that died, and two that reclaim. The
  proofs lift these bounds.
- `automatic_scans`: one interruption, one saved schedule and one failed request at any
  point overlap a pass with each kind of its successors (two interruptions pass too:
  2.5 M states). `Period = 2` puts a time between two occurrences.
- Two calls of the updater: the renderer's and the timer's.
  Two scans: one to overtake, with one `clear()` (three with one target pass the safety
  properties too: 4.9 M states).
- `MaxVersion`: an installer and a newer release (2); the empty snapshot, and a source before and
  after a mutation (3). `MaxClock = 2` with `FreshFor = 1`: an age on each side of the limit.

Deadlock is checked in `snapshot` and `update_manager`. In the others a behaviour may end: run ids,
lifecycles, time, scans, clears, launches and upsets are bounded, and all processes may be dead.

Fairness:

- `task_scheduler_live`: the store answers, a granted acquire resumes, a timeout that is armed fires, an
  executor settles after its signal is aborted (the collectors pass the signal on), `start()` and
  `stop()` resume when what they await is there. All are promise resolutions or timers of one event
  loop. Nothing is assumed of triggers, retry timers, cancels or ticks.
- `data_reset`: a process inside the synchronous functions of the writer ownership goes on unless it dies.
- `update_manager`: a call does not stay parked, since requests have timeouts and downloads an idle limit.
- `security_scanner`: requests are answered, since all have timeouts, and the scan of a Skill ends.
- `automatic_scans`: requests and attempts settle, timers fire, scans end; a suspended computer wakes up, an
  application that is quitting ends and is started again. Strong fairness only of `Started`: an
  attempt that is made again and again succeeds at last, so a scanner that is never free, or that
  never finds a Skill, is excluded.

Exceptions stated in the properties. `StartSettles` and `StopResolves` excuse a startup run that `drain`
dropped, because a dropped run settles nothing (a hazard of the list). `FreshWasCollected` and `InvalidationHolds` excuse the spare of a refresh
that had neither a scan nor anything in memory (`FreshIsCollected` does not, and fails), and the second an
invalidation during a refresh. `TimerCovers` and `FreshSpared`
excuse a success the history has lost (`Forgotten`, the subject of a finding). `WriterHasLock`,
`LiveLockKept` and `ResetSparesWriters` exclude contention, the subject of a finding. The updater's exclude
overlapped checks (a hazard). `NothingDropped` excludes a cursor that a superseded pass wrote last, and
`Watched` and `DuePassStarts` a request that failed, after which nothing is armed until the next
start or resume. The liveness of the scanner excuses a scan whose first record could not be written (`Stuck`).

Findings (`PROJECT.json` quotes the lines):

- `writer_ownership_race`: two contenders for a stale lock can both become writers.
- `task_history`: run ids are counted from 1 in each process and rows are replaced by run id, so the first
  run of a process can overwrite the success that freshness is read from.
- `data_reset_linux`: on Linux the reset removes the data without the dialog that the comments and a test
  announce.

Further configurations, each of which TLC violates. They are kept beside the modules because they show
behaviour a change of the code would touch. The first is at odds with two comments, the others with no text
that clearly promises more:

| Configuration | Property | What it shows |
|---|---|---|
| `MCSnapshotSpare.cfg` | `FreshIsCollected` | a refresh that has neither a scan nor anything in memory commits an empty snapshot, or what the store has, as freshly collected (`composition.server.ts` 485-491, 507-512), although 480-482 there says "never replace good data with an empty snapshot stamped as freshly collected" and `usage-snapshot-runtime.server.ts` 67-69 "so the UI never reports a fresh collection that did not happen"; both comments stand above the branch that has a snapshot to keep |
| `MCTaskRuntimeWedge.cfg` | `ActiveIsReleased` | a rejected transition to `running` leaves the task in `active` until the process ends |
| `MCTaskDuenessClaims.cfg` | `ClaimsRun` | `refresh()` drops the delayed startup sweep, whose tasks stay claimed for a period although the grace timer was to run them (931-935) |
| `MCSnapshotInvalidate.cfg` | `InvalidationWins` | an invalidation during a refresh is undone by its commit |
| `MCUpdateManagerLoss.cfg` | `NeverLostToErrors` | a failing second request loses the installer that the check has discarded |
| `MCSecurityScannerStuck.cfg` | `BusyMeansScanning` | a scan whose first record cannot be written leaves the scanner busy for good |
| `MCAutomaticScansFailure.cfg` | `RetriesUntilStarted` | a request that fails ends the pass, and a due scan waits for the next start or resume (the comment at 86-88 speaks of a busy scanner only) |

One more disagreement with a comment needs no run: `scheduler.ts:678-680` says a calendar task waits for its
first occurrence, which `scheduleNext` does, while `isDue` calls a task without a success due whenever
another task's tick looks at it.

## 4. Proofs

Every safety invariant, every action property and the refinement that the runs check is also a
theorem: the runs show it on the small instances above, the theorem for every value of the constants
that satisfies the assumptions of its module. Each proof goes by an inductive invariant that TLC
checked first.

### The task runtime and the scheduler

`TaskRuntimeProofs`, for any set of tasks and any number of runs, retries, lifecycles, faults and
permits (`LimitAssumption`, `TaskAssumption`, `BoundAssumption`):

| Theorem | States |
|---|---|
| `Invariance`, `TypeCorrect` | `RuntimeSpec => []IInv`, `RuntimeSpec => []TypeOK` |
| `QueueAlwaysDrained` | `RuntimeSpec => []QueueDrained` |
| `SingleFlightHolds` | `RuntimeSpec => []SingleFlight` |
| `NoPermitLeaks` | `RuntimeSpec => []PermitsAccounted` |
| `HeavyBudgetHolds` | `RuntimeSpec => []HeavyBudget` |
| `RetriesBounded` | `RuntimeSpec => []RetryBounded` |
| `RowsStayFinal` | `RuntimeSpec => RowsFinal` |
| `StaleRunsAreKeptOut` | `RuntimeSpec => StaleRunsStayOut` |

The inductive invariant is
`IInv == TypeOK /\ QueueDrained /\ Fresh /\ Ownership /\ PermitsAccounted /\ HeavyHolds /\ Budgeted`.
Single flight is not inductive: two runs of a task can only be told apart because
`active[t]` names the one that was taken. `Ownership` says that a run that is starting or
executing is the one `active` names for its task; with it, a second look at `active` in
`drain` is enough, and `SingleFlight` follows in one line. `Fresh` says that run ids not
allocated yet have no continuation, so a new run cannot already own anything.
`QueueDrained` lets the proof treat `queue` as the single item just pushed.
For the budget, `PermitsAccounted` ties the counter to the set of holders and the line to
the runs parked at it, `HeavyHolds` says that a heavy run that executes holds a permit, and
`Budgeted` that no more than `Limit` are out; `HeavyBudget` follows by the cardinality of a
subset. Each action has a lemma or a step of its own.

The rows need more: `RowInv == IInv /\ Sealed /\ Tried`. `Sealed` says that a run whose row is
succeeded, cancelled or skipped has no continuation left. It is not obvious from any one action, because
a withdrawn run is still parked at its transition when a start, a cancel and a sweep look at it. `Tried`
bounds the attempt of a row and, one lower, that of a continuation that is going to retry. The step is proved
for the run that acts and for the bystanders (`Kept`), of which `drain` takes at most one.

`TaskSchedulerProofs` proves `DrivesTheRuntime`, that is `Spec => RuntimeSpec`: every step of the
scheduler is a step of the runtime or leaves its variables alone. All of the theorems above hold of the
scheduler therefore (`RuntimeGuarantees`). Its own invariant, `SchedInv == RowInv /\ SchedulerTypeOK /\
TimerCurrent /\ Unused /\ Sweeps /\ Honest`, gives:

| Theorem | States |
|---|---|
| `SchedulerTypeCorrect` | `Spec => []SchedulerTypeOK` |
| `TimerStaysCurrent` | `Spec => []TimerCurrent` |
| `BarrierIsHonest` | `Spec => BarrierHonest` |

The barrier reads completions, which several paths settle, and claims something about rows. `Honest` says
that they agree for the runs `start()` waits for or is about to; it needs `Sealed`, since a row that may
still change would make an old completion lie, and `Unused`, since a new run must not find a completion
under its id.

### When a task is due

`TaskDuenessProofs`, for any catalog, set of calendar tasks, period, grace, size of the history and
bounds (`DuenessAssumption`; a startup task may have a calendar schedule, as a preference can give it one):

| Theorem | States |
|---|---|
| `DuenessInvariance`, `DuenessTypeCorrect` | `Spec => []DueInv`, `Spec => []TypeOK` |
| `TimerIsInTime` | `Spec => []TimerCovers` |
| `MissedIsCaughtUp` | `Spec => MissedCaughtUp` |
| `ArmedIsDue` | `Spec => ArmedForWork` |
| `FreshIsSpared` | `Spec => FreshSpared` |

`DueInv == TypeOK /\ Recorded /\ Past /\ Occurrences /\ Covered /\ Decided`. `TimerCovers` is not inductive: when a
run succeeds, what the timer has to be in time for moves, and nothing is armed again. `Covered`
adds that the timer is no later than a period from now, which a success or a claim of this moment cannot
break, and no later than the task's cursor. `Recorded` (no success in the history is newer than the newest
there was) turns `~Forgotten` into a statement about a step: if the history has the newest success afterwards,
it is of this moment or was there before (`Remembers`), whatever rows were stored over or compacted away.
`Decided` is for the two steps of a tick: a task found due and idle is still without a success of this period,
or it is forgotten, when its run comes, although rows are stored and overwritten in between and runs of it end.
`Occurrences` says that a stored cursor is a multiple of the period; with it a success or a slot
before a missed occurrence lies a whole period behind it, so freshness and slots cannot contradict
the cursor (`MissedIsDue`), and `scheduleNext` arms for at once only what `isDue` takes
(`CandidateIsDue`). The lemmas before it say what `Min`, `Max`, `Next1`, `Upsert` and `Compact` do: the oldest
row exists, one row goes, the others stay in order.

Three things came out of the proof. `Candidate` had overlapping cases: a calendar task with an overdue
occurrence and a base matched two, and TLC had taken the first; the cases now exclude each other, in
the order of the code (690-720). An assumption that startup tasks have no calendar schedule, which only the
defaults of the catalog justify, was not needed once the immediate start of `scheduleNext` was
confined to intervals, as in the code (681-688). And `LastSuccess` is stated as the greatest finish time of a set
of rows, which is what the loop of `lastSuccessfulFinishedAt` computes.

### Snapshots

`SnapshotProofs`, for any number of versions, times, faults and restarts (`SnapshotAssumption`):

| Theorem | States |
|---|---|
| `TypeCorrect` | `Spec => []TypeOK` |
| `FreshIsWhatWasCollected` | `Spec => []FreshWasCollected` |
| `MemoryIsTheStores` | `~ClearDuringLoad` implies `Spec => []MemoryFollowsStore` |
| `InvalidationIsKept` | `~ClearDuringLoad` implies `Spec => []InvalidationHolds` |
| `Refinement` | `~ClearDuringLoad` implies `Spec => ShowsLatest` |

The assumption is the one of section 2, a store whose load is synchronous, as SQLite's is; without it the
three do not hold, and the first two do not need it. The invariant `SnapInv` follows one
generation through a refresh: `Forward` (what may be committed is no older than what is stored), `Committed`
(what is about to be shown is what was stored), `MemoryAgrees` (memory shows nothing or the stored
generation), and `LoadIsCurrent` for the load that runs beside them. `BasicInv` carries freshness: what a scan found was
read since the refresh began (`ScanFound`), and every envelope, in memory, loaded or stored, that says fresh and is
no spare was read between its `began` and its `at` (`AllTruthful`); a hand-back keeps `at` and takes a new `began`,
so only its mark as stale keeps it truthful. `Demands` carries an invalidation: as
long as none came during a refresh, what is called fresh and what the refresh brings meet what was
demanded. `ShowsLatest` is a refinement by the mapping of the module: each step is a step of the register or a stutter.

### The update manager

`UpdateManagerProofs`, for any calls, versions and restarts (`UpdateAssumption`, `CallAssumption`):
`TypeCorrect`, `VerifiedIsHandedOver` (`Spec => []InstallerVerified`) and `WaitingIsKept`
(`Spec => InstallerKept`). `UpdateInv == TypeInv /\ (~overlapped => Undisturbed)`: as long as no check began
while another compared or discarded a waiting installer, one call at a time is in a check or a download (`Sole`),
it has the status, the version and the file to itself (`Own`), and an installer that is offered is whole and of
the version shown (`Offered`). The early returns of the code rest on `status`; `Own` says that this is enough.

### The scan service

`SecurityScannerProofs`, for any scans, targets, workers, clears and faults (`ScannerAssumption`):

| Theorem | States |
|---|---|
| `TypeCorrect` | `ScannerSpec => []TypeOK` |
| `ClearedIsGone` | `ScannerSpec => []ClearedStaysGone` |
| `CancelIsKept` | `ScannerSpec => []CancelSticks` |
| `SuccessIsBacked` | `ScannerSpec => RecordsAreBacked` |

`ScanInv` is about two lines and an epoch. `Fence` says that while `clear()` waits to erase, nobody ahead of it in
the line for the history is in force, so none of them writes after it. `DoomedRest` says
that a run `clear()` has overtaken is behind the epoch and does not hold the history. `InLine` and `SavesOnce`
say whose turn it is, `Judged` and `Unjudged` when a verdict exists. `Pooled` accounts for the targets of the pool and
`Backed` says of the run in force what its record is going to claim; a record is
written later than it is judged, and by then a `clear()` may have come between.

### Writer ownership and the data reset

`DataResetProofs`, for any processes, launches, attempts, calls and faults
(`OwnershipAssumption`, `ResetAssumption`):

| Theorem | States |
|---|---|
| `Invariance`, `TypeCorrect` | `ResetSpec => []IInv`, `ResetSpec => []ResetTypeOK` |
| `WritersHaveTheLock` | `ResetSpec => []WriterHasLock` |
| `OneWriterUncontended` | `ResetSpec => [](~contended => OneWriter)`: the contention of the finding is all that stands between the code and the single writer of `DatabaseHost` |
| `LiveLocksKept` | `ResetSpec => LiveLockKept` |
| `MarkerHolds` | `ResetSpec => []MarkerMeansReady` |
| `WritersSpared` | `ResetSpec => ResetSparesWriters` |
| `RemovalsSanctioned` | `Prompts` implies `ResetSpec => RemovalSanctioned` |

The invariant is `OInv /\ ResetInv`. `OInv` is about the lock: while no two processes have contended for
it, one at most is acquiring (`Sole`), who counts on the lock has its record (`HoldsLock`), the record a
contender has read is still there or nothing is (`SeenIsThere`), and whoever is about to take a record
away, by rename or with the directory, takes none of a live process (`TakesDead`).
`SeenIsThere` is what the race breaks: it is the missing link from the probe of a dead owner to the rename.
`ResetInv` is about the launches: one at a time (`SoleLaunch`), no decision recorded while one asks or
checks (`Undecided`), consent where the platform asks (`Agreed`), and old rows do not come back (`Gone`),
which makes the mark after the warmup mean an initialized database. The steps of the ownership
preserve `ResetInv` because they leave its variables alone and the reset's steps preserve `OInv` because the
two that touch the lock do it under `Unowned`.

### Automatic scans

`AutomaticScansProofs`, for any schedules, period and bounds (`AutomaticScansAssumption`):

| Theorem | States |
|---|---|
| `Invariance` | `Spec => []SInv` |
| `SingleTimerHolds` | `Spec => []SingleTimer` |
| `WatchedHolds` | `Spec => []Watched` |
| `NothingIsDropped` | `Spec => NothingDropped` |

`SInv == Types /\ Past /\ EnabledOnly /\ StoredIsSaved /\ OffIsOff /\ SingleTimer /\ Watched`. `Past` (no
pass is of a generation to come) makes the pass of a new generation the only live one. `Watched` needs
to know why a pass may end without arming a timer: because the schedule is off, which the live pass that
stores it was told (`OffIsOff`) unless one is being saved (`StoredIsSaved`). `NothingDropped` is an action
property and rests on a second invariant, `Kept`: the live pass and the timer carry the schedule of the
promise (`PassCarries`, `TimerCarries`), and as long as no superseded pass wrote last the stored cursor is
that schedule's, pending or no later than the promise (`CursorHolds`); so whoever takes it up after a
restart takes up the same occurrence or an earlier one.

### What is only model-checked

The liveness properties: `StartSettles`, `StopResolves` and `WaitersServed` of the scheduler, `StatusSettles` of the
updater, `ScanEnds` and `ClearResolves` of the scan service, `StaleReclaimed` of the writer ownership and `DuePassStarts` of
the automatic scans. They rest on fairness and `ENABLED`, which the prover does not handle. Every component
has a type invariant; the runs of the modules with other invariants that fail on a wrong type leave it out.

## 5. Not modelled, and why

- Logging, labels, validation and read paths; the arithmetic of calendars (weekly schedules, time zones, DST).
- Migrations: each runs in one transaction with its ledger row and `user_version`, so what a crash leaves is
  SQLite's promise, not this code's.
- Backup, recovery and retention: `restoreFromBackup` and `createEmptyDatabaseWithMarker` have no caller in the
  product yet; only `planRecovery`, which decides and changes nothing, is used.
- The insight enhancer, the distillation quota and skill distribution: small protocols that are next in the plan.
- The state broker, IPC and windows: request and response; their failures are steps of the models of their callers.
- Scanners of log formats, tool registry, pricing, reports, UI and packaging: parsing, generated data and
  presentation. They are most of the repository's lines, and no ordering of events is at stake in them, so the
  modelled share of all lines is small although most of the parts with a protocol are modelled.

`PROJECT.json` gives the reason for each component.

## 6. Plan

1. Done: `ResourceBudget`, `TaskRuntime`, `TaskScheduler`, `TaskDueness`; `LatestSnapshot`,
   `SnapshotCoordinator`; `WriterOwnership`, `DataReset`; `UpdateManager`; `SecurityScanner`, `AutomaticScans`;
   the proofs of the safety properties of all of them and of the refinement of `LatestSnapshot`.
2. Proofs that are left: the relation of the two halves of the scheduler (a run of `TaskDueness` starts when it is
   queued; that `TaskScheduler` hides behind it the dueness it leaves open), and an abstract
   specification of the scan service's history, of which `ClearedStaysGone` and `RecordsAreBacked` are parts.
3. `Recovery`, when the product calls it: set-aside and rename of a restore and the manifest, with a crash
   between any two file system calls. Abstract specification: at any time a complete database is reachable.
4. Smaller ones: the insight enhancer's single flight, the quota reservation at its
   limit, partial failure of `executeInstallPlan`, the schedule arithmetic as pure
   operators against a reference definition.
