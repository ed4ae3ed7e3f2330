# Formal models of the BMC software

TLA+ specifications of the parts of this repository in which an untested order
of steps does the most damage: how the software of the device is downloaded,
installed, upgraded, activated and collected, how the application drives that,
and how it starts, supervises and stops widgets and alarms. Every definition is
translated from the code; `PROJECT.json` maps each one to its lines. Paths below are relative to `src/`.

1. [The system](#1-the-system)
2. [Modules and the code](#2-modules-and-the-code)
3. [Runs](#3-runs)
4. [Proofs](#4-proofs)
5. [Where code and words disagree](#5-where-code-and-words-disagree)
6. [What is not modelled](#6-what-is-not-modelled)
7. [Plan](#7-plan)

## 1. The system

The device runs an OpenWrt firmware with a read-only root. Its software lives
in a Nix store on a data partition and is grouped into *profile generations*.
One application, `bmc`, owns display, widgets, LEDs, alarms, the network and the
web interface, and starts upgrades of packages (a new generation) and of the
firmware (an image handed to `sysupgrade`).

| Part | Code | State | Operations | What makes it hard |
|---|---|---|---|---|
| Store installation and wipe | `bmc-nix/src/store.rs`, `bin/cli.rs`, `mount.rs` | `nix`, `nix.tmp`, `nix.wiped`, `.init.lock` | init, wipe, mount | power loss around two renames, killed runs, two initializers |
| Init download | `bmc-nix/src/store/init_download.rs` | partial file, sidecar, retry budget | resume, verify, promote | crash between any two files, changed archive |
| Profile generations | `bmc-nix/src/profile.rs`, `bin/activation/write_boundary.rs` | `<N>-link`, `current` | build, publish, flip | tree durable before its name, flip inside a script that may fail |
| Activation | `bmc-nix/src/activation.rs`, `nix/pkgs/core/files/nix-activator` | `next.<version>` markers | activate by selector, at boot, revert, fall back | chained failures, two activators of different age |
| Profile upgrade | `bmc-nix/src/upgrade.rs`, `add_missing.rs`, `bmc-upgrade/src/packages.rs` | marker set, built generation | apply, stage, add missing, install a widget, discard | superseded stagings, cleanup after failure |
| Generation collection | `bmc-nix/src/gc.rs` | keep set, doomed generations | plan, remove, escalate | removing what `current` or a marker names |
| Service orchestrator | `bmc-nix/src/service_orchestrator.rs` | unit states | action plan | order of stop and start |
| Upgrade service | `bmc/src/system_upgrade.rs`, `bmc-upgrade/types/src/offer_slot.rs` | run gate, offer slot, run status, LED state, handoff file | check, start, automatic loop, widget upload | tasks that outlive requests, events behind direct writes |
| Widget pause | `bmc/src/system_upgrade/widget_pause.rs` | stage, operation in flight, acknowledgement | stop and restart widgets around a firmware run | late acknowledgements, overlapping runs, runs without an outcome |
| Periodic collection | `bmc/src/system_upgrade/periodic_gc.rs` | escalation flag | collect under the gate | removal without sweep |
| Boser observation | `bmc/src/system_upgrade/boser.rs` | execution, outage grace | project a managed product's upgrades | lost and replayed streams |
| Widget manager | `bmc/src/widget/manager.rs` | mode, children, permits, restart timers | start, stop, pause, resume, restart with backoff | exits and timers of replaced children, starts queued before a pause |
| Widget coordinator, scene edits, previews | `bmc/src/widget/coordinator.rs`, `bmc/src/web/grpc/scene_management.rs` | configuration, preview, scene locks, operations in progress | boot, reload, pause, resume, shut down, edit, preview | what was validated changes before it is used, receipts that time out |
| Compositor registrations | `bmc-openwrt/src/compositor/` | retained registrations, commands | register, activate, deactivate, unregister | commands applied after their sender gave up |
| Job scheduler, alarms | `bmc-scheduler/src/scheduler.rs`, `bmc/src/alarm.rs` | job table, ringing alarm, snoozes | schedule, cancel, ring, snooze, stop | removal against ringing, timezone change against cancel |
| LED coordinator | `bmc/src/led_coordinator.rs` | layers | show, clear | latest-wins output over a queue |

How they interact: `init` produces the store whose first generation the boot
activator makes `current`. Upgrades, widget uploads, activations and collections
work on one profile directory under one lock. The upgrade service serialises the
application's own use of them through its run gate, publishes each run to the
display, the LEDs and the widget pause, and, for a firmware run, does not
download before the pause reports that every widget is gone. A firmware run ends
in a reboot into the boot activator, on another firmware version, which is what
the `next.<version>` markers are for. The pause itself is an operation of the
widget coordinator: it and boots, reloads, edits and previews share one
configuration, one actor that owns the widget processes and one compositor.

What has to be right:

* a store, a generation or a marker that can be seen, now or after any power
  loss, is usable (whole store, runnable `current`, complete staged generation);
* what was reported (installed, applied, staged) stays, and what was superseded
  stays away;
* every boot ends with something running, the new generation or the old one;
* widgets are gone while a firmware image is in memory, come back unless the
  board reboots, and nothing else runs between the accepted image and the reboot;
* an offer runs once and the gate comes back;
* an instance has one process, none runs that the configuration does not show,
  and what is shown is served, whatever operations overlapped;
* a removed alarm is silent, a snoozed one rings again.

`PROJECT.json` lists all components, also those left out, and under `hazards`
each place in the code where one of these can go wrong.

## 2. Modules and the code

```
StoreInit                                  MCStoreInit     StoreInitProofs
InitDownload                               MCInitDownload  InitDownloadProofs
ProfileDir <- Activation <- ProfileGc <- Upgrade <- ProfileSystem
                                           MCProfile       ProfileProofs <- MarkerProofs
RunStatus <- WidgetPause <- UpgradeService <- UpgradeSystem
                                           MCUpgrade       UpgradeProofs <- PauseProofs
WidgetManager <- WidgetSupervision         MCWidgets       WidgetProofs
                 WidgetLifecycle (abstract, instantiated by WidgetSupervision)
WidgetManager <- Compositor <- WidgetCoordinator <- SceneEdits <- WidgetSystem
                                           MCWidgetSystem
JobScheduler <- Alarms                     MCAlarms        AlarmProofs
```

The arrows are `EXTENDS`; the `MC` modules are what TLC runs, the others on the
right hold theorems.

### StoreInit

`root` is the stage directory (three names, each absent or a tree that is whole
or not), `pc` where each initializer is, `lock` the holder of `.init.lock`.
The actions are the steps of `init_store` and `init_store_from_tarball` between
which something can happen: `AcquireLock`, `EnsureWipeUnmounted`,
`CleanStaleStaging`, `Download`, `PrepareStorePath` (the demoting rename),
`SyncDemotion`, `DiscardWiped`, `Unpack`, `UnpackDone`, `SyncTree`, `Promote`,
`SyncPromotion`; `AlreadyInitialized` is the early return of `cmd_init`. Any
step can fail (`FailEarly`, `FailStaged` with its cleanup, `FailDelete`, which
leaves a part of a tree), any process can be killed, `/nix` can be mounted.

**Power loss.** `disk` is the set of directories that may be on storage. The
partition is ext4 with an ordered journal: directory changes commit in order, so
every directory since the last `fsync` or `syncfs` is possible and nothing else
is. `Sync` leaves only the present one. File contents have no such order:
`flushed` tells whether the extracted files are durable, and a tree promoted
without it is possible whole or partial. `PowerLoss` picks from `disk`.

### ProfileDir, Activation, ProfileGc, Upgrade, ProfileSystem

`dir` holds what each generation contains, `current` and the marker of each
firmware version. A generation is `whole`, `bare` (complete but without an
executable entrypoint), `torn` or a `husk` (what an interrupted removal left,
with and without its entrypoint), or absent. `persisted` is to `dir` what `disk` is to `root`.
One operation at a time holds the profile lock; `pc`, `kind`, `mode` and the
variables after them are its locals. `acked`, `staged`, `retired` and `live` are
history: what was reported as applied or staged, what was superseded, which
entrypoint last ran to its end.

* *Activation*: `Enter` to `EntrypointSucceeds` and `EntrypointFails` are
  `activate_profile` with the entrypoint's `write-boundary` step (sync, flip,
  sync) inside; `ActivateSelected`, `ActivateNext` and `ResolveNext` the
  selectors of `activate`; `SweepOther` and `Consume*` the markers;
  `BootShell`, `ShellResolve`, `Restore`, `RestoreSync`, `Fallback` the shell
  activator that older firmware carries. A boot uses either.
* *Upgrade*: `Plan`, `SyncTree`, `Publish`, `PublishSync`, `SweepMarker`,
  `SweepSync`, `Stage`, `StageSync` are `apply_locked_profile_change` in its
  three modes, entered by `BeginApply`, `BeginWidget` and `BeginAddMissing`.
* *ProfileGc*: `Keep` is `generations_to_keep`; the removal takes one generation
  per step; `PlanDiscard`, `Discard` and `DiscardDone` are
  `discard_generations_above` after a failed widget installation.
* *ProfileSystem* adds boots into any firmware version, reboots, power losses,
  kills, the specification and the properties.

### RunStatus, WidgetPause, UpgradeService, UpgradeSystem

`gate` says what holds the run gate. Every client takes it with `try_lock`, so an
action that starts something has `gate = "free"` as its guard, and a refused
request changes nothing. `run` is the spawned task of a run, `chan` its event
channel, `forward` the task that projects the events onto `display`, the queue
`inbox` of the pause and `led`, and that owns the gate until the run is over or
parked before a reboot. The run's task writes `led` as well, directly, and the
model keeps both orders. `pause`, `reached`, `flight` and `ack` are the listener
of `widget_pause.rs`: `Step` is the transition on one snapshot, `Drained` what a
wake makes of everything queued, `Listen` the end of a wake, where an operation is
started or acknowledged. `mutex` is the operations mutex shared with widget
refreshes; `widgets` is the level the widgets are really at, which only the
operations change. `pending` is the handoff file for `sysupgrade` (`whole` while
its run lives, `stray` when that is over and the file is still there), and `auto`
the automatic loop with its retries.

UpgradeSystem composes the service and the listener with requests, restarts of
the application, restarts by the user (refused by `BlocksRestart`) and the
reboot that ends a firmware run.

### InitDownload

The download of the factory tarball that `StoreInit` has as the outcome
`Download`. A file is the sequence of its units, each the release it came from,
so that a partial file of one release continued with another can be told from a
good one. `run` holds the locals of `download_signed`: budget, streak, whether
resuming was refused, the body being received. `Answer` lets the server answer
anything the code tells apart (an error to retry, a refusal of the range, a 206
that fits or does not, a 200 with or without a length and an entity tag), and
`wronged` remembers when an answer was not that of an honest server of the
wanted release. Unlinking, writing and renaming the sidecar and the partial file
are steps of their own; `disk` and `flushed` are as in `StoreInit`.

### WidgetManager, WidgetSupervision, WidgetLifecycle

`children` is the actor's map (`none`, `running`, `stopping`, `pending` with the
token of its restart timer), `procs` the processes that really run, `internal`
the queue of exits and due timers, `spawns` the queue of starts. A command whose
sender waits for the reply is an operator that the sender's step contains
(`PrepareStart`, `Stop`, `Cutoff`, `Resume`, `RetryPending`); starts, exits and
timers are handled by `HandleSpawn`, `HandleExit` and `HandleRestartDue`.
WidgetSupervision lets clients send any command at any time. WidgetLifecycle is
what the manager promises, with processes and modes only; `KeepsPromise` is the
refinement, in which an instance is ending when its process runs and its entry is
`stopping`.

### Compositor, WidgetCoordinator, SceneEdits, WidgetSystem

`task` has an operation in progress for each caller: the boot and the reload task
(`reload`), the lifecycle of the upgrade service (`life`: pause, resume, reload
after a widget installation), an edit, a preview and the shutdown. Its `pc` is
the await it has reached; what the code does between two awaits is one step, and
a lock it keeps across an await is state (`lock` for the preview, `editing` for
the scene lock, `ConfigFree` and `ConfigReadable` for the configuration). A cutoff
has two halves, the compositor's command (`CutOff`) and the manager's
(`StopChild`), between which the locks are kept and everything that takes none
goes on: restart timers, exits, a pause, a shutdown. `SpawnStep` is
`spawn_configured_widget` with permit, activation, receipt, second validation and
answer; `LifeStep` a pause or a resume; `ReloadStep` a reload. The handlers of
SceneEdits start with their locked section and go on with the same steps. Save
and change are one step, since nobody sees the configuration between them. All
but `update_widget` run in the request of their client and end with it:
`SaveFails` has the client that hangs up during the save, `DropEdit` and
`DropPreview` the one that does so later.
`retained` and `commands` are the compositor's side: a command is applied some
time after it was sent, also when its sender stopped waiting.

`torn` marks scenes whose edit was not saved, or was dropped before or between the
halves of its cutoff; `unserved` widgets that a failed receipt, a start that was
superseded or a client that left early has given up on. The properties except them
where they say so.

### JobScheduler, Alarms

`jobs` is the table of the job library and `stored` its copy, from which jobs are
listed; `ListJobs` and `Relist` are the timezone listener, which lists all jobs and
then removes each and adds it again. `active`, `pending` and
`slot` are the maps and the slot of `AlarmScheduler`; `ringer` and `commander`
its two tasks, `sleepers` the tasks of snoozed alarms. The controller's
operations (`AddAlarm`, `SetAlarm`, `RemoveAlarm`, `SetEnabled`, `SwitchOff`)
hold the configuration lock and go through `Delist`, `Cancel`, `Drop`,
`ScheduleAlarm`, `Enlist` and `Save`, any of which may fail with its rollback.
`HangUp` drops a client's operation at any of its awaits; the listener's own
(`op.client` is false) runs in a task and cannot be dropped. The application may
start with alarms that it failed to schedule.

## 3. Runs

| Run | Instance | Shows |
|---|---|---|
| `store_init` | 2 initializers, 2 tarballs, 2 faults or kills, 1 power loss | `VisibleStoreIsWhole`: no partly extracted or partly deleted tree is ever named `nix`, on any possible image of the disk. `InstalledStays`: a store reported as installed is there after a power loss, until a wipe begins. `LockIsReleased`: no path keeps the init lock. |
| `profile` | 2 firmware versions, 3 generations, keep 1, 1 fault or kill, 1 power loss | `CurrentRunnable`, `StagedIsComplete`: what `current` and the markers name is usable on every possible image. `ReportedStaysApplied`, `StagedStays`, `RetiredStaysAway`: reported and superseded upgrades. `CleanBootActivates`, `FailedBootFallsBack`: where a boot ends. `AddMissingKeepsStaged`. |
| `profile_live` | 1 version, 2 generations, 1 fault, 1 power loss | `OperationsEnd`: every operation, boots included, ends and drops the lock. |
| `upgrade` | 3 manual runs, 3 offers, widget uploads, 1 dying task, 1 restart | `ImageHasTheMemory`: widgets are gone from the first byte of an image until its run ends. `DownloadIsNotWasted`, `HandoffIsOwn`, `OfferRunsOnce`. |
| `upgrade_auto` | 2 runs, 1 offer, manual and automatic clients, 2 attempts | `OffersPredateNoRun`: no offer made before a run can be claimed after it. |
| `upgrade_live` | 2 runs, 2 offers, widget uploads, periodic collection, 1 dying task | `GateComesBack`, `WidgetsComeBack`. |
| `flash_cut` | 2 manual runs | Ends with a counterexample: section 5. |
| `widgets` | 1 instance, 2 builds, 2 callers, delays 1 and 2 | `QuietUnlessRunning`, `JoinedIsGone`: a pause leaves nothing, and whoever joined a child finds it gone. `RungIsKept`, `RestartWaits`: the ladder of delays. `KeepsPromise`: the manager implements WidgetLifecycle, liveness included. |
| `widget_system` | 1 widget, 2 symmetric builds, 3 requests, 1 fault; hang-ups of clients are not bounded | `NoStray`, `AcceptsShown`: nothing runs or is accepted that the configuration does not show. `DarkUnlessRunning`: a pause or a shutdown leaves nothing accepted. `Served`: what is shown is served when all is settled. `StartsAccepted`: the compositor accepts before a process starts. |
| `widget_system_live` | 2 widgets for 1 place, 2 requests | `WithinLimit`, `OperationsEnd`: no operation waits for ever, locks included. |
| `init_download` | 2 releases of 2 and 3 units, 2 runs, 1 new release, 1 kill or power loss | `FinalIsWhole`, `LeftoversDoNoHarm`, `BlipsKeepThePartial`: what a run leaves neither hurts nor is lost. `DownloadEnds`: no server keeps a run going. |
| `alarms` | a daily and a one-shot alarm, 1 snooze, 4 inputs | `WithdrawnIsSilent`, `ScheduleMatchesConfig`, `OneShotIsSpent`, `SnoozeReturns`. |

Each property has a mutant in `PROJECT.json`: a definition with a plausible slip
(a dropped sync, a guard or a reset left out) for which TLC finds the property
violated. The type invariants of StoreInit, ProfileSystem and WidgetSupervision
are proved (section 4); those of UpgradeSystem and WidgetSystem hold on the
instances of `upgrade` and `widget_system` and can be added to their
configurations.

**Bounds.** Two initializers suffice for every pair of steps to interleave, since
the lock admits one at a time and the steps outside it are a check and a mount.
One power loss is enough to see every image, and runs after it show recovery;
two faults let one run fail in the cleanup of another. Three generations give a
collection that has one to keep for `current`, one for a marker and one to
remove; two versions give a marker that is not the running firmware's. Three
upgrade runs let a failed firmware run, its recovery and a second firmware run
overlap with a third. The manager's entries share only the mode and the
queues, so one instance shows the races of commands, exits and timers, and the
safety properties of `widgets` are proved for any number; its permits and tokens are the least ones not
in use, since only whether two are equal matters. In the composition one widget
and three requests give every triple of operations that overlap, with a boot
under way; two widgets are needed only where they compete, for a place and for
locks. Builds are only compared for equality, so that they are symmetric there.
`MaxInternal` holds back timers, not exits. Releases of different length
tell a mixture from either; four inputs suffice for a firing, a snooze or tap, an
edit and a failure or a new timezone. An event queue is as long as the code makes it, only
progress reports are held back while `MaxChan` events wait. Ages
(`keep_days`, protected generations) enter as an arbitrary set of generations to
keep, and all deadlines (30 s grace, 1 min pause timeout, backoff) as events that
may happen at any time.

**Fairness.** `StoreInit`: a process that can go on does; blocking on the lock
is not progress it can make. `ProfileSystem`: the process that holds the lock runs. `UpgradeSystem`:
spawned tasks run, and what they await ends, downloads by their idle timeout,
`sysupgrade` and the backend by their exit. `InitDownload`: every await of a run
ends, by its idle timeout. `WidgetSupervision`, `WidgetSystem`: the actor runs,
and its `select!`, which is not biased, starves neither commands nor internal
messages; tasks run; the compositor takes its commands; a process told to stop
ends, by `SIGKILL` at the latest. `Alarms`: its tasks run and sleeps end. The operations mutex of the widget lifecycle is
a tokio mutex, which queues its waiters in order, so a waiting operation has
strong fairness. Requests, restarts, faults, timeouts and power losses have none.
The runs for safety use no fairness at all.

## 4. Proofs

All theorems hold for every value of the constants: any number of initializers,
tarballs, releases, versions, generations, offers, runs, attempts, restarts,
widget instances, builds, callers, processes and alarms, and any bounds. Every
safety and action property of the runs is proved but those of the composition of
the widgets.

`StoreInitProofs`

* `TypeCorrect`: `Spec => []TypeOK`.
* `InstallationIsSafe`: `Spec => []VisibleStoreIsWhole`, and `InstalledIsKept`:
  `Spec => []InstalledStays`.
  Neither is inductive: a promotion is safe because of what its run did before.
  The invariant `IInv` adds that whoever is past the lock holds it
  (`LockDiscipline`), that the staging tree and the trusted name are what the
  holder's step implies (`StagingFollowsHolder`: whole when unpacked, flushed
  when synced, nothing named `nix` until it is promoted), and that the present
  directory is one of the possible images (`NowIsOnDisk`).

`ProfileProofs`

* `TypeCorrect`, along lemmas about the updates of a directory and about `Latest`.
* `CurrentAlwaysRuns`: `Spec => []CurrentRunnable`. The invariant `CInv` adds
  that the generation about to be flipped to, and the one a failure goes back to,
  run (`TargetRuns`, `OldRuns`), that a collection or discard under way does not
  aim at `current` (`CurrentSpared`), and that a build publishes under a free
  number (`BuiltIsNew`). `SafeChange`, `SafeRemoval` and `SafeCurrent` say once
  which directory changes are harmless; the step lemmas cite them.
* `ReportedAlwaysApplied`: `Spec => []ReportedStaysApplied`, with `Flipped`
  (`current` names the target after the rename, on every image after the
  `fsync`) and `Snapshot` (the shell activator goes back to what `current` was).

`MarkerProofs`

* `StagedAlwaysComplete` (`StagedIsComplete`), `StagedAlwaysStays`
  (`StagedStays`), `RetiredNeverReturns` (`RetiredStaysAway`), and as properties of
  steps `AddMissingIsHarmless` (`AddMissingKeepsStaged`), `CleanBootsActivate`
  (`CleanBootActivates`) and `FailedBootsFallBack` (`FailedBootFallsBack`).

The invariant `MInv` joins the first three with what makes them inductive: which
steps each kind of operation goes through (`KindFollows`); that no image of the
disk has two markers (`OneMarker`), which is what lets a sweep of the present
markers retire all of them; that the generation about to be staged is complete and
new (`BuiltIsStageable`, `StageFollows`); that neither a collection nor a discard
aims at a marked generation (`MarkedSpared`), and here the floor of a discard
matters, which is not below any marker while a widget is installed;
that a boot consumes the marker it read (`MarkerIsTaken`); and that
`add_missing_packages` goes on only while nothing is staged (`NothingToLose`). The
two properties of boots need `BootFollows` as well: what a boot remembers as the
previous generation is what `current` was, and every detour it takes costs one of
the mishaps that the properties count.

`WidgetProofs`

* `TypeCorrect`, `CutoffIsQuiet` (`QuietUnlessRunning`), `JoinMeansGone`
  (`JoinedIsGone`), `LadderOnlyClimbs` (`RungIsKept`), `RestartsAwaitTheirTimer`
  (`RestartWaits`), and `ExitsBelong`: the assertion in `handle_exit` never fires.
* `ManagerKeepsPromise`: the manager implements the safety part of
  WidgetLifecycle, `Spec => Promise!Init /\ [][Promise!Next]_(Promise!vars)`.

All of them follow from one invariant. `Owned` says that a process belongs to the
entry that names it, that an exit in the queue is the only one of its instance,
that its process has ended and its entry still waits for it; without it the exit
of an old child could be taken for a new one's. `TimersFresh` says that no message
in the queue carries the token of a timer that has not fired, which is what makes
`Awaited` reject every late timer; it needs `FreshTokenIsFresh`, that among as many
tokens as there are messages and two more one is unused (by the pigeonhole
principle). `ShiftSafe`, `LeaveSafe`, `LaunchSafe` and `AppendSafe` say once which
changes of entries and queue are harmless. The refinement has one case per action:
a launch is a `Start`, a stop of a running child a `Stop`, a pause or shutdown a
`Cutoff`, and handling an exit or a timer without a launch changes nothing the
promise speaks of.

`UpgradeProofs`

* `NoOfferDuringRun` (`OffersPredateNoRun`), `OffersRunOnce` (`OfferRunsOnce`),
  `DownloadsGoOn` (`DownloadIsNotWasted`), `HandoffsAreOwn` (`HandoffIsOwn`), and
  `RebootEndsTheRun`: `NothingBeforeReboot`, from the accepted image until the
  reboot the gate is held.

The invariant `UInv` adds four parts to the types. `GateOwned` ties the gate to
whoever holds it, the forwarder while a run lives and the automatic loop while it
prepares one; without it a second run could be dispatched over the first.
`SlotFresh` says that the slot is empty while a run holds the gate or is about to,
and that an id in it was given and has not run. `StreamFollows` says which events
may still be queued behind each step of the run's task, and what the forwarder
showed last: behind a download only phases and progress, each of which leaves a
state that blocks a restart, and behind an accepted image the phase that makes the
forwarder park. `HandoffFollows` says that a complete handoff belongs to the run
past its verification; what a failed removal, a dead task or a restart leaves is
`stray`. `NewProcessSafe` covers all restarts at once, and `TaskRuns`,
`TaskGoesOn` and `TaskEnds` say once what a step of a run may do to the stream.

`PauseProofs`

* `MemoryIsFree`: `Spec => []ImageHasTheMemory`, on top of `UInv`.

A wake of the listener folds `Step` over its whole queue. `DrainsExists` shows that
the fold is defined for every queue, `DrainedIn` that it does not leave a set of
pauses which no snapshot of the queue leaves, `DrainedLast` that it ends with what
the last snapshot does. They argue by the least position at which the claim fails
(`LeastNumber`, from the well-foundedness of `<`), since the induction theorems of
the library cannot be instantiated. The invariant `PInv` says that generations are
given in order (`PauseTyped`); that without an operation in flight the widgets are
where the pause wants them, and that only then a generation is acknowledged
(`ListenerFollows`); that the forwarder shows the run of its gate (`ShownIsRun`);
and that the newest word on a firmware run that waits or has its image, read or
still queued, is that it goes on (`PauseFollows`). The last part is what a late
snapshot of an earlier run or a lapsing grace would break.

`InitDownloadProofs`

* `FinalTarballIsWhole` (`FinalIsWhole`), `LeftoversAreHarmless`
  (`LeftoversDoNoHarm`), and `BlipsAreHarmless` (`BlipsKeepThePartial`), all from
  `DownloadInvariant`.

The invariant `DInv` has a part about the disk (`DiskOK`: every image has a whole
tarball under the final name or none, a promoted one is there under one of its two
names, and no sidecar has the tag of another release than the first unit) and one about the run: the entity tag and the sidecar
that a request relies on are those on disk (`TagsFollow`, `SidecarFollows`), a body
continues the partial where it ends (`BodyFollows`), and unless the server gave a
reason a partial is a prefix of the wanted release until it is verified
(`PartFollows`, `PromotionFollows`).

`AlarmProofs`

* `RemovedAlarmIsSilent` (`WithdrawnIsSilent`), `ScheduleFollowsConfig`
  (`ScheduleMatchesConfig`) and `SpentAlarmIsOff` (`OneShotIsSpent`), all from
  `AlarmInvariant`.

The invariant `AInv` says of the jobs that an id stands for one job, and that the
id which `active_alarms` or an operation holds is a job of that alarm and not one
the timezone listener is about to bring back
(`JobsFollow`), so that a relisted job cannot be cancelled in place of another; of
the schedule, for each step of an operation, what is already undone or done
(`ScheduleFollows`); of ringing, that an alarm that is no longer scheduled and
rings, waits for its snooze or is about to be snoozed has its `Stop` in the queue
(`StopFollows`); and of one-shot alarms, that one that rang to its end and is still
on has its end announced, or is being switched off (`SpentFollows`). New job and
sleeper numbers are the least unused ones; `FreshNumber` shows that there is one.

The assumptions are those of the modules: bounds are natural numbers, `MaxGen` is
positive, `None`, `Nothing`, `NoBuild` and `Unknown` are not members of the sets they
complement; there is a process id, delays are positive and the ladder of
delays does not end below its start; a release has a unit at least; the alarms are
finitely many.

Only model-checked: liveness, which needs fairness and `ENABLED` (`LockIsReleased`,
`OperationsEnd`, `GateComesBack`, `WidgetsComeBack`, `DownloadEnds`,
`SnoozeReturns` and the liveness part of `KeepsPromise`), and the properties of the
composition of the widgets (`widget_system`, `widget_system_live`), whose
invariant has to follow the operation of each caller through every await.

## 5. Where code and words disagree

`flash_cut` is a run that TLC ends with a counterexample, and `PROJECT.json` quotes
both sides: from the end of the download until the forwarder shows the flash, the
state says `DownloadFinished`, in which a restart is allowed.

The others are properties that a comment or a document states and the code does
not keep. They stand in the modules, and TLC finds each violated when it is added
to the configuration named here:

* `NoWipeUnderMount` (`MCStoreInit.cfg`): `/nix` is checked once at the start of
  `init --wipe`; a mount made after it does not stop the demotion and deletion of
  the store.
* `DeletedOnlyOnceDemotionIsDurable` (`MCStoreInit.cfg`): a wipe killed between the
  demoting rename and its `fsync` leaves `nix.wiped` to the next run, which deletes
  it while the disk may still call it `nix`.
* `BootFallsBack` (`MCProfile.cfg`): a staged generation without an entrypoint ends
  the activator with an error before it tries `current`, at every boot.
* `ApplyInvalidatesStaged` (`MCProfile.cfg`): markers are swept after planning and
  building, so an apply that fails there leaves an older staging in place.
* `GateHeldThroughRecovery` (`MCUpgrade.cfg`): the gate of a failed firmware run is
  free while its widgets are still being restarted. `ImageHasTheMemory` shows that
  the next run copes.

In the widgets the models record three windows and the properties except them:

* an edit whose save fails, or whose client hangs up while it is saved, has changed
  the configuration and stops or starts nothing; one that is dropped between the
  halves of a cutoff leaves a widget that runs without being accepted (`torn`). Such
  a widget is also counted by nobody, which is why `WithinLimit` speaks of systems
  in which no edit was torn;
* an edit that enables or adds a widget, and whose client hangs up before the start,
  leaves it shown and not running until the next edit or reload (`unserved`);
* a restart timer, or a start sent before, that is handled between the halves of a
  cutoff starts a process which the compositor turns away and the second half stops (`BeingStopped` in
  `NoStray` and `StartsAccepted`).

In the alarms, which no document describes in this detail, they record four more:

* an alarm removed between the handle's check and the moment its firing fills the
  slot rings although it is gone (`slipped` in `WithdrawnIsSilent`);
* a job cancelled while the timezone listener works through its list is added
  again, and a job the listener removed and could not add again is gone (`revived`
  and `lost` in `ScheduleMatchesConfig`);
* an operation that fails, or whose client hangs up, after it took its alarm off the
  schedule leaves an alarm that the configuration has as on and that is not
  scheduled, or a job that could not be cancelled; an alarm the application failed
  to schedule at its start is on and not scheduled (`torn`);
* a sleeper that wakes late removes the entry of a newer snooze of the same alarm;
  `SnoozeReturns` shows that the newer one still rings.

In the download, with a second release published and withdrawn again (a server
that goes from one release to another and back), a 206 of the other release leaves
its length in the sidecar of the first. The next run then refuses to resume, since
the 206 it gets has another length, and starts over although nothing is wrong with
its partial.
`BlipsKeepThePartial` speaks of sidecars that give no other length, and
`LeftoversDoNoHarm` shows that the run still succeeds.

Met while modelling and not kept as runs: `cmd_init` reports success for a store
that a killed run promoted and never synced; `activate_profile` has nothing to
restore when no `current` existed, although `docs/devel/upgrades.md` says it
removes it; a handoff whose write fails halfway stays on the tmpfs (`pending =
"torn"`), and a complete one stays when its removal fails, its run's task dies in
`sysupgrade` or the application restarts (`pending = "stray"`): a later run that
installs nothing would then hand it over. `HandoffIsOwn` says that these are the
only ways.

## 6. What is not modelled

Inside the modelled parts:

* An entrypoint is killed together with the process that runs it, although a
  `SIGKILL` of `bmc-nix-cli` alone would leave it running without the lock; a
  boot is not killed and excludes other operations.
* What an entrypoint's scripts do before `write-boundary` is an outcome.
  Quarantine of markers that are not symlinks, leftover `*.tmp` links and the
  timeout of the profile lock are left out.
* The contents of the Nix store, and its sweep behind a removed generation.
* What is in an offer besides its kind and whether it installs widgets; sizes and
  byte counts; the schedules of automatic upgrades and of the periodic
  collection.
* `PauseTimesOut` stands for every way the wait for the pause fails. A
  `sysupgrade` that survives a restart of the application is not followed:
  `ImageHasTheMemory` is about the runs of the living process.
* Snapshots with status `rebooting` come from the Boser observation only.
* Removals that a collection leaves unswept are a flag of the periodic collection
  (`escalate`); what a sweep frees is not modelled.
* InitDownload: time (delays are a budget), redirects, and the wording of headers;
  a unit of a file stands for any number of bytes.
* WidgetManager: what a child prints and how long it ran (healthy or not is an
  outcome), and the environment it is started with. A `wait` or a `SIGKILL` that the
  system refuses, after which `run_child` and `graceful_stop` report an exit of a
  process that may still run, is left out: `ProcessEnds` takes the process away.
* WidgetCoordinator: a scene has one widget; settings, parameters and credentials
  that are pushed to running widgets, the cycling of scenes and LED scenes are left
  out. Placement is a shape with two values. The compositor's thread does not die,
  which is the only way an enqueued command is refused: `Activate` and the cutoffs
  have no branch for it. A clone of a widget whose type is not installed, which
  registers nothing, is left out.
* WidgetSystem and UpgradeSystem are not composed: `widgets` of WidgetPause is the
  level that `Pause` and `BeginResume` reach, and the composition would be far
  larger than either.
* Alarms: the time of the next alarm, sounds, and a lagging broadcast channel; the
  bounds keep both channels below their capacity.

Not modelled at all, and why:

* *Network backends, hardware drivers, web and gRPC handlers*: input and output
  around the parts above, no protocol of their own.
* *Package index, manifests, signatures, firmware download, activation hooks,
  configuration and secrets*: sequential work on documents or files whose result
  enters the models as an outcome.
* *Boser observation*: another producer of snapshots for the widget pause, next in
  the plan. *Service orchestrator*, *LED coordinator*: in the plan.
* *Rendering, WASM host, frontend, widgets, mocks*: drawing and content; of the
  compositor only the registrations are modelled.
* *Provisioning and initial setup*: their flags live in shell helpers of the
  firmware image, which is not in this repository.

## 7. Plan

In this order:

1. `ManagedUpgrade`: the Boser projection (`boser.rs`) as another producer for
   `WidgetPause`, with lost and replayed streams; `ImageHasTheMemory` and
   `WidgetsComeBack` for it.
2. `ServiceOrchestrator`: `build_action_plan` as a function, checked against what
   each service must see; the LED coordinator if it earns a run.
3. An abstract profile (`applied` and `staged`, changed atomically) that
   `ProfileSystem` implements under a refinement mapping from `acked` and
   `staged`.
4. WidgetSystem as an implementation of the two levels WidgetPause knows, so that
   `widgets` there becomes a refinement.

Theorems to come: the safety properties of WidgetSystem, and the refinement of
item 3.
