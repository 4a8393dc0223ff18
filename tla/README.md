# Verification of Cloud Mounter

TLA+ models of the COSMIC applet that mounts cloud storage and keeps offline
mirrors with rclone, the TLC configurations that check them on small instances,
and TLAPS proofs of what matters most for every instance. Paths are relative to
`src/`; the Rust code is in `src/src/`.

## 1. The system

Two processes and a timer work on the same machine. The *applet* owns the popup
and everything that runs on its behalf; a *Settings window* edits connections and
hands operations to the applet over D-Bus; for every offline mirror a systemd
timer starts a *worker process*. Below them are systemd user services, rclone or
onedriver, NetworkManager and logind.

| Component | State it keeps | Operations | Talks to |
|---|---|---|---|
| bisync coordinator (`bisync_coordinator.rs`) | `operation.lock` (flock), `state.json`, the markers `initial-preview-confirmable` and `initial-sync-complete`, dated recovery directories | `run_saved`, `run_plan`, `run_transaction`, `prepare_recovery`, `cleanup_retention` | process runner, sync planning, configuration |
| bisync worker (`bisync_worker.rs`) | none; one process per timer activation | `run` with mode Scheduled | coordinator |
| offline coordinator (`offline_coordinator.rs`) | the format of `state.json`; cancellation token, completion flag and `Notify` of an operation | `write_state`, `read_state`, `finish`, `cancel_and_wait` | coordinator, applet |
| process runner (`process.rs`) | child process and its group | run with retries, timeout, cancellation | everything that runs commands |
| mirror control (`app.rs`) | pending operations, their controls, pending repairs | Preview, Sync, Pause, Resume, Repair, completion | coordinator, systemd, VPN |
| update loop (`app.rs`) | cached unit observation, waiting requests, armed Repair, routed operations | observe, decide, replay, complete | everything |
| runtime IPC (`runtime_ipc.rs`, `main.rs`) | one owner on D-Bus | route requests, poll completions | Settings window, applet |
| mount control (`app.rs`) | online operations in flight | Mount, Unmount, Repair, restore after wake | systemd, mountinfo, VPN, sleep |
| sleep and wake (`sleep.rs`) | online gate, inhibitor, clean-up, list of mounts to restore | prepare, clean up, release, wake | logind, mount control |
| warm-up (`directory_preload.rs`, `rclone_refresh.rs`, `preload_report.rs`) | registry of preloads, map of pending jobs | start, monitor, cancel | mount control, sleep |
| VPN (`vpn.rs`, `app.rs`) | activation mutex per profile, marks of activated profiles, finite users | ensure, use, release | mounts, mirrors |
| systemd units (`services.rs`) | unit files and the marker that makes them ours | install with rollback, remove, retire, start, stop | applet, Settings |
| configuration (`config.rs`, `model.rs`) | the saved document | load, migrate, validate, change, save | both processes |
| editor (`app.rs`, `app/editor_actions.rs`, `providers.rs`) | draft, running action, verdict of Test | edit, Connect, Test, Save, cancel | rclone, configuration, units |
| remote setup (`app.rs`, `app/sftp.rs`, `sharepoint_setup.rs`, `onedrive.rs`, `microsoft_oauth.rs`) | sections of `rclone.conf`, the login of onedriver | create, update, verify, roll back, delete | rclone, onedriver |
| import (`import.rs`) | previews of the services found | scan, confirm | configuration, units |
| controller (`controller.rs`), sync planning (`sync.rs`) | none; pure | status, offered operations, plan, work directory | applet, coordinator |
| popup views (`app.rs`, `mounts.rs`, `pending_count.rs`) | mount table, counts and polls under way | inspect, poll, accept or drop a result | applet, worker, controller |
| mirror access and script, diagnostics, texts | none that authorises anything | observe, report | applet |

How they interact: the popup decides from a cached observation which operations
it offers. Preview and Sync run `run_saved` inside the applet process; the timer
starts worker processes that run the same function. The two exclude each other by
the flock and by the word `Running` in `state.json`. Pause, Resume and Repair talk
to systemd and write `state.json` without the lock, but for the claim of Repair. rclone
runs in a process group of its own and outlives a killed parent: then only that `Running`
keeps the next run away from it. Both processes read and write the whole
configuration document without a lock and install units in tasks of their own.
Sleep closes a gate that every mount, unmount and warm-up registers with.

What is hard, and what makes each part correct:

- **Coordinator.** Two processes, kills between any two file writes, edits of the
  saved connection while a run is in flight, and three operations that write its state file
  past it. One engine at a time, after a crash as long as `Running` stands; `--resync` only
  for a target whose dry run was shown; markers that vouch for a verified baseline of their
  own target; no return path that leaves `Running` or the lock behind.
- **Mirror control.** Overlapping operations, a worker, a Repair, writes that fail and the
  death of either process in any order, over unsynchronised writes of one file. Runs stay
  exclusive; nothing runs under the claim of Repair; a `Running` that nobody will replace
  has a death or a lost write behind it; Repair and operations end.
- **Cancelling.** A flag and a notification on two threads, over processes with
  descendants that ignore SIGTERM. No wake-up is lost, the answer is never stale,
  and "it has ended" means that no process of it is left.
- **Update loop.** Observations overtake each other, requests wait for a fresh
  one, a second window presses too. Operations start on a fresh view only, Repair
  only when confirmed, and whoever asked over the bus is answered.
- **Recovery days.** Two connections may share a recovery root but not a lock;
  runs cross midnight; removals stop half-way. Nothing is removed too early and
  nothing that belongs to the user.
- **Mounts and sleep.** The host may announce sleep between any two awaits of a
  mount, and a clean-up reads mount table and service one after the other. A clean-up
  reported as complete is complete when the host suspends, it never overtakes an operation,
  and the gate opens again.
- **Units and document.** Calls fail before or after their effect, rollbacks fail,
  the user puts files of his own in place of ours. Those survive; document and
  units agree unless a failure was reported.
- **Editor.** Answers arrive after the draft changed, sign-ins are cancelled, the
  remote disappears. Only what was tested is saved, and the drive a mirror is bound
  to never changes.
- **Remote setup.** A setup is a chain of rclone commands that fail before or after
  they wrote, or exit with success and wrote nothing, while another window works on the same
  file. Nothing that the applet did not create is taken away, and what is reported is what
  is there, where the setup looks.
- **Document and import.** Whole documents are read, changed and written back by
  several processes; a service is replaced by what was understood of it. An operation
  applies to the document in the file, trees stay apart, an import means what the
  old service meant.
- **Popup views.** Results of polls and inspections arrive after what they describe
  has ended. A count belongs to the run it is shown for.
- **VPN.** Several users of one tunnel, and a release that looks before it leaps.

`PROJECT.json` lists the hazards at their lines, and for each the properties
that would catch it going wrong.

## 2. Modules

| Module | Models | Proofs | TLC |
|---|---|---|---|
| `BisyncCoordinator` | the transaction of one connection | `BisyncCoordinatorProofs` | `MCBisyncCoordinator` |
| `OfflineControl` | Pause, Resume, Repair, requests and the popup of one mirror | `OfflineControlProofs` | `MCOfflineControl` |
| `ManualOperationControl` | `cancel_and_wait` and `finish`, load by load | `OfflineControlProofs` | through `MCCommandRun` |
| `OperationJoin` | the promise of `ManualOperationControl` (abstract) | | |
| `CommandRun` | the process runner, composed with `ManualOperationControl` | `OfflineControlProofs` | `MCCommandRun` |
| `RecoveryRetention` | recovery directories and their cleanup | `StorageProofs` | `MCRecoveryRetention` |
| `MountWarmup` | preload and refresh jobs of a mount | through `AppletProofs` | through `MCOnlineMount` |
| `OnlineMount` | one online mount, its warm-ups and system sleep | `AppletProofs` | `MCOnlineMount` |
| `UnitController` | install and remove of unit files | through `ConnectionLifecycleProofs` | through `MCConnectionLifecycle` |
| `ConnectionLifecycle` | document, units and the tasks that change both | `ConnectionLifecycleProofs` | `MCConnectionLifecycle` |
| `AppletRuntime` | observation, decision, confirmation and routing | `AppletProofs` | `MCAppletRuntime` |
| `PopupView` | what the popup shows and offers for every kind of row | `PopupViewProofs` | `MCPopupView` |
| `ConnectionEditor` | the editor window of one connection | `ConnectionEditorProofs` | `MCConnectionEditor` |
| `RemoteSetup` | setup, verification, rollback and deletion of remotes | `RemoteSetupProofs` | `MCRemoteSetup` |
| `LegacyImport` | what is read from a command line and what it means | `StorageProofs` | through `MCConfigDocument` |
| `ConfigDocument` | the document shared by the processes, import included | `StorageProofs` | `MCConfigDocument` |
| `VpnSharing` | one tunnel and its users | | `MCVpnSharing` |

`CommandRun` extends `ManualOperationControl`, `OnlineMount` extends `MountWarmup`,
`ConnectionLifecycle` extends `UnitController` and `ConfigDocument` extends
`LegacyImport`: each of these compositions has the actions of both parts over
common variables.

Operators whose comment starts with "Mutant of" are deliberate defects. No
specification uses them; each shows that some property would notice the defect.

### BisyncCoordinator

State: the lock holder, `state.json` (operation and state), the two marker files per work
directory, the saved binding and its enabled flag, and for every caller its stage, mode, loaded
binding, result and cancellation token. `orphans` are killed callers whose rclone lives on.
`others` are the Pause, Resume and Repair between their `Running` and their result, reduced to
what they write; the constant `Unlocked` says which of them an instance has. `uncovered` remembers
the open runs and orphans whose `Running` such a write has replaced, `lost` that a result of the
present state will not come. `previewed`, `based` and `verified` are history variables: they
record what rclone really did, against which the markers are judged. A binding (remote, subpath,
local path) is one model value. The work directory is a function of the binding for Teams and
rclone OneDrive and a single value for every other provider, as in `rclone_bisync_plan_inner`.

| Action | Code |
|---|---|
| `RequestManual` | `rclone_bisync_mode` picks the mode from the marker of the captured connection |
| `StartWorker` | the service starts `bisync_worker::run` |
| `LoadSaved` | `run_saved` reloads the configuration |
| `Acquire` | non-blocking flock |
| `Guard`, `CheckState` | `validate_mode_markers`, path and binding guards, refusal of `Running` |
| `PublishRunning`, `EarlyReturn` | first write of the state; all errors before it |
| `PrepareAccess`, `RunBisync`, `Verify` | remote marker and recovery; rclone bisync; convergence pass and checksum check |
| `WriteMarker`, `RemovePreviewMarker` | the two marker writes at the end, separate because a kill may fall between |
| `FailTransaction` | any error or cancellation inside the transaction |
| `PublishResult`, `ResultNotWritten`, `Release` | result, a failed write of it, drop of the lock |
| `TrackedBegin`, `TrackedEnd` | Pause or Resume writes `Running` and its result (`run_tracked_offline_operation`) |
| `RepairClaim`, `RepairResult` | Repair writes `Running` under the lock, `Paused` or `Failed` without |
| `OtherUnwritten` | the result of one of these cannot be written |
| `AppletDies`, `WorkerDies`, `OrphanExit` | death of the applet (all manual runs and others) or of a worker; the end of a surviving rclone |
| `Save`, `Disable` | edits of the saved connection, with removal of the old Teams markers |

### OfflineControl

One mirror as the applet controls it. A coordinator run is reduced to what others
see of it: admitted under the lock (`Admit`), `Running` published (`Publish`),
result published (`Result`) or not (`ResultUnwritten`), lock dropped (`Unlock`). Pause and Resume
(`TrackedBegin` .. `TrackedResult`) follow `run_tracked_offline_operation`, one
action per await point. Repair follows `execute_coordinated_offline_repair`:
timer off, cancel, wait, service off, claim of the coordinator, result, message.
`Observe` is the unit observation; `Offered` and `MirrorStatus` are the
controller's decision. `Manual` are the operations in flight: `Request` replaces the control
of the one before, as the popup does. `Write` and `Unwritten` are a write of the state file
and one that fails; `by` is the operation the file names, and `lost` remembers that who owed
the next write has died or failed. `AppletDies` ends all tasks of that process, `WorkerDies`
the worker's alone.

### ManualOperationControl and OperationJoin

Every load, store and call of `cancel_and_wait` and `finish` is a step. tokio's
`Notify` is external: `notified()` remembers the number of `notify_waiters` calls
and becomes ready when that number has changed. Flag and notification are
modelled as sequentially consistent, which is enough here: the finisher only
stores and then notifies, the waiter registers and then loads, so no thread reads
past a pending write of its own. `OperationJoin` states the promise in three
words: in, late, answered. `OfflineControl` takes the wait of Repair as a single
step (`RepairWaited`, or a timeout in `RepairFail`), which this refinement
justifies.

### RecoveryRetention

Days are numbers: `strict_day` admits only names of equal length, so their string
order is their date order. A file records who put it there and when. `Begin`
computes the day, `Validate` is `validate_local_owner`, `StageMarker` and
`PublishMarker` are the two halves of `write_atomic`, `Backup` is rclone moving a
file to `--backup-dir`, and the cleanup computes its cutoff (`BeginCleanup`),
checks a marker (`FindExpired`) and removes (`Delete`, `DeletePartly`) in
separate steps. The connections share the root, which `config.rs` refuses only
for rclone OneDrive; the remote root has the connection id in its path and is the
instance with one connection.

### CommandRun

Extends `ManualOperationControl` by the command that the operation waits for: a
child in its own process group, a descendant it may leave behind, and their
temper on signals. `Spawn`, `Complete`, `Interrupt` (cancelled or timed out),
`Escalate`, `Terminated` and `Retry` are the stages of `run_with_retries`,
`run_once` and `terminate_command_tree`; `ChildStep` is what processes do by
themselves. `finish` is reached only when the runner has returned.

### OnlineMount and MountWarmup

The tasks of the applet (`Request` .. `Completed`) follow
`run_managed_rclone_online_mount_operation_result_inner`, its onedriver
counterpart and `run_online_mount_repair_operation_result` await by await: gate, empty-mountpoint check,
start, observation, start at login; or cancel of the preload, detach, stop, check
that the mount is gone. `Poll` and `CancelForSleep` are the biased `select!` that
drops a task when the gate closes: a token checked at the beginning of a poll may be
cancelled before the poll ends. The listener (`Subscribe` .. `ListenerDropped`) is
`sleep::listen`; the clean-up of one mount (`CleanInspect`, `CleanLook`, `CleanDetachFirst`,
`CleanStop`, `CleanSettle`, `CleanSettled`) is `clean_one`, in which the mount table and the
state of the service are read by two awaited commands, so that `ServiceStep` may come
between; a service of `Type=simple` is active before it has mounted and starts again when it
failed; `HostPrepare`, `HostSuspend` and
`HostResume` are logind (external), which suspends once no inhibitor is held or its
own delay is over. `MountWarmup` has the jobs: `StartPreload`, `StartRefresh`,
`SubmitRefresh`, `MonitorBegin`, `MonitorDeepen`, `JobCompleted`.

### UnitController and ConnectionLifecycle

`UnitController` has one `pc` per await of `install` and `remove`: `Write`,
`Reload`, `Valid`/`Invalid`, `PutBack`, `Delete`, `PutBackDeleted`.
Every D-Bus call may fail before or after its effect (`ReloadDone`, `ReloadFails`).
`ConnectionLifecycle` has the callers: `SaveDraft`, `ConfirmImport`,
`ConfirmRemove`, `RefreshGuards` (start of the applet), `PopupSwitch` with
`StorePopup` and its undo, `Reorder`, and the retirement of units that the former
OneDrive engine left. The document is one record (version, start at login) and
each read and write of it is its own step when an await lies between. `disturbed`
and `alone` remember that a failure was reported or that two writers met.

### AppletRuntime

`Refresh`, `ReadUnits`, `UnitObservationCompleted` and `LateObservationCompleted`
are the observation with its revision number; `Decide` is the decision on the
cache, used by `Press` (popup) and `RunOperation` (bus) and, through `Replay`, by
the requests that waited (`Answer`). `Confirmation` is the two-step Repair. `MirrorEnded`
and `RepairEnded` complete an operation and end the routed request of its
connection. `ConfigurationChanged` and `RuntimeConfigurationReloaded` replace the
applet's copy of the document. `Tick` counts time; ages saturate.

### ConnectionEditor

Three providers stand for the flows of all: details kept in the remote and saved
at once (`Smb`), a drive identity bound at sign-in (`OneDrive`), a library verified
again by the save (`Teams`). `Connect`, `Test`, `Save` start the one action that may
run; `Apply`, `Prepare`, `Create`, `CheckCreated`, `Verify`, `Access`, `Install` are its
asynchronous part; `Obsolete`, `Applied`, `SetUp`, `Tested`, `Rechecked`, `Saved` take its
answer, which is obsolete when the draft has changed since.

### RemoteSetup

Every Settings window is a process (`Start`, `Finish`, `Reopen`). A setup looks at
the file (`Look`, `LookRemove`), creates or updates (`Create`, `Update`, `Password`),
answers the questions of rclone for Teams and OneDrive (`Answer`), verifies
(`Check`) and undoes what it created when it was rejected (`Undo`, `NotUndone`).
`Save` and `Unuse` are the saved connections that use a remote, `Delete` the removal of
one that is not used. `Created` and the following say what each backend writes;
`Browser` is the sign-in outside. Each rclone command is one step, which may fail
before or after its write, or exit with success without one (`Unsaved`, for all but SFTP,
which looks at stderr). `ConnectionEditor!Apply` takes the commands of one SMB setup
together: the editor only learns how they ended. The login of onedriver (`StartOnedriver`, `Observe`,
`SignIn`, `Isolate`, `OtherMount`) has no section: it works on a cache directory,
and a mount that ends or appears during the sign-in decides whether its result is
certified. Complete remotes, reported leftovers and a certified login are the three
parts of `OutcomeTold`.

### LegacyImport and ConfigDocument

A command line is a sequence of classified tokens. `ReadRclone` and `ReadOnedriver`
are what `preview_import` reads; `Meaning` is what the engine does with the same
tokens (external, after its flag parser), and `Faithful` compares the two.
In `ConfigDocument` every process reads the file (`Start`, `Refresh`), changes its
copy (`Update`), validates all of it (`Valid`) and writes it (`Write`; in Flatpak
`Stage` and `Rename`). `Migrate` is the first read of a document of version 1, and
`EditByHand` a user who breaks or replaces the file. `Scan` fills the previews,
`Reorder` starts from the copy that the window has read at its start.

### PopupView

`RunStarts`, `NameRun`, `WorkerPrepares`, `PrepareProgress` and `RunEnds` are a worker's
service as seen from outside: an invocation, its progress file and its state.
`NewInspection`, `InspectionReads`, `MountInspectionCompleted` are the mount table with its
tick; `NewPoll`, `PollReads` .. `PollCounts` and `PendingCountPolled` are one poll of
`pending_count.rs`, which names the run before and after it counts. `Expired` is the
generation that voids polls under way. `Status` and `Offered` are the controller's
decision for online mounts, live and legacy mirrors; `Press` and `Done` are an operation
seen from its row.

### VpnSharing

`Ensure` .. `TunnelTimeout` are `ensure_vpn_ready_for_connection`: the guards
(`StrictNetworkReady`, `UnmeteredGuard`), the mutex of the profile, the readiness probes
(`Probe`), the OpenConnect agent with its prompt, and NetworkManager's states, any of
which may be unreadable. `StartService` is the service of a mount that has not mounted yet,
`Use` is the mount or the registration of a finite user;
`Resumed`, `ScheduledRun` are the timer of a mirror and its runs; `Release`, `Decide`,
`Disconnect`, `Unmark` are `maybe_shutdown_vpn_after_unmount`, which takes no mutex, and
`StatusCheck` with `StatusUnmark` is the periodic check, which takes neither the mutex
nor a revision. `Roam` is the host's network.

## 3. Runs

Sizes are distinct states.

| Run | Instance | Shows |
|---|---|---|
| `bisync_teams` | one manual, one scheduled caller, two bindings, Pause, Resume and Repair, one fault | engines of live runs never overlap, and an orphan works alone while its `Running` stands; an abandoned `Running` is explained; resync only after its own dry run; completion marker only with a verified baseline; ordinary runs on their own baseline |
| `control` | an operation, a Pause on top of a run, a worker, Repair, writes that fail, deaths of the applet and of the worker, fairness of Repair | runs exclusive in spite of unlocked writes; no run has the lock under the `Running` of Repair; an abandoned `Running` is explained; Repair ends even if the operation it cancels hangs; `Running` settles if tasks are fair and no result is lost |
| `command_join` | two waiters, two commands, two attempts, fairness | the control implements `OperationJoin`; every wait ends without its timeout; a positive answer means that no process is left |
| `retention` | two connections, three days, retention 1, one fault | nothing removed early, nothing of the user's removed |
| `online` | one task, two warm-ups, two events (sleeps, failures, edits), fairness | after a clean-up without failure no service is left at suspend, after a completed one no mount; clean-up works alone; warm-ups stay reachable; the gate opens again |
| `lifecycle` | all kinds of connection, two versions, three failures, two user edits, one task at a time | the user's files survive; an install ends as it reports; document, units and start at login agree |
| `runtime` | two mirrors, one editor window, Sync and Repair, one edit | starts rest on a view taken after the last completion; Repair was pressed twice within its window; routed requests are answered |
| `editor` | two remotes of which one is shared, two setups, three providers, fairness | only what was tested is saved; the bound drive and remotes that were found are kept; a pending mark is a running task; every save is announced |
| `view` | one connection of each kind, two runs, two polls, two events | a count is of the run it is shown for and of no time before an event that voids it; the mount table is younger than the last operation |
| `remotes` | two windows, one remote, two keys, three answers | what a setup reports is true as far as it looks; nothing is taken away that only others worked on; a used remote is not removed |
| `documents` | the popup switch, an editor, an import and a reorder window, three operations, overlapping paths, all short command lines | operations apply to the document in the file; trees stay apart; an import means what the old service meant |
| `vpn_required` (violation) | a mount and a mirror on an OpenConnect profile, two readiness checks | a release disconnects a tunnel that another connection has just found ready |

**Why the bounds are enough.** Two callers are what a connection has: systemd runs one instance of
a oneshot service, and the popup offers one run at a time. Two bindings distinguish "mine" from
"another's". In `bisync_teams` one fault leaves an orphan or a `Running` behind, and the runs
after it find what became of that; with three faults and one binding the same properties hold as
well (184 000 states). Its `VIEW` leaves out what no guard and no invariant reads: the operation
and result in a state file that does not say `Running`. In `control` faults are not counted:
writes fail and processes die at any step and any number of times. Two operations are the one in
flight and the Pause that replaces its control (`PauseOverRun`); without that bound the three
invariants hold for two operations of any kind as well (2.6 million states up to symmetry).
Retention 1 with three days puts files on, before and after the cutoff; a longer retention only
adds days on which nothing happens. Two commands and two attempts give every transition between
one command and the next. One task of `online` is a user who lets an operation end before the next
request; it may still meet an older warm-up, a newer one and a second sleep, and the safety
properties are proved for any number of tasks. Three faults of `lifecycle` let a call, its
rollback and the repair of the rollback fail. In `runtime` the confirmation window is one tick
wide and the freshness one tick, so early, timely and late presses occur; the second mirror is the
"other connection" of each per-connection check. In `editor` two setups give "edited" and "edited
back". In `view` two polls are an old and a new one, and two runs a service that was started again
between them. The second window of `remotes` removes remotes and sets up Box, which stands for any
other creation of the same name; the first has the pages to add every kind and the one to modify
Google Drive, since the others to modify do what those to add do or refuse more. In `documents`
three operations, and as many reorders as fit, may each meet every step of the others; preference
writes of the applet itself, which behave as the popup switch does, are left out of the instance.
The proofs do not depend on any of these bounds; they also cover the provider OneDrive with
several bindings, any number of overlapping operations, and the remote recovery root.

**Deadlock** is checked in all passing runs but two: in `remotes` and `documents` all
windows may be closed, or the bounded operations used up, and nothing is left to do.

## 4. Fairness

- `OfflineControl!RepairFairSpec`: weak fairness of Repair only, because each of
  its waits is bounded. `RepairEnds` needs no more. `RunningSettles` assumes in its own
  statement (`TasksFair`) that runs, tracked operations and their completions proceed:
  every rclone command has a timeout, and the rest is synchronous or bounded. It promises an
  end of `Running` or a result that was lost: after a death or a failed write nobody owes one,
  and the file keeps `Running` until a Pause, Resume or Repair. Requests, the ticks of the
  timer, deaths and failures are never fair.
- `CommandRun!ProcessFairSpec`: the runner is polled and its two-second and
  half-second timers fire; an operation that is cancelled or whose last command
  failed returns to `finish`; a waiter runs when it is ready. Children owe nothing,
  and neither the timeout of a command nor the five seconds of the waiter are
  assumed to fire, so that `WaitEnds` rests on the wake-up.
- `OnlineMount!FairSpec`: the listener is a task that is polled, a sleep ends, and
  systemd finishes its jobs. Operations, warm-ups and the user owe nothing: `listen`
  waits for them at most as long as the inhibitor allows (`IdleTimeout`,
  `CleanDeadline`).
- `ConnectionEditor!FairSpec`: each command of an action has a timeout, and its
  answer is delivered.
- All other modules state safety only.

## 5. What is proved

All proofs hold for any number of callers, bindings, waiters, windows, processes,
connections and faults, from the named assumptions in the modules: special values are not
members of the sets they stand apart from (`ConstantsAssumption`, `SlotAssumption`,
`EditorAssumption`, `NoneAssumption`, `FileAssumption`, `ImportAssumption`: no path is relative
and an option names no remote), command lines are sequences of tokens and drafts are
connections (`LinesAssumption`, `DraftsAssumption`), bounds are naturals and sets of tasks and
connections finite (`DocumentAssumption`, `RetentionAssumption`, `OnlineAssumption`,
`SetupAssumption`, `RuntimeAssumption`, which also asks for a confirmation delay above zero),
there is at least one version of a connection (`LifecycleAssumption`),
the provider is one of three (`ProviderAssumption`), every row of the popup is of a kind the
controller knows (`ViewAssumption`).

A proof module may be about two components that nothing but the proofs brings together: their
names do not clash, and a reader finds both under one heading below.

- `BisyncCoordinatorProofs`. `Invariance` proves `IndInv`, with Pause, Resume and Repair writing
  the state file at any moment. The safety properties are not inductive: engine exclusion
  needs that the lock is held exactly between acquisition and drop (`LockInv`), that an open
  run finds its own `Running` unless one of them wrote over it (`StateInv`), and that an
  orphan whose `Running` stands shields itself (`OrphanInv`, with `SlotInv` for the slots it
  blocks); the marker properties need that what a run was granted at its guard stays true
  while it holds the lock (`MarkerInv`). From it follow `TypeCorrect`, `EnginesExclusive`,
  `StaleRunningExplained`, `InitializedVerified`, `StateOwnership` and, given a work directory
  per binding (`BoundDir`), `ResyncNeedsPreview` and `OrdinaryRunsOnBaseline`. Without
  `BoundDir` the last two are false (section 6). Live engines exclude each other by the lock
  alone; of an orphan the theorem says no more than the code gives, and that
  `EnginesNeverOverlap` fails is the rest (section 6).
- `OfflineControlProofs`, the mirror. `ControlInvariance` proves `ControlInv` (types, lock
  ownership, the tie between worker and service unit). `RunsExclusive` follows from
  lock ownership alone, so no write of `state.json` can break it;
  `RunningNotAbandoned` is inductive on top of it: every stage that leaves without its result
  was cut short by a death or by a failed write, which `lost` remembers until the next write.
  `RepairsShielded`: a run writes the state only with the lock, so that a Running of Repair,
  written under the lock, stands only while no run has it. All three hold for any number of
  operations that overlap, ticks, Repairs, failed writes and deaths.
- `OfflineControlProofs`, the control and the process runner. `JoinInvariance`, `WakeupsKept`
  and `ImplementsJoin`: every behaviour of `ManualOperationControl` is one of
  `OperationJoin`. `ProcessImplementsControl` proves that the runner with its
  processes is a `ManualOperationControl`, so both invariants carry
  over (`ProcessWakeupsKept`); `JoinedGone` adds that `finish` is reached only when the
  process group is empty, for any temper of the children and any number of attempts.
- `StorageProofs`, the recovery days. `RetentionInvariance` proves that a file is at most
  `Span` days newer than its directory, that computed cutoffs only become more
  cautious, and that claimed directories hold nothing of the user's. `RetentionKept`
  and `UserFilesKept` are action properties that follow, since `OnlyDeleteRemoves`
  shows that only the two removals take files away. With `RETENTION_DAYS` = 32 the
  theorem gives the 30 days of FR-058 (`Requirements and Specifications.md:579`) as
  long as no run sees more than three midnights.
- `StorageProofs`, the document. `DocumentInvariance` proves `DocumentInv`: what a process
  holds, has staged or has written is valid, and a process that no other writer has
  overtaken since it read (`stale` is FALSE) has the file's document as the base of its edit.
  `TreesAreApart` follows from the validity of the file; `EditsAreKept` from the base, by one
  lemma per kind of edit (`OwnOnly`: it touches its own connection, or an import adds only).
- `StorageProofs`, the import. `OffersAreTrue` is about operators alone: for a command line of
  any length that starts and is spelled out, what `preview_import` reads is what the engine does.
  The reader and the engine skip tokens by rules of their own, so the proof unfolds both
  functions (`Recursion`, from a least number again) and goes along the line from its right end
  (`Backwards`): at every token that the engine does not take for a value, both have understood
  the same of the rest (`RcloneAgrees`), and where onedriver has one word left, the target is that
  word (`OnedriverAgrees`). `RcloneReplacement` and `OnedriverReplacement` compute what the unit of
  the applet means. `ImportInvariance` proves `ImportInv` on top of it: an offer with valid
  paths is true, and since its id is new when the preview is made, whatever is later found under
  that id, in the file, staged or in a copy of any process, has its place and cache (`Alike`), so
  that a second confirmation which finds the id taken stores nothing else. From it follow
  `ImportsAreFaithful` and `DocumentsTyped`. The proof found what the runs could not: a value that
  looks like an option breaks the agreement (section 6), which no line of four tokens shows, and
  `Spelled` now leaves such lines out.
- `PopupViewProofs`. `ViewInvariance` proves `ViewInv`: the log of a run is never behind the
  name that the worker gave to it, a poll that has found the name of its run reads a log at
  least as new, a poll that an event voided is no longer current, and an inspection that was
  read before an event is marked obsolete. From it follow `CountsOfThisRun`, `CountsNotVoid`
  and `MountsAreCurrent`, and with them the worker's order of its two files and the poll's
  order of its three reads are seen to matter.
- `RemoteSetupProofs`. `SetupInvariance` proves `SetupInv`: while no other window has worked on
  its name, each job finds the section its next command expects (`Undisturbed`); what it
  created, found and was granted ties its stage to the file, whether or not rclone saved what
  a command exited with success for (`unsaved`). From it follow `OutcomesTold`,
  `OthersAreKept`, `UsedRemotesAreKept` and `SetupTypes` for any number of windows and names.
  The first attempt failed for a reason: a second window can leave an SFTP section whose stored
  passphrase belongs to another key, and a modification that keeps that key
  (`sftp.rs:586`) keeps the passphrase. `OutcomeTold` now speaks of a section that was whole
  when the setup looked it up (`torn`); TLC checks this with two SFTP windows on instances
  larger than the run.
- `AppletProofs`, the owner of the runtime. `RuntimeInvariance` proves `RuntimeInv`: no
  completion is missing from the observation under way or from the cache, an armed Repair
  belongs to the series of presses (`Linked`), an entry of `runtime_routed_operations` is
  backed by an operation that runs or by the request that waits (`Tracked`), and a request
  waits only where an operation more finds room. The replay of the waiting requests decides
  them one after the other, each on the state the one before has left. `ReplayIsAChain` shows
  that the recursive function has such a chain, by taking the least number for which it had
  none (`Least`); `Replays` goes along it in the same way with `Replayed`, which says of the
  requests answered so far what `RuntimeInv` says of all. That a Repair in the middle of the
  queue is confirmed by a press the user made, not by a Repair that the queue itself armed,
  rests on the minimum delay: what is armed in this message has age zero. From it follow
  `RoutedAreTracked`, `DecisionsAreFresh`, `RepairsAreConfirmed` and `RuntimeTypes` for any
  finite number of connections and any order of the queue.
- `AppletProofs`, the online mount. `SleepInvariance` proves `SleepInv`: who holds the gate, that
  a clean-up starts only when no registered operation is left, that what it has
  already inspected stays as it was found until the host suspends. From it follow
  `CleansAlone`, `SuspendsClean`, `EntriesTracked` (a job in the map of pending jobs is
  under way) and `PreloadsReachable`, for any finite number of tasks. The two reads of a
  clean-up are two steps of the proof: once the service was seen inactive nothing starts it
  (`Quiet`), and after that the mount table is read once more before a clean-up counts as
  completed, which the report that nothing was to do has not done.
- `ConnectionLifecycleProofs`. `ForeignFilesKept`: no install, removal, rollback or
  retirement of any number of concurrent tasks changes a unit file that the user
  has put there; what a task writes or deletes, it has found to be its own in the same
  step. `LifecycleInvariance` proves `LifecycleInv`, of which the statements about ends of
  tasks are the last step: a task that is `alone` is the only busy one, and `Stage` says for
  each of its `pc`s which unit file is the old and which the new, whether `prev` and
  `service` still hold the contents of before, and which error a rollback carries; while
  nothing is `disturbed` and at most a popup choice is under way, units and login agree with
  the record. From it follow `RecordsMatch`, `LoginsAgree`, `InstallsSettle` and
  `LifecycleTypes`, for any number of tasks, versions, failures and edits of the user. Where
  tasks overlap, both claims are void by `alone` and `disturbed`, which the proof shows to be
  enough: no step of another task reaches into one that is alone.
- `ConnectionEditorProofs`. `EditorInvariance` proves `EditorInv`: a pending mark belongs to the one
  task that runs, and a verdict of Test is about the draft it is shown with. From it
  follow `PendingRuns`, `SavesWereTested`, `BindingsKept`, `FoundRemotesKept` and
  `SharedConfirmed` for any set of remotes and setups.

`StateOwnership` (`OpenRunOwnsState`), `EntriesTracked` (`JobsTracked`),
`ProcessWakeupsKept` (`NoLostWakeup`) and `SharedConfirmed` (`SharedWasConfirmed`) are proved and not
listed by a run.

Only model-checked:

- Liveness (`RepairEnds`, `RunningSettles`, `WaitEnds`, `GateReopens`, `SavedIsAnnounced`), which
  is out of the prover's reach.

The induction theorems of the library take an operator and are out of reach; the two inductions
above (`Replays` and `Backwards`) take the least counterexample from the well-foundedness of the
naturals instead, a fact about sets.

## 6. Where the code and its documents differ

Each of the first six has a property in its module that states what a document or a comment says,
and that fails on the code. `vpn_required` is the run that shows it; the other five properties
fail as soon as they are added to the configuration of the passing run that is named with them.

- **A tunnel released under its user** (`RequiredVpnKept`, `vpn_required`). The release of a
  tunnel (`app.rs:11252`) takes one snapshot of its users, outside the activation mutex, while
  `Requirements and Specifications.md:722` promises that no VPN still required by a mounting,
  mounted, previewing or syncing connection is disconnected. A unit whose state cannot be read
  counts as inactive in that snapshot.
- **An orphan beside a new engine** (`EnginesNeverOverlap`, `bisync_teams`). rclone survives a
  killed applet or worker in its own process group (`process.rs:696`), and the `Running` of its
  run keeps the next run away. Resume, Pause and Repair replace it (`app.rs:10385`, `10460`,
  `10517`, `10535`), and a second engine starts. `Design.md:172` says that the two entries must
  not run concurrently for one connection. The lock file that rclone keeps itself, in the work
  directory and good for two minutes (`sync.rs:287`), is outside the model.
- **A replaced control** (`RepairJoinsManual`, `control`). A Pause or Resume requested while
  another operation is in flight replaces its control in the map (`app.rs:4360`), so Repair waits
  for one of the two only and stops the service under a manual run;
  `docs/engineering/offline-mirror-repair-contracts.md:28` wants it to wait for any operation of
  the applet or to fail. A Resume in flight may also enable the timer again after Repair has
  stopped it (`:61` of the same document). What does hold is `RepairShielded`: the lock keeps runs
  away from the claim itself.
- **A Repair that fails** (`RepairKeepsRunning`, `control`) writes `Failed` without the lock
  (`app.rs:10385`) and may overwrite the `Running` of a worker that is alive; the comment at
  `app.rs:10452` says that Repair must not.
- **A late mount** (`LateMountExcluded`, `online`). The clean-up before sleep reads the mount
  table (`sleep.rs:491`) and then the service (`sleep.rs:507`). A service started by a Mount that
  sleep cancelled can mount after the first and fail before the second: the connection counts as
  inactive and the host suspends with its mount. FR-099 (`Requirements and Specifications.md:772`)
  says that late completion cannot mount during cleanup.
- **A save that did not happen** (`AppliedIsSaved`, `remotes`). An SMB setup goes by the exit of
  rclone (`app.rs:8341-8396`), which may be zero although the file could not be saved; the comment
  at `app/sftp.rs:493` says so, and that it is not to be reported as applied. The removal of a
  remote (`app.rs:8443`) does not look either.
- **Shared work directories** (model: `BisyncCoordinator` with provider `"Other"`,
  `ResyncOnlyAfterPreview`). `sync.rs:249` puts the binding into the work directory for Teams and
  rclone OneDrive only, and `app.rs:11633` clears the markers for the former only. Google Drive,
  Box, SMB and SFTP keep `initial-preview-confirmable` when the target is edited, and the next
  initial sync resyncs a target that never had its dry run.
  `docs/engineering/gui-action-layout-inventory.md:313`: "a changed saved target invalidates
  target-specific Preview evidence"; `Design.md:182`.
- **A removed connection comes back** when the popup switch stored an older copy of it
  (`app.rs:6175`); compare FR-018 (`Requirements and Specifications.md:349`).
- **The staging file has one name** in Flatpak (`config.rs:388`), shared by all processes; FR-020
  (`:358`) asks for atomic changes. **Reorder** writes the copy its window has read at its start
  (`app.rs:6063`): `EditsKept` makes an exception for it.
- **Import** takes the value of a one-letter option of onedriver for the target (`import.rs:463`),
  lists `--config=` in its joined form although the separate form is refused, and never knows an
  active unit (`app.rs:5589`); compare FR-066 and FR-069 (`:617`, `:621`). It takes a value that
  begins with `--` for the next option (`import.rs:385-395`): of `--tuning --cache-dir --flag
  --cache-dir c` the engine sets a tuning option (say `--log-file`) to "--cache-dir", while the
  preview takes `--flag` for the value of the first `--cache-dir` and does not list it, which
  FR-066 asks for. No sensible service has such a value; the code merely does not exclude it.
  `ImportFaithful` speaks of services whose options have long names and whose values do not look
  like options (`Spelled`).
- **SMB**: a rollback that fails is not reported (`app.rs:8345`), unlike
  `gui-action-layout-inventory.md:383` says. A rollback also deletes a remote of the same name
  that another window has created in the meantime: the exception of `OthersKept` (`touched`).
- **A running legacy mirror** whose VPN is not ready shows as waiting for it and does not offer
  Pause, which the comment at `controller.rs:407` wants to keep.
- **The VPN check** has no revision: its unmark (`app.rs:5885`) can remove the mark of a tunnel
  that was activated after its probe. The finite release of a mirror does not count the mirror
  itself, so its own timer does not keep the tunnel.
- **A poll** started while a request waits survives `MirrorOperationCompleted` (`app.rs:1618`),
  which clears the counts and not the polls.

## 7. Limits

Components with status `partly` or `not_modelled` in `PROJECT.json` say what is missing. In general:
texts, layouts, parsing and progress reports are left out; a path, a remote or a command line is a
value with the distinctions that the properties need.

- **Not modelled.** Portal grants and the generated service script are the environment of the
  coordinator's path guards. Diagnostics, translations and themes keep no protocol state. The
  OneDrive prototype is not reachable from the applet. The ownership of the bus name among
  several panel instances, aggregate status and warnings, and the detection of VPN profiles are
  observations that some caller makes.
- **Coordinator.** A write of a file is atomic because the code publishes by rename. A worker
  killed between staging and renaming an owner marker (`bisync_coordinator.rs:1259`) leaves a
  staging file that no module has.
- **Control.** Checked with a Pause on top of a run, proved for any number. The rclone left
  behind by a dead applet is in `BisyncCoordinator`, not here. `offline_coordinator.rs:46` is
  merged into the steps after it.
- **Process runner.** A command is one process and one descendant; output and its limits are data.
- **Online mount.** Checked with one task at a time, proved for any number. The saved document and
  VPN are inputs. A start of onedriver after an inspection found nothing (`sleep.rs:545`), a second
  sleep before the restore of the first (`app.rs:9620`) and the Mount that sleep drops between
  activation and mark of its tunnel (`app.rs:11112`) have no property of their own.
- **Units and document.** Two modules: `ConnectionLifecycle` has one connection with its units,
  `ConfigDocument` several without. A failing store is in the former only. Overlapping installs of
  one unit (`services.rs:1376`), the snapshot of the start-up refresh (`app.rs:9230`), a stale
  draft of start at login (`app.rs:4835`) and a second confirmation of an import (`app.rs:5344`)
  are behaviours of the models when several tasks are allowed; no run allows them.
- **Runtime.** The owner is not restarted (revisions and the sixteen remembered completions,
  `app.rs:2677` and `2658`, begin anew); a completion may end the routed request of another
  operation of the same connection (`app.rs:1616`, `1622`); a request that reaches the bus when the
  applet leaves (`runtime_ipc.rs:88`) is lost.
- **Editor.** One window. Google Drive, Box, SFTP and onedriver take the path of `Smb`; remotes
  made by others are `RemoteSetup`. Two windows may run a sign-in on the same port
  (`microsoft_oauth.rs:150`).
- **Remote setup.** One rclone command is atomic: two windows never read and write the file in
  between each other's reads and writes.
- **Popup.** One connection and one operation at a time; ages are not counted, a view may expire
  at any step.
- **VPN.** A mark is lost with the applet; a tunnel that outlives its mark (`app.rs:11405`) stays.

## 8. Next

In this order, what would add most:

1. `ConnectionLifecycle` with two tasks, stating what remains true of two overlapping saves.
2. A `VpnSharing` in which a release takes the activation mutex, to see whether that is enough for
   `RequiredVpnKept`.
3. The claim of the bus name by several panel instances.
