------------------------- MODULE BisyncCoordinator -------------------------
(***************************************************************************)
(* The lock-protected transaction that bisync_coordinator.rs executes for  *)
(* one Offline Mirror connection.  Several callers enter it: manual        *)
(* requests of the applet process and scheduled workers started by the     *)
(* systemd timer.  They share the operation lock (flock on                 *)
(* operation.lock), the state file (state.json) and, in the work           *)
(* directory of the plan, the two marker files of the initialisation.      *)
(* Pause, Resume and Repair of the applet write the state file as well,    *)
(* without the lock but for the claim of Repair; here they are reduced to  *)
(* those writes (OfflineControl has the rest of them).                     *)
(*                                                                         *)
(* Data is abstracted to what the guards tell apart.  A target is one      *)
(* value of the remote and local binding of the saved connection; a run of *)
(* rclone is a step with a success and a failure outcome.  An error        *)
(* returned before the state file is written leaves the file unchanged and *)
(* is the single action EarlyReturn.  Cleanup of old recovery days never   *)
(* fails the transaction and touches no state modelled here.               *)
(***************************************************************************)
EXTENDS Naturals

CONSTANTS
  Manual,      \* run slots of the applet process
  Scheduled,   \* run slots of timer-started worker processes
  Targets,     \* the bindings the saved connection may be given
  Provider,    \* "Teams", "OneDrive" (rclone engine) or "Other"
  Unlocked,    \* operations that write the state file past the coordinator:
               \* "Tracked" (Pause and Resume, which write alike), "Repair"
  MaxFaults,   \* bound on killed processes and lost result writes
  NoRun,       \* nobody holds the operation lock
  NoTarget,    \* no baseline recorded
  Unbound      \* the work directory that depends on the connection id only

Runs == Manual \cup Scheduled

ASSUME ConstantsAssumption ==
  /\ Manual \cap Scheduled = {}
  /\ NoRun \notin Runs
  /\ NoTarget \notin Targets
  /\ Unbound \notin Targets
  /\ Unlocked \subseteq {"Tracked", "Repair"}
  /\ MaxFaults \in Nat

ASSUME ProviderAssumption == Provider \in {"Teams", "OneDrive", "Other"}

Modes == {"InitialPreview", "Preview", "InitialSync", "Sync", "Scheduled"}

\* BisyncMode::preview and BisyncMode::initial.
IsPreview(m) == m \in {"InitialPreview", "Preview"}

IsInitial(m) == m \in {"InitialPreview", "InitialSync"}

\* OfflineOperationState, with "None" for a missing state file.
States == {"None", "Running", "Succeeded", "Failed", "Cancelled", "Paused"}

\* Only Teams and rclone OneDrive plans hash the binding into the directory.
BoundDir == Provider \in {"Teams", "OneDrive"}

WorkDir(t) == IF BoundDir THEN t ELSE Unbound

Dirs == Targets \cup {Unbound}

\* Where a run of the coordinator stands; the names of the stages are the
\* calls of run_plan and run_transaction that the run is about to make.
Stages == {"idle", "load", "lock", "guard", "check", "publish", "access",
           "engine", "verify", "mark", "unmark", "final", "release"}

\* The stages between acquire_operation_guard and the drop of the guard.
Locked == {"guard", "check", "publish", "access", "engine", "verify",
           "mark", "unmark", "final", "release"}

\* The stages in which the run has published Running and not yet a result.
Open == {"access", "engine", "verify", "mark", "unmark", "final"}

\* The stages in which the run waits for an rclone bisync or check process.
Engine == {"engine", "verify"}

VARIABLES
  lock,           \* holder of operation.lock
  coord,          \* contents of state.json: operation and state
  previewMarker,  \* directories holding initial-preview-confirmable
  syncMarker,     \* directories holding initial-sync-complete
  target,         \* binding of the saved connection
  enabled,        \* saved connection present and enabled
  stage,          \* stage of each run
  mode,           \* BisyncMode of each run
  tgt,            \* binding each run loaded from the saved configuration
  ok,             \* result of run_transaction, per run
  cancelled,      \* cancellation token, per run
  orphans,        \* killed runs whose rclone process is still alive
  faults,         \* kills and lost result writes so far
  others,         \* Pause, Resume and Repair between Running and result
  uncovered,      \* history: open or orphaned runs whose Running one of
                  \* those operations has written over
  lost,           \* history: since the last write of the state file somebody
                  \* who owed a result has died or could not write it
  previewed,      \* history: targets with a completed initial dry run
  based,          \* history: target of the last completed resync, per directory
  verified        \* history: targets whose checksum verification succeeded

files == <<lock, coord, previewMarker, syncMarker>>
saved == <<target, enabled>>
local == <<stage, mode, tgt, ok, cancelled>>
fault == <<orphans, faults>>
history == <<previewed, based, verified>>
unlocked == <<others, uncovered, lost>>
vars == <<files, saved, local, fault, unlocked, history>>

TypeOK ==
  /\ lock \in Runs \cup {NoRun}
  /\ coord \in [op : Modes \cup Unlocked \cup {"None"}, st : States]
  /\ previewMarker \subseteq Dirs
  /\ syncMarker \subseteq Dirs
  /\ target \in Targets
  /\ enabled \in BOOLEAN
  /\ stage \in [Runs -> Stages]
  /\ mode \in [Runs -> Modes \cup {"None"}]
  /\ tgt \in [Runs -> Targets \cup {NoTarget}]
  /\ ok \in [Runs -> BOOLEAN]
  /\ cancelled \in [Runs -> BOOLEAN]
  /\ orphans \subseteq Runs
  /\ faults \in 0 .. MaxFaults
  /\ others \subseteq Unlocked
  /\ uncovered \subseteq Runs
  /\ lost \in BOOLEAN
  /\ previewed \subseteq Targets
  /\ based \in [Dirs -> Targets \cup {NoTarget}]
  /\ verified \subseteq Targets

\* A newly saved connection: nothing previewed, no state file, nobody running.
Init ==
  /\ lock = NoRun
  /\ coord = [op |-> "None", st |-> "None"]
  /\ previewMarker = {}
  /\ syncMarker = {}
  /\ target \in Targets
  /\ enabled = TRUE
  /\ stage = [r \in Runs |-> "idle"]
  /\ mode = [r \in Runs |-> "None"]
  /\ tgt = [r \in Runs |-> NoTarget]
  /\ ok = [r \in Runs |-> FALSE]
  /\ cancelled = [r \in Runs |-> FALSE]
  /\ orphans = {}
  /\ faults = 0
  /\ others = {}
  /\ uncovered = {}
  /\ lost = FALSE
  /\ previewed = {}
  /\ based = [d \in Dirs |-> NoTarget]
  /\ verified = {}

-----------------------------------------------------------------------------
\* Entry.

At(r, s) == stage[r] = s

Go(r, s) == stage' = [stage EXCEPT ![r] = s]

\* The calls of the runs in R have returned or died: their locals are gone.
Forget(R) ==
  /\ stage' = [r \in Runs |-> IF r \in R THEN "idle" ELSE stage[r]]
  /\ mode' = [r \in Runs |-> IF r \in R THEN "None" ELSE mode[r]]
  /\ tgt' = [r \in Runs |-> IF r \in R THEN NoTarget ELSE tgt[r]]
  /\ ok' = [r \in Runs |-> IF r \in R THEN FALSE ELSE ok[r]]
  /\ cancelled' = [r \in Runs |-> IF r \in R THEN FALSE ELSE cancelled[r]]

\* The flock goes with the last descriptor of its holder.
Drop(R) == lock' = IF lock \in R THEN NoRun ELSE lock

\* rclone_bisync_mode: the marker of the captured connection picks the mode.
ManualMode(request) ==
  IF WorkDir(target) \in syncMarker
  THEN IF request = "PreviewInitialSync" THEN "Preview" ELSE "Sync"
  ELSE IF request = "PreviewInitialSync" THEN "InitialPreview" ELSE "InitialSync"

\* A slot serves the next call when its last one left no engine behind, which
\* bounds the orphans of the model by the number of slots.
Free(r) == At(r, "idle") /\ r \notin orphans

\* A request of the popup, the editor or the runtime owner.
RequestManual(r, request) ==
  /\ Free(r)
  /\ Go(r, "load")
  /\ mode' = [mode EXCEPT ![r] = ManualMode(request)]
  /\ UNCHANGED <<files, saved, tgt, ok, cancelled, fault, unlocked, history>>

\* The timer starts the oneshot service, whose worker runs Scheduled.
StartWorker(r) ==
  /\ Free(r)
  /\ Go(r, "load")
  /\ mode' = [mode EXCEPT ![r] = "Scheduled"]
  /\ UNCHANGED <<files, saved, tgt, ok, cancelled, fault, unlocked, history>>

\* run_saved reloads the configuration; the plan is made from what it finds.
LoadSaved(r) ==
  /\ At(r, "load")
  /\ enabled
  /\ Go(r, "lock")
  /\ tgt' = [tgt EXCEPT ![r] = target]
  /\ UNCHANGED <<files, saved, mode, ok, cancelled, fault, unlocked, history>>

\* acquire_operation_guard: LOCK_EX | LOCK_NB.
Acquire(r) ==
  /\ At(r, "lock")
  /\ lock = NoRun
  /\ lock' = r
  /\ Go(r, "guard")
  /\ UNCHANGED <<coord, previewMarker, syncMarker, saved, mode, tgt, ok,
                 cancelled, fault, unlocked, history>>

-----------------------------------------------------------------------------
\* Guards that precede the first write of the state file.

\* Mutant of ModeAllowed: an initial sync does not ask for the dry run.
ModeAllowedUnpreviewed(m, d) ==
  IF IsInitial(m) THEN d \notin syncMarker ELSE d \in syncMarker

\* Mutant of ModeAllowed: only the initial modes are guarded.
ModeAllowedUninitialized(m, d) ==
  CASE m = "InitialPreview" -> d \notin syncMarker
    [] m = "InitialSync" -> d \notin syncMarker /\ d \in previewMarker
    [] OTHER -> TRUE

\* validate_mode_markers.
ModeAllowed(m, d) ==
  CASE m = "InitialPreview" -> d \notin syncMarker
    [] m = "InitialSync" -> d \notin syncMarker /\ d \in previewMarker
    [] OTHER -> d \in syncMarker

\* Markers, provider binding, local paths and shared inputs are acceptable.
Guard(r) ==
  /\ At(r, "guard")
  /\ ModeAllowed(mode[r], WorkDir(tgt[r]))
  /\ Go(r, "check")
  /\ UNCHANGED <<files, saved, mode, tgt, ok, cancelled, fault, unlocked, history>>

\* Mutant of CheckState: owning the lock is taken to be enough.
CheckStateLockOnly(r) ==
  /\ At(r, "check")
  /\ Go(r, "publish")
  /\ UNCHANGED <<files, saved, mode, tgt, ok, cancelled, fault, unlocked, history>>

\* read_state: a Running state is refused even though the lock is ours.
CheckState(r) ==
  /\ At(r, "check")
  /\ coord.st # "Running"
  /\ Go(r, "publish")
  /\ UNCHANGED <<files, saved, mode, tgt, ok, cancelled, fault, unlocked, history>>

PublishRunning(r) ==
  /\ At(r, "publish")
  /\ coord' = [op |-> mode[r], st |-> "Running"]
  /\ lost' = FALSE
  /\ Go(r, "access")
  /\ UNCHANGED <<lock, previewMarker, syncMarker, saved, mode, tgt, ok,
                 cancelled, fault, others, uncovered, history>>

\* Every error before Running is published: connection removed or disabled,
\* lock held, marker or binding refused, unusable paths, cancelled, state
\* Running, unreadable or unwritable.  The guard, if taken, is dropped.
EarlyReturn(r) ==
  /\ stage[r] \in {"load", "lock", "guard", "check", "publish"}
  /\ Drop({r})
  /\ Forget({r})
  /\ UNCHANGED <<coord, previewMarker, syncMarker, saved, fault, unlocked, history>>

-----------------------------------------------------------------------------
\* run_transaction.

\* Mutant of NeedsVerify: an initial sync trusts the exit status of rclone.
NeedsVerifyOrdinaryOnly(m) == m \in {"Sync", "Scheduled"} /\ BoundDir

\* plan.verify_after_sync is Teams; rclone OneDrive verifies manual runs.
NeedsVerify(m) ==
  /\ ~IsPreview(m)
  /\ \/ Provider = "Teams"
     \/ Provider = "OneDrive" /\ m \in {"InitialSync", "Sync"}

\* The stage after the last rclone process of a successful run.
AfterEngine(m) == IF IsInitial(m) THEN "mark" ELSE "final"

\* Remote access marker, and recovery destinations of a transferring run.
PrepareAccess(r) ==
  /\ At(r, "access")
  /\ ~cancelled[r]
  /\ Go(r, "engine")
  /\ UNCHANGED <<files, saved, mode, tgt, ok, cancelled, fault, unlocked, history>>

\* rclone bisync exits with success: a dry run of a preview, a resync of an
\* initial sync, an ordinary bidirectional transfer otherwise.
RunBisync(r) ==
  /\ At(r, "engine")
  /\ ~cancelled[r]
  /\ previewed' = IF mode[r] = "InitialPreview"
                  THEN previewed \cup {tgt[r]} ELSE previewed
  /\ based' = IF mode[r] = "InitialSync"
              THEN [based EXCEPT ![WorkDir(tgt[r])] = tgt[r]] ELSE based
  /\ Go(r, IF NeedsVerify(mode[r]) THEN "verify" ELSE AfterEngine(mode[r]))
  /\ ok' = [ok EXCEPT ![r] = TRUE]
  /\ UNCHANGED <<files, saved, mode, tgt, cancelled, fault, unlocked, verified>>

\* Convergence pass and check --checksum (Teams), or access markers and check
\* --checksum (rclone OneDrive).
Verify(r) ==
  /\ At(r, "verify")
  /\ ~cancelled[r]
  /\ verified' = verified \cup {tgt[r]}
  /\ Go(r, AfterEngine(mode[r]))
  /\ UNCHANGED <<files, saved, mode, tgt, ok, cancelled, fault, unlocked,
                 previewed, based>>

\* InitialPreview publishes its marker, InitialSync the completion marker.
WriteMarker(r) ==
  /\ At(r, "mark")
  /\ IF mode[r] = "InitialPreview"
     THEN /\ previewMarker' = previewMarker \cup {WorkDir(tgt[r])}
          /\ UNCHANGED syncMarker
          /\ Go(r, "final")
     ELSE /\ syncMarker' = syncMarker \cup {WorkDir(tgt[r])}
          /\ UNCHANGED previewMarker
          /\ Go(r, "unmark")
  /\ UNCHANGED <<lock, coord, saved, mode, tgt, ok, cancelled, fault, unlocked, history>>

RemovePreviewMarker(r) ==
  /\ At(r, "unmark")
  /\ previewMarker' = previewMarker \ {WorkDir(tgt[r])}
  /\ Go(r, "final")
  /\ UNCHANGED <<lock, coord, syncMarker, saved, mode, tgt, ok, cancelled,
                 fault, unlocked, history>>

\* Mutant of FailTransaction: the error is returned past the result write.
FailTransactionUnrecorded(r) ==
  /\ stage[r] \in Open \ {"final"}
  /\ Drop({r})
  /\ Forget({r})
  /\ UNCHANGED <<coord, previewMarker, syncMarker, saved, fault, unlocked, history>>

\* Any step of run_transaction returns Err: a command fails, times out or is
\* cancelled, or a marker cannot be written or removed.
FailTransaction(r) ==
  /\ stage[r] \in Open \ {"final"}
  /\ ok' = [ok EXCEPT ![r] = FALSE]
  /\ Go(r, "final")
  /\ UNCHANGED <<files, saved, mode, tgt, cancelled, fault, unlocked, history>>

FinalState(r) ==
  IF ok[r] THEN "Succeeded" ELSE IF cancelled[r] THEN "Cancelled" ELSE "Failed"

\* The result is written before the guard is dropped.
PublishResult(r) ==
  /\ At(r, "final")
  /\ coord' = [op |-> mode[r], st |-> FinalState(r)]
  /\ lost' = FALSE
  /\ Go(r, "release")
  /\ UNCHANGED <<lock, previewMarker, syncMarker, saved, mode, tgt, ok,
                 cancelled, fault, others, uncovered, history>>

\* write_state fails: the caller gets an error, the file keeps Running.
ResultNotWritten(r) ==
  /\ At(r, "final")
  /\ faults < MaxFaults
  /\ faults' = faults + 1
  /\ lost' = TRUE
  /\ Go(r, "release")
  /\ UNCHANGED <<files, saved, mode, tgt, ok, cancelled, orphans, others,
                 uncovered, history>>

Release(r) ==
  /\ At(r, "release")
  /\ Drop({r})
  /\ Forget({r})
  /\ uncovered' = uncovered \ {r}
  /\ UNCHANGED <<coord, previewMarker, syncMarker, saved, fault, others, lost,
                 history>>

-----------------------------------------------------------------------------
\* Pause, Resume and Repair, at any moment the popup offers them.

\* A write of the state file that asks neither for the lock nor for what is
\* written there.
Overwrite(o, st) ==
  /\ coord' = [op |-> o, st |-> st]
  /\ uncovered' = uncovered \cup orphans \cup {r \in Runs : stage[r] \in Open}
  /\ lost' = FALSE
  /\ UNCHANGED <<lock, previewMarker, syncMarker, saved, local, fault, history>>

\* run_tracked_offline_operation writes Running; when it cannot, it skips the
\* operation and goes on to its result.
TrackedBegin ==
  /\ "Tracked" \in Unlocked \ others
  /\ others' = others \cup {"Tracked"}
  /\ \/ Overwrite("Tracked", "Running")
     \/ UNCHANGED <<files, saved, local, fault, uncovered, lost, history>>

\* Its result, whatever became of the coordinator runs meanwhile.
TrackedEnd ==
  /\ "Tracked" \in others
  /\ others' = others \ {"Tracked"}
  /\ \E st \in {"Succeeded", "Failed", "Cancelled"} : Overwrite("Tracked", st)

\* execute_coordinated_offline_repair: the lock is taken, Running is written,
\* the lock is dropped, all before the task is suspended again.
RepairClaim ==
  /\ "Repair" \in Unlocked \ others
  /\ lock = NoRun
  /\ others' = others \cup {"Repair"}
  /\ Overwrite("Repair", "Running")

\* run_offline_mirror_repair_operation records the outcome without the lock:
\* Paused after the claim, Failed when the claim or a step before it failed.
RepairResult ==
  /\ "Repair" \in Unlocked
  /\ others' = others \ {"Repair"}
  /\ Overwrite("Repair", IF "Repair" \in others THEN "Paused" ELSE "Failed")

\* The result of a Pause, Resume or Repair cannot be written.
OtherUnwritten(o) ==
  /\ o \in others
  /\ faults < MaxFaults
  /\ faults' = faults + 1
  /\ others' = others \ {o}
  /\ lost' = TRUE
  /\ UNCHANGED <<files, saved, local, orphans, uncovered, history>>

-----------------------------------------------------------------------------
\* Cancellation, death of a process, and edits of the saved connection.

\* ManualOperationControl::cancel reaches a run of the applet only.
Cancel(r) ==
  /\ ~At(r, "idle")
  /\ cancelled' = [cancelled EXCEPT ![r] = TRUE]
  /\ UNCHANGED <<files, saved, stage, mode, tgt, ok, fault, unlocked, history>>

\* A process dies with the runs it hosts, and the Pause, Resume and Repair tasks
\* but for those in left.  The kernel drops the flock and no result is written.
\* rclone has a process group of its own, so it may outlive its parent.
Kill(dead, left) ==
  /\ (\E r \in dead : ~At(r, "idle")) \/ left # others
  /\ faults < MaxFaults
  /\ faults' = faults + 1
  /\ Drop(dead)
  /\ Forget(dead)
  /\ \/ UNCHANGED orphans
     \/ orphans' = orphans \cup {r \in dead : stage[r] \in Engine}
  /\ others' = left
  /\ uncovered' = uncovered \ (dead \ orphans')
  /\ lost' = (lost \/ left # others \/ \E r \in dead : stage[r] \in Open)
  /\ UNCHANGED <<coord, previewMarker, syncMarker, saved, history>>

\* The applet hosts the manual runs, a worker process its own run.
AppletDies == Kill(Manual, {})

WorkerDies(r) == Kill({r}, others)

OrphanExit(r) ==
  /\ r \in orphans
  /\ orphans' = orphans \ {r}
  /\ uncovered' = uncovered \ {r}
  /\ UNCHANGED <<files, saved, local, faults, others, lost, history>>

\* invalidate_sharepoint_mirror_confirmation_on_retarget.
Invalidated(t) ==
  IF Provider = "Teams" /\ WorkDir(t) # WorkDir(target)
  THEN {WorkDir(target)} ELSE {}

\* save_validated_draft_with: markers of the old Teams binding go first, then
\* the configuration is replaced; the second write may fail.
Save(t) ==
  /\ previewMarker' = previewMarker \ Invalidated(t)
  /\ syncMarker' = syncMarker \ Invalidated(t)
  /\ \/ target' = t /\ enabled' = TRUE
     \/ UNCHANGED saved
  /\ UNCHANGED <<lock, coord, local, fault, unlocked, history>>

\* The connection is disabled or removed; no run is told.
Disable ==
  /\ enabled
  /\ enabled' = FALSE
  /\ UNCHANGED <<files, target, local, fault, unlocked, history>>

-----------------------------------------------------------------------------
Start ==
  \/ \E r \in Manual, request \in {"PreviewInitialSync", "SyncNow"} :
       RequestManual(r, request)
  \/ \E r \in Scheduled : StartWorker(r)

\* The steps of one run, each bounded by a command timeout or synchronous.
Progress(r) ==
  \/ LoadSaved(r) \/ Acquire(r) \/ Guard(r) \/ CheckState(r)
  \/ PublishRunning(r) \/ EarlyReturn(r) \/ PrepareAccess(r) \/ RunBisync(r)
  \/ Verify(r) \/ WriteMarker(r) \/ RemovePreviewMarker(r)
  \/ FailTransaction(r) \/ PublishResult(r) \/ ResultNotWritten(r)
  \/ Release(r)

Others ==
  \/ TrackedBegin \/ TrackedEnd
  \/ RepairClaim \/ RepairResult
  \/ \E o \in Unlocked : OtherUnwritten(o)

Environment ==
  \/ \E r \in Manual : Cancel(r)
  \/ AppletDies
  \/ \E r \in Scheduled : WorkerDies(r)
  \/ \E r \in Runs : OrphanExit(r)
  \/ \E t \in Targets : Save(t)
  \/ Disable

Next == Start \/ (\E r \in Runs : Progress(r)) \/ Others \/ Environment

Spec == Init /\ [][Next]_vars

-----------------------------------------------------------------------------
(* Properties. *)

\* Two rclone engines of live runs never work on the connection at the same
\* time, whatever Pause, Resume and Repair write to the state file.  The engine
\* of a killed run is kept apart from others by the Running it left, though
\* the kill released the lock; only a write of one of those operations, which
\* do not look at the file, ends that protection.
EngineExclusion ==
  /\ \A r, s \in Runs : stage[r] \in Engine /\ stage[s] \in Engine => r = s
  /\ \A r \in Runs : stage[r] \in Engine => orphans \subseteq uncovered
  /\ \A r, s \in orphans \ uncovered : r = s

\* What Design.md:172 asks for: manual and scheduled synchronization of one
\* connection do not run concurrently, the engine of a killed run included.
EnginesNeverOverlap ==
  \A r \in Runs : stage[r] \in Engine => orphans = {}

\* The --resync of an initial sync only starts for a binding whose own initial
\* dry run completed, whatever was saved, killed or retried in between.
ResyncOnlyAfterPreview ==
  \A r \in Runs :
    stage[r] = "engine" /\ mode[r] = "InitialSync" => tgt[r] \in previewed

\* initial-sync-complete is only ever found next to a baseline of that binding
\* which passed the checksum verification, not merely an engine exit of zero.
InitializedIsVerified ==
  BoundDir =>
    \A t \in Targets :
      WorkDir(t) \in syncMarker => based[WorkDir(t)] = t /\ t \in verified

\* An ordinary preview, sync or scheduled run works on the baseline of the
\* binding it loaded, even when the connection is edited while it runs.
OrdinaryRunHasBaseline ==
  \A r \in Runs :
    stage[r] \in Engine /\ ~IsInitial(mode[r]) => based[WorkDir(tgt[r])] = tgt[r]

\* Running in the state file, with nobody left who owes a result, means that a
\* process was killed or a result could not be written since the file was last
\* written; no return path of the coordinator or of Pause, Resume and Repair
\* leaves it behind, also after an earlier fault was recovered from.
StaleRunningOnlyByFault ==
  /\ coord.st = "Running"
  /\ \A r \in Runs : stage[r] \notin Open
  /\ others = {}
  => lost

\* A coordinator run never writes over the state of another that is open, and
\* Repair claims the file only while none is.
OpenRunOwnsState ==
  [][\A r \in Runs :
       stage[r] \in Open /\ coord' # coord =>
         \/ At(r, "final") /\ coord'.op = mode[r]
         \/ coord'.op \in Unlocked /\ coord' # [op |-> "Repair", st |-> "Running"]]_vars

-----------------------------------------------------------------------------
(* The inductive invariant behind the safety properties. *)

\* A run has a mode once requested and a binding once it loaded the config.
RunTyped ==
  \A r \in Runs :
    /\ stage[r] # "idle" => mode[r] \in Modes
    /\ stage[r] \notin {"idle", "load"} => tgt[r] \in Targets

\* The lock is held exactly by the run between acquisition and drop.
LockInv == \A r \in Runs : stage[r] \in Locked <=> lock = r

\* An open run finds its own Running and a run about to publish finds none, as
\* far as no other operation wrote over it.
StateInv ==
  \A r \in Runs :
    /\ stage[r] \in Open /\ r \notin uncovered =>
         coord = [op |-> mode[r], st |-> "Running"]
    /\ stage[r] = "publish" => coord.st # "Running" \/ coord.op \in Unlocked

\* An orphaned engine whose dead run's Running still stands is alone.
OrphanInv ==
  /\ orphans \ uncovered # {} =>
       /\ coord.st = "Running" /\ coord.op \in Modes
       /\ \A r \in Runs : stage[r] \notin Open
  /\ \A r, s \in orphans \ uncovered : r = s

\* The slot of an orphan is not in use, and only runs that are open, or have
\* just recorded their result, or left an orphan can have been uncovered.
SlotInv ==
  /\ \A r \in orphans : At(r, "idle")
  /\ \A r \in uncovered \ orphans : stage[r] \in Open \cup {"release"}

\* With a work directory per binding, markers vouch for that binding, and what
\* a run has been granted or has achieved stays true while it runs.
MarkerInv ==
  BoundDir =>
    /\ \A t \in Targets : t \in previewMarker => t \in previewed
    /\ \A t \in Targets : t \in syncMarker => based[t] = t /\ t \in verified
    /\ \A r \in Runs :
         /\ stage[r] \in Locked \ {"guard"} /\ mode[r] = "InitialSync" =>
              tgt[r] \in previewed
         /\ stage[r] \in Locked \ {"guard"} /\ ~IsInitial(mode[r]) =>
              based[tgt[r]] = tgt[r]
         /\ stage[r] = "verify" => ~IsPreview(mode[r])
         /\ stage[r] = "mark" =>
              IF mode[r] = "InitialPreview" THEN tgt[r] \in previewed
              ELSE mode[r] = "InitialSync" /\ tgt[r] \in verified
         /\ stage[r] \in {"verify", "mark"} /\ mode[r] = "InitialSync" =>
              based[tgt[r]] = tgt[r]

\* TypeOK and the parts above hold initially and survive every step.
IndInv ==
  /\ TypeOK /\ RunTyped /\ LockInv /\ StateInv /\ OrphanInv /\ SlotInv
  /\ StaleRunningOnlyByFault /\ MarkerInv
=============================================================================
