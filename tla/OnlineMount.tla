----------------------------- MODULE OnlineMount -----------------------------
(***************************************************************************)
(* One online mount between its operations and system sleep.  The applet   *)
(* runs Mount, Unmount, Repair and the restore after wake as independent   *)
(* tasks against a systemd service; logind announces sleep and the         *)
(* listener has a bounded time to detach the mount.  The online gate is    *)
(* what keeps them apart: begin_online_operation is refused while it is    *)
(* closed, closing it cancels every operation, and the clean-up waits      *)
(* until all have let go.                                                  *)
(*                                                                         *)
(* The saved start-at-login preference and the unit file are the subject   *)
(* of ConnectionLifecycle, the VPN of VpnSharing.                          *)
(***************************************************************************)
EXTENDS MountWarmup, Sequences, FiniteSets

CONSTANTS
  Tasks,      \* operations of the applet that can be in flight at once
  MaxEvents   \* bound on the sleeps, faults, warm-ups and edits of one behaviour

ASSUME OnlineAssumption == IsFiniteSet(Tasks) /\ MaxJobs \in Nat /\ MaxEvents \in Nat

TaskOps == {"None", "Mount", "Unmount", "Repair", "Restore"}

\* The await points of the operations, in the order of the code.
TaskStages == {"idle",
               "network",                                          \* Restore
               "prepare", "check", "start", "observe", "on",
               "off", "preload", "detach", "stop", "gone",         \* Unmount
               "rOff", "rPreload", "rStop", "rDetach", "rGone", "rReset",
               "report"}

\* down: not listening; subscribed: signals are queued; waiting: gate closed, operations still registered;
\* cleaning: clean_one at work; released: inhibitor given back.
ListenerStages == {"down", "subscribed", "listening", "waiting", "cleaning", "released"}

\* The await points of clean_owned: the mount table is read, then (without our
\* mount in it) the service state; after the stop the service state, then the
\* mount table.
CleanStages == {"none", "inspect", "look", "detach", "stop", "settle", "settled",
                "ok", "idle", "failed"}

VARIABLES
  host,       \* what logind does: awake, preparing, suspended
  signals,    \* PrepareForSleep signals that the listener has not read
  sleeps,     \* sleeps so far
  listener,   \* stage of listen()
  inhibitor,  \* the delay inhibitor is held
  preparing,  \* the gate is closed and its token cancelled
  epoch,      \* number of the gate's token
  cleaned,    \* stage and result of clean_one
  restore,    \* the connection is on the list of mounts to restore
  wake,       \* a Wake event with the connection is on its way to the popup
  op, stage,  \* operation and stage of each task
  tok,        \* epoch of the token that the task holds
  polled,     \* tasks whose current poll has passed the check of the token
  good,       \* result of each task so far
  awaited,    \* preload that an Unmount or Repair waits for, 0 if none
  unit,       \* ActiveState of the service
  mount,      \* what is mounted at local_path
  use,        \* the mount is quiet, or somebody holds it open (busy), or the
              \* process of the active service has yet to mount (starting)
  onedriver,  \* the engine is onedriver, else rclone
  saved,      \* the connection is saved, enabled and unchanged
  unmounting, \* unmount_pending holds the connection
  faults      \* failures of the listener and of the service so far

gate == <<preparing, epoch>>
hostvars == <<host, signals, sleeps>>
sleepvars == <<listener, inhibitor, cleaned, restore, wake>>
taskvars == <<op, stage, tok, polled, good, awaited>>
service == <<unit, mount, use>>
conf == <<onedriver, saved>>
vars == <<hostvars, sleepvars, gate, taskvars, service, conf, unmounting, faults, warmup>>

TypeOK ==
  /\ WarmupTypeOK
  /\ host \in {"awake", "preparing", "suspended"}
  /\ signals \in Seq(BOOLEAN)
  /\ sleeps \in 0..MaxEvents
  /\ listener \in ListenerStages
  /\ inhibitor \in BOOLEAN
  /\ preparing \in BOOLEAN
  /\ epoch \in Nat
  /\ cleaned \in CleanStages
  /\ restore \in BOOLEAN
  /\ wake \in BOOLEAN
  /\ op \in [Tasks -> TaskOps]
  /\ stage \in [Tasks -> TaskStages]
  /\ tok \in [Tasks -> Nat]
  /\ polled \in SUBSET Tasks
  /\ good \in [Tasks -> BOOLEAN]
  /\ awaited \in [Tasks -> 0..MaxJobs]
  /\ unit \in {"inactive", "activating", "active", "deactivating", "failed"}
  /\ mount \in {"none", "ours", "foreign"}
  /\ use \in {"quiet", "busy", "starting"}
  /\ onedriver \in BOOLEAN
  /\ saved \in BOOLEAN
  /\ unmounting \in BOOLEAN
  /\ faults \in 0..MaxEvents

Init ==
  /\ WarmupInit
  /\ host = "awake" /\ signals = <<>> /\ sleeps = 0
  /\ listener = "listening" /\ inhibitor = TRUE /\ cleaned = "none"
  /\ restore = FALSE /\ wake = FALSE
  /\ preparing = FALSE /\ epoch = 0
  /\ op = [t \in Tasks |-> "None"]
  /\ stage = [t \in Tasks |-> "idle"]
  /\ tok = [t \in Tasks |-> 0]
  /\ polled = {}
  /\ good = [t \in Tasks |-> TRUE]
  /\ awaited = [t \in Tasks |-> 0]
  /\ \/ unit = "inactive" /\ mount \in {"none", "foreign"}
     \/ unit = "active" /\ mount = "ours"
  /\ use = "quiet"
  /\ onedriver \in BOOLEAN /\ (onedriver => ~refresh)
  /\ saved = TRUE
  /\ unmounting = FALSE
  /\ faults = 0

-----------------------------------------------------------------------------
(* The online gate *)

Cancelled(epochOfToken) == epochOfToken < epoch \/ preparing

\* Operations that hold an OnlineOperation: active_operations counts them.
AtGate(t) ==
  /\ op[t] \in {"Mount", "Unmount", "Restore"}
  /\ stage[t] \notin {"idle", "network", "report"}

activeOperations ==
  Cardinality({t \in Tasks : AtGate(t)}) + Cardinality({j \in Jobs : JobAtGate(j)})

BeginAllowed == ~preparing

Preparing == preparing' = TRUE /\ epoch' = epoch

Awake == preparing' = FALSE /\ epoch' = IF preparing THEN epoch + 1 ELSE epoch

Running == host /= "suspended"

\* The bound: sleeps, faults, warm-ups and the edit share one budget.
Affordable ==
  sleeps + faults + Cardinality({j \in Jobs : jobStage[j] /= "unused"})
    + (IF saved THEN 0 ELSE 1) < MaxEvents

-----------------------------------------------------------------------------
(* Tasks of the applet *)

\* The select of run_managed_*_operation_result is biased: every poll looks at
\* the token first, then the operation runs on to its next await.
Poll(t) ==
  /\ Running
  /\ AtGate(t) \/ stage[t] = "network"
  /\ t \notin polled
  /\ ~Cancelled(tok[t])
  /\ polled' = polled \cup {t}
  /\ UNCHANGED <<hostvars, sleepvars, gate, op, stage, tok, good, awaited, service, conf,
                 unmounting, faults, warmup>>

CancelForSleep(t) ==
  /\ Running
  /\ AtGate(t) \/ stage[t] = "network"
  /\ t \notin polled
  /\ Cancelled(tok[t])
  /\ stage' = [stage EXCEPT ![t] = "report"]
  /\ good' = [good EXCEPT ![t] = FALSE]
  /\ UNCHANGED <<hostvars, sleepvars, gate, op, tok, polled, awaited, service, conf,
                 unmounting, faults, warmup>>

\* A task runs from one await to the next; Repair has no token.
At(t, s) == Running /\ stage[t] = s /\ (op[t] = "Repair" \/ t \in polled)

To(t, s) ==
  /\ stage' = [stage EXCEPT ![t] = s]
  /\ polled' = polled \ {t}
  /\ good' = good
  /\ UNCHANGED <<op, tok>>

Fail(t) ==
  /\ stage' = [stage EXCEPT ![t] = "report"]
  /\ polled' = polled \ {t}
  /\ good' = [good EXCEPT ![t] = FALSE]
  /\ UNCHANGED <<op, tok>>

Others == UNCHANGED <<hostvars, sleepvars, gate, conf, unmounting, faults>>

\* record_operation_request: refused only while a Repair is pending.
Request(t, o) ==
  /\ Running
  /\ stage[t] = "idle"
  /\ \A s \in Tasks : op[s] /= "Repair"
  /\ LET refused == o /= "Repair" /\ ~BeginAllowed
         first == CASE o = "Mount" -> "prepare" [] o = "Unmount" -> "off" [] OTHER -> "rOff"
     IN /\ stage' = [stage EXCEPT ![t] = IF refused THEN "report" ELSE first]
        /\ good' = [good EXCEPT ![t] = ~refused]
  /\ op' = [op EXCEPT ![t] = o]
  /\ tok' = [tok EXCEPT ![t] = epoch]
  /\ unmounting' = (unmounting \/ o = "Unmount")
  /\ UNCHANGED <<hostvars, sleepvars, gate, polled, awaited, service, conf, faults, warmup>>

\* Wake event in the popup, and the head of restore_online_after_wake_result.
StartRestore(t) ==
  /\ Running
  /\ wake
  /\ stage[t] = "idle"
  /\ wake' = FALSE
  /\ IF saved
     THEN /\ op' = [op EXCEPT ![t] = "Restore"]
          /\ stage' = [stage EXCEPT ![t] = IF preparing THEN "report" ELSE "network"]
          /\ good' = [good EXCEPT ![t] = ~preparing]
          /\ tok' = [tok EXCEPT ![t] = epoch]
     ELSE UNCHANGED <<op, stage, good, tok>>
  /\ UNCHANGED <<hostvars, listener, inhibitor, cleaned, restore, gate, polled, awaited,
                 service, conf, unmounting, faults, warmup>>

\* The network is back, or 90 seconds are over; the saved connection is read
\* again before the Mount registers with the gate.
RestoreReady(t) ==
  /\ At(t, "network")
  /\ \/ saved /\ BeginAllowed /\ To(t, "prepare")
     \/ Fail(t)
  /\ Others /\ UNCHANGED <<awaited, service, warmup>>

\* check_empty_mountpoint; the waits for VPN and remote access that follow
\* change nothing here and end before "check" or with a failure.
CheckEmptyMountpoint(t) ==
  /\ At(t, "prepare")
  /\ \/ mount = "none" /\ To(t, "check")
     \/ Fail(t)
  /\ Others /\ UNCHANGED <<awaited, service, warmup>>

\* The connection may have been disabled, removed or changed during the waits;
\* only then its unit is installed anew, which may fail.
StillSaved(t) ==
  /\ At(t, "check")
  /\ \/ saved /\ To(t, "start")
     \/ Fail(t)
  /\ Others /\ UNCHANGED <<awaited, service, warmup>>

\* start_managed_online_service up to the start job; a failed unit is reset.
StartService(t) ==
  /\ At(t, "start")
  /\ unit /= "deactivating"
  /\ \/ /\ unit' = IF unit \in {"inactive", "failed"} THEN "activating" ELSE unit
        /\ To(t, "observe")
        /\ UNCHANGED <<mount, use>>
     \/ Fail(t) /\ UNCHANGED service
  /\ Others /\ UNCHANGED <<awaited, warmup>>

\* Its observation of the unit for at most two seconds.
ObserveStart(t) ==
  /\ At(t, "observe")
  /\ \/ unit \in {"active", "activating"} /\ To(t, "on")
     \/ unit \notin {"active", "activating"} /\ Fail(t)
  /\ Others /\ UNCHANGED <<awaited, service, warmup>>

PersistOn(t) ==
  /\ At(t, "on")
  /\ To(t, "report") \/ Fail(t)
  /\ Others /\ UNCHANGED <<awaited, service, warmup>>

\* persist_online_popup_state(false), the first step of Unmount and of Repair.
PersistOff(t) ==
  /\ \/ At(t, "off") /\ To(t, "preload")
     \/ At(t, "rOff") /\ To(t, "rPreload")
     \/ (At(t, "off") \/ At(t, "rOff")) /\ Fail(t)
  /\ Others /\ UNCHANGED <<awaited, service, warmup>>

\* Cancel the warm-up.  A refresh is cancelled and unregistered at once; a
\* preload is awaited, its registration captured.
CancelWarmup(t) ==
  /\ At(t, "preload") \/ At(t, "rPreload")
  /\ awaited[t] = 0
  /\ CancelRegistered
  /\ \/ /\ registered /= 0 /\ ~refresh
        /\ awaited' = [awaited EXCEPT ![t] = registered]
        /\ UNCHANGED <<stage, polled, good, op, tok, registered>>
     \/ /\ registered = 0 \/ refresh
        /\ registered' = 0
        /\ To(t, IF op[t] = "Repair" THEN "rStop" ELSE "detach")
        /\ awaited' = awaited
  /\ UNCHANGED <<refresh, jobStage, jobTok, jobs, starting>>
  /\ Others /\ UNCHANGED service

\* cancel_with_timeout returns: the monitor is done, or the wait was too long,
\* which ends an Unmount and is ignored by Repair.
WarmupCancelled(t) ==
  /\ At(t, "preload") \/ At(t, "rPreload")
  /\ awaited[t] /= 0
  /\ awaited' = [awaited EXCEPT ![t] = 0]
  /\ LET done == jobStage[awaited[t]] \in {"ended", "seen"} IN
     /\ CASE op[t] = "Repair" -> To(t, "rStop")
          [] op[t] /= "Repair" /\ done -> To(t, "detach")
          [] OTHER -> Fail(t)
     /\ IF done THEN Unregister(awaited[t]) ELSE registered' = registered
  /\ UNCHANGED <<refresh, jobStage, jobCancelled, jobTok, jobs, starting>>
  /\ Others /\ UNCHANGED service

\* fusermount -u succeeds when nobody holds the mount.
Detachable == use /= "busy" /\ \A j \in Jobs : ~Walking(j)

\* A process that has yet to mount does not notice.
Detach == mount' = "none" /\ use' = IF mount = "none" THEN use ELSE "quiet"

\* clean_detach_before_service_stop: a busy mount is retried, then given up
\* with the service left alone.
CleanDetach(t) ==
  /\ At(t, "detach")
  /\ \/ /\ mount = "none" \/ Detachable
        /\ Detach
        /\ To(t, "stop")
     \/ mount /= "none" /\ Fail(t) /\ UNCHANGED <<mount, use>>
  /\ Others /\ UNCHANGED <<awaited, unit, warmup>>

StopUnit == unit' = IF unit \in {"active", "activating"} THEN "deactivating" ELSE unit

\* The stop of Unmount, which may fail, and of Repair, whose failure is ignored.
StopService(t) ==
  /\ \/ At(t, "stop") /\ StopUnit /\ To(t, "gone")
     \/ At(t, "stop") /\ Fail(t) /\ unit' = unit
     \/ At(t, "rStop") /\ (StopUnit \/ unit' = unit) /\ To(t, "rDetach")
  /\ Others /\ UNCHANGED <<awaited, mount, use, warmup>>

\* require_mount_disappearance_after_clean_stop; the stop job has ended.
RequireGone(t) ==
  /\ At(t, "gone")
  /\ unit /= "deactivating"
  /\ IF mount = "none" THEN To(t, "report") ELSE Fail(t)
  /\ Others /\ UNCHANGED <<awaited, service, warmup>>

\* repair_needs_lazy_detach and the lazy unmount of our own file system only.
RepairDetach(t) ==
  /\ At(t, "rDetach")
  /\ \/ mount /= "foreign" /\ Detach /\ To(t, "rGone")
     \/ mount /= "none" /\ Fail(t) /\ UNCHANGED <<mount, use>>
  /\ Others /\ UNCHANGED <<awaited, unit, warmup>>

RepairGone(t) ==
  /\ At(t, "rGone")
  /\ IF mount = "none" THEN To(t, "rReset") ELSE Fail(t)
  /\ Others /\ UNCHANGED <<awaited, service, warmup>>

\* reconcile_online_repair_service
RepairReset(t) ==
  /\ At(t, "rReset")
  /\ \/ unit' = (IF unit = "failed" THEN "inactive" ELSE unit) /\ To(t, "report")
     \/ unit' = unit /\ Fail(t)
  /\ Others /\ UNCHANGED <<awaited, mount, use, warmup>>

\* ManagedOnlineOperationCompleted and OnlineRepairCompleted: a mount is warmed
\* up if the policy says so, an unmount clears the job maps.
Completed(t) ==
  /\ Running
  /\ stage[t] = "report"
  /\ stage' = [stage EXCEPT ![t] = "idle"]
  /\ op' = [op EXCEPT ![t] = "None"]
  /\ tok' = [tok EXCEPT ![t] = 0]
  /\ good' = [good EXCEPT ![t] = TRUE]
  /\ unmounting' = (unmounting /\ op[t] /= "Unmount")
  /\ \/ /\ op[t] \in {"Mount", "Restore"} /\ good[t]
        /\ Affordable
        /\ \E j \in Jobs : StartPreload(j) \/ StartRefresh(j, preparing, epoch)
     \/ /\ op[t] = "Unmount" /\ good[t]
        /\ jobs' = 0 /\ starting' = FALSE
        /\ UNCHANGED <<refresh, jobStage, jobCancelled, jobTok, registered>>
     \/ /\ ~(op[t] = "Unmount" /\ good[t])
        /\ UNCHANGED warmup
  /\ UNCHANGED <<hostvars, sleepvars, gate, polled, awaited, service, conf, faults>>

\* RuntimeEvent Ready: warm up what is mounted and has no entry.
WarmupActive ==
  /\ Running
  /\ mount = "ours"
  /\ jobs = 0 /\ ~starting
  /\ Affordable
  /\ \E j \in Jobs : StartPreload(j) \/ StartRefresh(j, preparing, epoch)
  /\ UNCHANGED <<hostvars, sleepvars, gate, taskvars, service, conf, unmounting, faults>>

WarmupStep ==
  /\ Running
  /\ \E j \in Jobs :
       \/ SubmitRefresh(j, Cancelled(jobTok[j]))
       \/ RefreshStarted(j, unmounting)
       \/ MonitorBegin(j, ~BeginAllowed, epoch)
       \/ MonitorDeepen(j, Cancelled(jobTok[j]))
       \/ MonitorEnd(j)
       \/ JobCompleted(j)
  /\ UNCHANGED <<hostvars, sleepvars, gate, taskvars, service, conf, unmounting, faults>>

-----------------------------------------------------------------------------
(* The sleep listener *)

Listening == UNCHANGED <<host, sleeps, taskvars, conf, unmounting, warmup>>

\* listen(): signals and inhibitor first, then the property is read.
Subscribe ==
  /\ Running
  /\ listener = "down"
  /\ listener' = "subscribed" /\ inhibitor' = TRUE /\ signals' = <<>>
  /\ cleaned' = "none" /\ restore' = FALSE
  /\ UNCHANGED <<wake, gate, service, faults>> /\ Listening

\* A listener that reads the property and leaves the gate as it was.
ReadPreparingNoReset ==
  /\ Running
  /\ listener = "subscribed"
  /\ IF host = "preparing"
     THEN listener' = "released" /\ inhibitor' = FALSE /\ Preparing
     ELSE listener' = "listening" /\ UNCHANGED <<inhibitor, gate>>
  /\ UNCHANGED <<signals, cleaned, restore, wake, service, faults>> /\ Listening

ReadPreparing ==
  /\ Running
  /\ listener = "subscribed"
  /\ IF host = "preparing"
     THEN listener' = "released" /\ inhibitor' = FALSE /\ Preparing
     ELSE listener' = "listening" /\ inhibitor' = inhibitor /\ Awake
  /\ UNCHANGED <<signals, cleaned, restore, wake, service, faults>> /\ Listening

\* PrepareForSleep(true): the gate closes; one that repeats is ignored.
GoingToSleep ==
  /\ Running
  /\ signals /= <<>> /\ Head(signals)
  /\ signals' = Tail(signals)
  /\ \/ listener = "listening" /\ listener' = "waiting" /\ Preparing
     \/ listener = "released" /\ listener' = listener /\ UNCHANGED gate
  /\ UNCHANGED <<inhibitor, cleaned, restore, wake, service, faults>> /\ Listening

\* The clean-up starts although operations are registered.
IdleReachedUnwaited ==
  /\ Running
  /\ listener = "waiting"
  /\ listener' = "cleaning" /\ cleaned' = "inspect"
  /\ UNCHANGED <<signals, inhibitor, restore, wake, gate, service, faults>> /\ Listening

\* wait_for_online_idle
IdleReached ==
  /\ Running
  /\ listener = "waiting"
  /\ activeOperations = 0
  /\ listener' = "cleaning" /\ cleaned' = "inspect"
  /\ UNCHANGED <<signals, inhibitor, restore, wake, gate, service, faults>> /\ Listening

\* The deadline passes first: nothing is cleaned, sleep goes on.
IdleTimeout ==
  /\ Running
  /\ listener = "waiting"
  /\ activeOperations /= 0
  /\ listener' = "released" /\ inhibitor' = FALSE /\ cleaned' = "failed" /\ restore' = FALSE
  /\ UNCHANGED <<signals, wake, gate, service, faults>> /\ Listening

CleanTo(s) ==
  /\ cleaned' = s
  /\ UNCHANGED <<signals, listener, inhibitor, restore, wake, gate, faults>>
  /\ Listening

Cleaning(s) == Running /\ listener = "cleaning" /\ cleaned = s

\* clean_one, clean_owned: ownership and the file system in the mount table are
\* checked first; then, before anything is stopped, the uploads, of which only a
\* live rclone can say that they are idle, and the stop policy.
CleanInspect ==
  /\ Cleaning("inspect")
  /\ UNCHANGED service
  /\ \/ mount = "none" /\ CleanTo("look")
     \/ mount = "ours" /\ onedriver /\ CleanTo("detach")
     \/ mount = "ours" /\ ~onedriver /\ unit = "active" /\ CleanTo("stop")
     \/ CleanTo("failed")

\* Mutant of CleanLook: a service that is still starting does not count.
CleanLookActiveOnly ==
  /\ Cleaning("look")
  /\ UNCHANGED service
  /\ \/ unit /= "active" /\ CleanTo("idle")
     \/ unit = "active" /\ CleanTo("stop")
     \/ CleanTo("failed")

\* active(), awaited when our mount was not in the table.
CleanLook ==
  /\ Cleaning("look")
  /\ UNCHANGED service
  /\ \/ unit \in {"inactive", "failed"} /\ CleanTo("idle")
     \/ unit \notin {"inactive", "failed"} /\ CleanTo("stop")
     \/ CleanTo("failed")

\* onedriver is detached first: a busy mount keeps its service.
CleanDetachFirst ==
  /\ Cleaning("detach")
  /\ unit' = unit
  /\ \/ (mount = "none" \/ Detachable) /\ Detach /\ CleanTo("stop")
     \/ mount /= "none" /\ CleanTo("failed") /\ UNCHANGED <<mount, use>>

CleanStop ==
  /\ Cleaning("stop")
  /\ StopUnit
  /\ CleanTo("settle")
  /\ UNCHANGED <<mount, use>>

\* The last loop of clean_owned: active() first ...
CleanSettle ==
  /\ Cleaning("settle")
  /\ unit \in {"inactive", "failed"}
  /\ CleanTo("settled")
  /\ UNCHANGED service

\* ... then the mount table; what is still mounted is detached and looked at
\* again.
CleanSettled ==
  /\ Cleaning("settled")
  /\ unit' = unit
  /\ \/ mount = "none" /\ CleanTo("ok") /\ UNCHANGED <<mount, use>>
     \/ mount /= "none" /\ Detachable /\ Detach /\ CleanTo("settle")
     \/ mount /= "none" /\ ~Detachable /\ CleanTo("failed") /\ UNCHANGED <<mount, use>>

CleanDeadline ==
  /\ Running
  /\ listener = "cleaning"
  /\ cleaned \in {"look", "detach", "stop", "settle", "settled"}
  /\ CleanTo("failed")
  /\ UNCHANGED service

\* The report: the inhibitor is released, what was unmounted will be restored.
CleanupReport ==
  /\ Running
  /\ listener = "cleaning"
  /\ cleaned \in {"ok", "idle", "failed"}
  /\ listener' = "released" /\ inhibitor' = FALSE
  /\ restore' = (cleaned = "ok")
  /\ UNCHANGED <<signals, cleaned, wake, gate, service, faults>> /\ Listening

\* PrepareForSleep(false): the gate opens before the inhibitor is taken again;
\* if that fails the list of mounts is lost with the listener.
Wake ==
  /\ Running
  /\ signals /= <<>> /\ ~Head(signals)
  /\ signals' = Tail(signals)
  /\ \/ /\ listener = "released" /\ Awake
        /\ restore' = FALSE /\ cleaned' = "none"
        /\ \/ /\ listener' = "listening" /\ inhibitor' = TRUE /\ wake' = (wake \/ restore)
              /\ faults' = faults
           \/ /\ Affordable /\ faults' = faults + 1
              /\ listener' = "down" /\ inhibitor' = FALSE /\ wake' = wake
     \/ /\ listener = "listening"
        /\ UNCHANGED <<listener, inhibitor, wake, restore, cleaned, gate, faults>>
  /\ UNCHANGED service /\ Listening

\* An error of listen(), or the end of the signal stream, also after the
\* inhibitor was released: the gate keeps its state until the next attempt.
ListenFails ==
  /\ Running
  /\ Affordable
  /\ listener \in {"subscribed", "listening", "waiting", "released"}
  /\ listener' = "down" /\ inhibitor' = FALSE /\ signals' = <<>>
  /\ faults' = faults + 1
  /\ UNCHANGED <<cleaned, restore, wake, gate, service>> /\ Listening

\* The subscription is removed (preference off, runtime lost): ResetGate.
ListenerDropped ==
  /\ Running
  /\ Affordable
  /\ listener /= "down"
  /\ listener' = "down" /\ inhibitor' = FALSE /\ signals' = <<>>
  /\ cleaned' = "none" /\ restore' = FALSE
  /\ Awake
  /\ faults' = faults + 1
  /\ UNCHANGED <<wake, service>> /\ Listening

-----------------------------------------------------------------------------
(* logind, systemd and the user *)

Emit(b) == signals' = IF listener = "down" THEN signals ELSE Append(signals, b)

HostPrepare ==
  /\ host = "awake" /\ Affordable
  /\ host' = "preparing" /\ sleeps' = sleeps + 1
  /\ Emit(TRUE)
  /\ UNCHANGED <<sleepvars, gate, taskvars, service, conf, unmounting, faults, warmup>>

\* Without an inhibitor, or when its delay is over.
HostSuspend ==
  /\ host = "preparing"
  /\ host' = "suspended"
  /\ UNCHANGED <<signals, sleeps, sleepvars, gate, taskvars, service, conf, unmounting,
                 faults, warmup>>

HostResume ==
  /\ host /= "awake"
  /\ host' = "awake"
  /\ Emit(FALSE)
  /\ UNCHANGED <<sleeps, sleepvars, gate, taskvars, service, conf, unmounting, faults, warmup>>

\* The service is Type=simple: it is active as soon as the guard of its
\* ExecCondition has let the process start, and the process mounts later.  After
\* a failure, which may leave the mount behind, it waits for its restart
\* (activating) or has failed for good.
ServiceStep ==
  /\ Running
  /\ \/ /\ unit = "activating" /\ saved /\ mount = "none"
        /\ unit' = "active" /\ use' = "starting" /\ UNCHANGED <<mount, faults>>
     \/ /\ unit = "activating" /\ (~saved \/ mount /= "none")
        /\ unit' = "inactive" /\ UNCHANGED <<mount, use, faults>>
     \/ /\ unit = "active" /\ use = "starting"
        /\ mount' = "ours" /\ use' = "quiet" /\ UNCHANGED <<unit, faults>>
     \/ /\ unit = "active" /\ mount = "none" /\ use /= "starting"
        /\ unit' = "inactive" /\ UNCHANGED <<mount, use, faults>>
     \/ /\ unit = "deactivating"
        /\ unit' = "inactive"
        /\ mount' = IF mount = "ours" /\ use /= "busy" THEN "none" ELSE mount
        /\ use' = IF mount' = "none" THEN "quiet" ELSE use
        /\ faults' = faults
     \/ /\ unit \in {"activating", "active"} /\ Affordable
        /\ unit' \in {"activating", "failed"}
        /\ use' = IF use = "starting" THEN "quiet" ELSE use
        /\ faults' = faults + 1 /\ UNCHANGED mount
  /\ UNCHANGED <<hostvars, sleepvars, gate, taskvars, conf, unmounting, warmup>>

\* Somebody opens or closes files on the mount.
UserUses ==
  /\ Running
  /\ mount = "ours"
  /\ use' = IF use = "quiet" THEN "busy" ELSE "quiet"
  /\ UNCHANGED <<hostvars, sleepvars, gate, taskvars, unit, mount, conf, unmounting, faults,
                 warmup>>

\* The connection is disabled, removed or changed in the settings window.
UserEdits ==
  /\ Running
  /\ Affordable
  /\ saved /\ saved' = FALSE
  /\ UNCHANGED <<hostvars, sleepvars, gate, taskvars, service, onedriver, unmounting, faults,
                 warmup>>

-----------------------------------------------------------------------------

TaskStep(t) ==
  \/ CheckEmptyMountpoint(t) \/ StillSaved(t)
  \/ StartService(t) \/ ObserveStart(t) \/ PersistOn(t) \/ RestoreReady(t)
  \/ PersistOff(t) \/ CancelWarmup(t) \/ WarmupCancelled(t) \/ CleanDetach(t)
  \/ StopService(t) \/ RequireGone(t)
  \/ RepairDetach(t) \/ RepairGone(t) \/ RepairReset(t)

ListenerStep ==
  \/ Subscribe \/ ReadPreparing \/ GoingToSleep \/ IdleReached \/ IdleTimeout
  \/ CleanInspect \/ CleanLook \/ CleanDetachFirst \/ CleanStop
  \/ CleanSettle \/ CleanSettled \/ CleanDeadline
  \/ CleanupReport \/ Wake

Next ==
  \/ \E t \in Tasks : \/ Poll(t) \/ CancelForSleep(t) \/ TaskStep(t)
                      \/ StartRestore(t) \/ Completed(t)
                      \/ \E o \in {"Mount", "Unmount", "Repair"} : Request(t, o)
  \/ WarmupActive \/ WarmupStep
  \/ ListenerStep \/ ListenFails \/ ListenerDropped
  \/ HostPrepare \/ HostSuspend \/ HostResume
  \/ ServiceStep \/ UserEdits \/ UserUses

Spec == Init /\ [][Next]_vars

\* The listener is a task of the runtime that is polled; a sleep of the host
\* ends; systemd finishes its jobs.  Operations, warm-ups and the user owe
\* nothing.
FairSpec ==
  Spec /\ WF_vars(ListenerStep) /\ WF_vars(HostResume) /\ WF_vars(ServiceStep)

-----------------------------------------------------------------------------

\* What a clean-up reports without a failure is true from the report to the
\* wake-up, whatever operation was in flight when sleep was announced: a
\* connection that was cleaned is unmounted, and the service of one that needed
\* no cleaning, like that of a cleaned one, does not come back.
CleanSuspend ==
  listener = "released" /\ cleaned \in {"ok", "idle"} =>
    /\ unit \in {"inactive", "failed"}
    /\ cleaned = "ok" => mount = "none"

\* What the requirements say of a mount that completes late: it does not happen
\* during the clean-up.  It fails for the service of an operation that is over:
\* it mounts after the mount table was read and fails before its state is read,
\* and the host suspends with the mount and a report that nothing was to do.
LateMountExcluded ==
  host = "suspended" /\ listener = "released" /\ cleaned = "idle" => mount /= "ours"

\* Clean-up never overtakes an operation or a warm-up that is registered with
\* the gate ("Registration keeps cleanup from overtaking an in-flight mount
\* command").
CleanupAlone == listener = "cleaning" => activeOperations = 0

\* The gate does not stay closed once the host is awake for good: not after a
\* listener that failed half-way, nor after a signal that nobody read.
GateReopens == preparing ~> ~preparing

=============================================================================
