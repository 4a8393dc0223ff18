--------------------------- MODULE OfflineControl ---------------------------
(***************************************************************************)
(* Control of one rclone Offline Mirror by the applet: the popup decides   *)
(* from a cached observation which operations it offers, starts Preview or *)
(* Sync runs, Pause and Resume, and a Repair that stops the units, cancels *)
(* the manual operation and claims the coordinator.  The timer starts      *)
(* scheduled workers meanwhile.                                            *)
(*                                                                         *)
(* A coordinator run is reduced to what the others can see of it (see      *)
(* BisyncCoordinator): taking the lock after the guards, publishing        *)
(* Running, publishing a result, dropping the lock.  A write of the state  *)
(* file may fail, and the applet or the worker may die, at any step.       *)
(* Network, VPN, metered and conflict states, which only narrow what is    *)
(* offered, are left out.                                                  *)
(***************************************************************************)
CONSTANTS
  Manual,     \* operations of the applet that can be in flight at once
  Worker,     \* the worker process of the oneshot service
  None        \* no holder, no control, no operation

Runs == Manual \cup {Worker}

Operations == {"Run", "Pause", "Resume"}

\* What state.json names as the operation whose state it holds.
Writers == Operations \cup {"Repair"}

ASSUME SlotAssumption ==
  /\ Worker \notin Manual
  /\ None \notin Runs \cup Writers

States == {"None", "Running", "Succeeded", "Failed", "Cancelled", "Paused"}

\* start: requested; held: lock taken, guards passed; open: Running published;
\* closed: result published; units, units2: Pause and Resume at the systemd
\* manager; settle: about to write their result; finished: control.finish().
Stages == {"idle", "start", "held", "open", "closed", "units", "units2",
           "settle", "finished"}

\* The await points of execute_coordinated_offline_repair.
RepairStages == {"idle", "timer", "cancel", "wait", "service", "guard",
                 "result", "done"}

Statuses == {"Idle", "Paused", "Syncing", "Error"}

VARIABLES
  lock,       \* holder of operation.lock
  coord,      \* state of state.json
  by,         \* operation of state.json
  lost,       \* since the last write of state.json, one who had a result to
              \* write died or could not write it
  timer,      \* timer unit enabled and active
  service,    \* ActiveState of the service unit
  stage,      \* stage of each operation in flight
  op,         \* operation of each slot
  good,       \* result of each operation so far
  cancelled,  \* cancellation token of each operation
  pending,    \* mirror_operations_pending holds the connection
  control,    \* operation whose control mirror_operation_controls holds
  repair,     \* stage of the Repair task
  repairCtl,  \* control that the Repair task captured
  repairOk,   \* result of the Repair task so far
  obs         \* what a fresh unit_observation amounts to, None if not fresh

file == <<coord, by, lost>>
units == <<timer, service>>
tasks == <<stage, op, good, cancelled>>
ui == <<pending, control, obs>>
repairing == <<repair, repairCtl, repairOk>>
vars == <<lock, file, units, tasks, ui, repairing>>

TypeOK ==
  /\ lock \in Runs \cup {None}
  /\ coord \in States
  /\ by \in Writers \cup {None}
  /\ lost \in BOOLEAN
  /\ timer \in BOOLEAN
  /\ service \in {"inactive", "active", "failed"}
  /\ stage \in [Runs -> Stages]
  /\ op \in [Runs -> Operations \cup {None}]
  /\ good \in [Runs -> BOOLEAN]
  /\ cancelled \in [Runs -> BOOLEAN]
  /\ pending \in BOOLEAN
  /\ control \in Manual \cup {None}
  /\ repair \in RepairStages
  /\ repairCtl \in Manual \cup {None}
  /\ repairOk \in BOOLEAN
  /\ obs \in Statuses \cup {None}

\* An initialised mirror, saved with its units installed and paused.
Init ==
  /\ lock = None
  /\ coord = "None"
  /\ by = None
  /\ lost = FALSE
  /\ timer = FALSE
  /\ service = "inactive"
  /\ stage = [r \in Runs |-> "idle"]
  /\ op = [r \in Runs |-> None]
  /\ good = [r \in Runs |-> TRUE]
  /\ cancelled = [r \in Runs |-> FALSE]
  /\ pending = FALSE
  /\ control = None
  /\ repair = "idle"
  /\ repairCtl = None
  /\ repairOk = TRUE
  /\ obs = None

Go(r, s) == stage' = [stage EXCEPT ![r] = s]

At(r, s) == stage[r] = s

\* write_state replaces the file.
Write(state, who) == coord' = state /\ by' = who /\ lost' = FALSE

\* A result that could not be written: the old state stays.
Unwritten == UNCHANGED <<coord, by>> /\ lost' = TRUE

\* The operations of the slots in R are over and their locals are gone.
Idle(R) ==
  /\ stage' = [r \in Runs |-> IF r \in R THEN "idle" ELSE stage[r]]
  /\ op' = [r \in Runs |-> IF r \in R THEN None ELSE op[r]]
  /\ good' = [r \in Runs |-> IF r \in R THEN TRUE ELSE good[r]]
  /\ cancelled' = [r \in Runs |-> IF r \in R THEN FALSE ELSE cancelled[r]]

-----------------------------------------------------------------------------
\* What the popup offers.

\* offline_mirror_state_from_status for the rclone engine.
UnitState ==
  IF service = "active" THEN "Syncing"
  ELSE IF ~timer THEN "Paused"
  ELSE IF service = "failed" THEN "Error" ELSE "Idle"

\* cached_offline_state: a failed coordinator state shows unless the service
\* is active.
Observed ==
  IF service # "active" /\ coord \in {"Failed", "Cancelled"}
  THEN "Error" ELSE UnitState

\* controller_snapshot: an operation in flight shows as Running.
MirrorStatus == IF pending THEN "Syncing" ELSE obs

\* actions: the operations enabled for a status.
Offered(status) ==
  CASE status = "Idle" -> {"Run", "Pause"}
    [] status = "Paused" -> {"Resume", "Run"}
    [] status = "Syncing" -> {"Pause", "Repair"}
    [] status = "Error" -> {"Repair"}

\* record_operation_request accepts what a fresh observation offers and
\* nothing while a Repair is pending.
MayRequest(request) ==
  obs # None /\ repair = "idle" /\ request \in Offered(MirrorStatus)

\* observe_ui_units and UnitObservationCompleted.
Observe ==
  /\ obs' = Observed
  /\ UNCHANGED <<lock, file, units, tasks, pending, control, repairing>>

\* A new ManualOperationControl replaces the one the connection had.
Request(m, request) ==
  /\ At(m, "idle")
  /\ MayRequest(request)
  /\ Go(m, "start")
  /\ op' = [op EXCEPT ![m] = request]
  /\ pending' = TRUE
  /\ control' = m
  /\ UNCHANGED <<lock, file, units, good, cancelled, obs, repairing>>

\* MirrorOperationCompleted drops the pending mark and the control of the
\* connection, whichever operation they belong to, and forces a new look.
Completed(m) ==
  /\ At(m, "finished")
  /\ Idle({m})
  /\ pending' = FALSE
  /\ control' = None
  /\ obs' = None
  /\ UNCHANGED <<lock, file, units, repairing>>

-----------------------------------------------------------------------------
\* Coordinator runs, manual and scheduled.

IsRun(r) == r = Worker \/ op[r] = "Run"

\* Mutant of Admit: the state file alone keeps runs apart.
AdmitByState(r) ==
  /\ IsRun(r) /\ At(r, "start")
  /\ coord # "Running"
  /\ lock' = r
  /\ Go(r, "held")
  /\ UNCHANGED <<file, units, op, good, cancelled, ui, repairing>>

\* run_plan up to the check of the state file: lock free, no Running.
Admit(r) ==
  /\ IsRun(r) /\ At(r, "start")
  /\ lock = None
  /\ coord # "Running"
  /\ lock' = r
  /\ Go(r, "held")
  /\ UNCHANGED <<file, units, op, good, cancelled, ui, repairing>>

\* Exit of the worker decides the state of its unit.
UnitAfter(r, success) ==
  service' = IF r # Worker THEN service
             ELSE IF success THEN "inactive" ELSE "failed"

\* The call of the coordinator returns: a worker exits, a manual operation
\* signals its completion.
Return(r) ==
  \/ r = Worker /\ Idle({r})
  \/ r \in Manual /\ Go(r, "finished") /\ UNCHANGED <<op, good, cancelled>>

\* An error before Running is published; nothing is recorded.
Refuse(r) ==
  /\ IsRun(r) /\ stage[r] \in {"start", "held"}
  /\ lock' = IF lock = r THEN None ELSE lock
  /\ Return(r)
  /\ UnitAfter(r, FALSE)
  /\ UNCHANGED <<file, timer, ui, repairing>>

Publish(r) ==
  /\ IsRun(r) /\ At(r, "held")
  /\ Write("Running", "Run")
  /\ Go(r, "open")
  /\ UNCHANGED <<lock, units, op, good, cancelled, ui, repairing>>

\* Mutant of Result: the error of a cancelled transaction is not recorded.
ResultUncancelled(r, success) ==
  /\ IsRun(r) /\ At(r, "open")
  /\ good' = [good EXCEPT ![r] = success]
  /\ IF cancelled[r] /\ ~success THEN UNCHANGED file
     ELSE Write(IF success THEN "Succeeded" ELSE "Failed", "Run")
  /\ Go(r, "closed")
  /\ UNCHANGED <<lock, units, op, cancelled, ui, repairing>>

\* The transaction ends and its result is written; a cancelled token fails
\* the commands that are still to run.
Result(r, success) ==
  /\ IsRun(r) /\ At(r, "open")
  /\ good' = [good EXCEPT ![r] = success]
  /\ Write(IF success THEN "Succeeded"
           ELSE IF cancelled[r] THEN "Cancelled" ELSE "Failed", "Run")
  /\ Go(r, "closed")
  /\ UNCHANGED <<lock, units, op, cancelled, ui, repairing>>

\* The transaction ends and its result cannot be written, which fails the run.
ResultUnwritten(r) ==
  /\ IsRun(r) /\ At(r, "open")
  /\ good' = [good EXCEPT ![r] = FALSE]
  /\ Unwritten
  /\ Go(r, "closed")
  /\ UNCHANGED <<lock, units, op, cancelled, ui, repairing>>

Unlock(r) ==
  /\ IsRun(r) /\ At(r, "closed")
  /\ lock' = None
  /\ Return(r)
  /\ UnitAfter(r, good[r])
  /\ UNCHANGED <<file, timer, ui, repairing>>

TimerFires ==
  /\ timer
  /\ service # "active"
  /\ service' = "active"
  /\ Go(Worker, "start")
  /\ UNCHANGED <<lock, file, timer, op, good, cancelled, ui, repairing>>

-----------------------------------------------------------------------------
\* Pause and Resume, which write the state file without taking the lock.

Tracked(m) == op[m] \in {"Pause", "Resume"}

\* run_tracked_offline_operation publishes Running; without that the operation
\* itself is skipped.
TrackedBegin(m) ==
  /\ Tracked(m) /\ At(m, "start")
  /\ \/ Write("Running", op[m]) /\ Go(m, "units") /\ UNCHANGED good
     \/ Go(m, "settle") /\ good' = [good EXCEPT ![m] = FALSE] /\ UNCHANGED file
  /\ UNCHANGED <<lock, units, op, cancelled, ui, repairing>>

\* Pause stops and disables the timer; Resume does so while it reinstalls the
\* units, which the cancellation token does not reach.
TimerOff(m) ==
  /\ Tracked(m) /\ At(m, "units")
  /\ op[m] = "Pause" => ~cancelled[m]
  /\ timer' = FALSE
  /\ Go(m, "units2")
  /\ UNCHANGED <<lock, file, service, op, good, cancelled, ui, repairing>>

\* Stopping the service kills the worker, and with it its lock.
StopService ==
  /\ lock' = IF lock = Worker THEN None ELSE lock
  /\ service' \in IF service = "active" THEN {"inactive", "failed"} ELSE {service}

\* Pause stops and disables the service and requires it to be inactive; a
\* failed one, which Pause does not reset, is an error.
PauseService(m) ==
  /\ op[m] = "Pause" /\ At(m, "units2")
  /\ ~cancelled[m]
  /\ StopService
  /\ stage' = [stage EXCEPT ![Worker] = "idle", ![m] = "settle"]
  /\ good' \in {[good EXCEPT ![Worker] = TRUE, ![m] = g] :
                 g \in {FALSE, service' = "inactive"}}
  /\ UNCHANGED <<file, timer, op, cancelled, ui, repairing>>

\* resume_rclone_timer_with: enable, start and verify the timer.
ResumeTimer(m) ==
  /\ op[m] = "Resume" /\ At(m, "units2")
  /\ ~cancelled[m]
  /\ timer' = TRUE
  /\ Go(m, "settle")
  /\ UNCHANGED <<lock, file, service, op, good, cancelled, ui, repairing>>

\* A readiness guard or a systemd action fails or is cancelled, with the timer
\* already stopped or not; Resume rolls the timer back, which may fail too.
TrackedFail(m) ==
  /\ Tracked(m) /\ stage[m] \in {"units", "units2"}
  /\ good' = [good EXCEPT ![m] = FALSE]
  /\ Go(m, "settle")
  /\ timer' \in {timer} \cup IF At(m, "units") THEN {FALSE}
                            ELSE IF op[m] = "Resume" THEN BOOLEAN ELSE {}
  /\ UNCHANGED <<lock, file, service, op, cancelled, ui, repairing>>

\* Mutant of TrackedResult: only a success is recorded.
TrackedResultSuccessOnly(m) ==
  /\ Tracked(m) /\ At(m, "settle")
  /\ IF good[m] THEN Write("Succeeded", op[m]) ELSE UNCHANGED file
  /\ Go(m, "finished")
  /\ UNCHANGED <<lock, units, op, good, cancelled, ui, repairing>>

\* run_tracked_offline_operation writes the result, or cannot, and signals the
\* end.
TrackedResult(m) ==
  /\ Tracked(m) /\ At(m, "settle")
  /\ \/ Write(IF good[m] THEN "Succeeded"
              ELSE IF cancelled[m] THEN "Cancelled" ELSE "Failed", op[m])
     \/ Unwritten
  /\ Go(m, "finished")
  /\ UNCHANGED <<lock, units, op, good, cancelled, ui, repairing>>

-----------------------------------------------------------------------------
\* Repair.

RepairStep(from, to) == repair = from /\ repair' = to

\* The confirmed request captures the control the connection has now.
RequestRepair ==
  /\ MayRequest("Repair")
  /\ RepairStep("idle", "timer")
  /\ repairCtl' = control
  /\ repairOk' = TRUE
  /\ UNCHANGED <<lock, file, units, tasks, ui>>

\* pause_offline_repair_trigger: stop, disable and verify the timer.
RepairTimer ==
  /\ RepairStep("timer", "cancel")
  /\ timer' = FALSE
  /\ UNCHANGED <<lock, file, service, tasks, ui, repairCtl, repairOk>>

\* cancel_and_wait cancels the token of the captured control.
RepairCancel ==
  /\ RepairStep("cancel", "wait")
  /\ cancelled' = [r \in Runs |-> cancelled[r] \/ (r = repairCtl /\ ~At(r, "idle"))]
  /\ UNCHANGED <<lock, file, units, stage, op, good, ui, repairCtl, repairOk>>

ManualFinished(m) == stage[m] \in {"idle", "finished"}

\* It saw control.finish() within five seconds.
RepairWaited ==
  /\ RepairStep("wait", "service")
  /\ repairCtl # None => ManualFinished(repairCtl)
  /\ UNCHANGED <<lock, file, units, tasks, ui, repairCtl, repairOk>>

\* stop_disable_and_reconcile_offline_service: the worker dies, a failed unit
\* is reset; a later action or the final check may still fail.
RepairService ==
  /\ repair = "service"
  /\ \/ repair' = "guard" /\ service' = "inactive" /\ UNCHANGED repairOk
     \/ repair' = "result" /\ service' \in {"inactive", "failed"} /\ repairOk' = FALSE
  /\ lock' = IF lock = Worker THEN None ELSE lock
  /\ Idle({Worker})
  /\ UNCHANGED <<file, timer, ui, repairCtl>>

\* Mutant of RepairClaim: the state is written without owning the lock.
RepairClaimUnlocked ==
  /\ RepairStep("guard", "result")
  /\ Write("Running", "Repair")
  /\ UNCHANGED <<lock, units, tasks, ui, repairCtl, repairOk>>

\* The coordinator lock is taken, Running is written, the guard is dropped.
RepairClaim ==
  /\ RepairStep("guard", "result")
  /\ lock = None
  /\ Write("Running", "Repair")
  /\ UNCHANGED <<lock, units, tasks, ui, repairCtl, repairOk>>

\* Mutant of RepairFail: the wait for the manual operation is unbounded.
RepairFailUntimed ==
  /\ repair \in {"timer", "service", "guard"}
  /\ repair' = "result"
  /\ repairOk' = FALSE
  /\ timer' \in IF repair = "timer" THEN {timer, FALSE} ELSE {timer}
  /\ UNCHANGED <<lock, file, service, tasks, ui, repairCtl>>

\* Ownership check, systemd action, five second wait, lock or the write under
\* it: any may fail.
RepairFail ==
  /\ repair \in {"timer", "wait", "service", "guard"}
  /\ repair' = "result"
  /\ repairOk' = FALSE
  /\ timer' \in IF repair = "timer" THEN {timer, FALSE} ELSE {timer}
  /\ UNCHANGED <<lock, file, service, tasks, ui, repairCtl>>

\* run_offline_mirror_repair_operation records the outcome without the lock.
RepairResult ==
  /\ RepairStep("result", "done")
  /\ \/ Write(IF repairOk THEN "Paused" ELSE "Failed", "Repair")
     \/ Unwritten
  /\ UNCHANGED <<lock, units, tasks, ui, repairCtl, repairOk>>

\* OfflineRepairCompleted.
RepairCompleted ==
  /\ RepairStep("done", "idle")
  /\ repairCtl' = None
  /\ repairOk' = TRUE
  /\ obs' = None
  /\ UNCHANGED <<lock, file, units, tasks, pending, control>>

-----------------------------------------------------------------------------
\* Deaths.

\* An operation that has a result to write: Running is published, or was to be.
Owes(r) ==
  \/ At(r, "open")
  \/ Tracked(r) /\ stage[r] \in {"units", "units2", "settle"}

\* A Repair that has killed the worker or is about to write its result.
RepairOwes == repair \in {"guard", "result"}

\* The applet dies with its operations, its Repair and its lock.
AppletDies ==
  /\ lock' = IF lock \in Manual THEN None ELSE lock
  /\ lost' = (lost \/ RepairOwes \/ \E m \in Manual : Owes(m))
  /\ Idle(Manual)
  /\ pending' = FALSE
  /\ control' = None
  /\ repair' = "idle"
  /\ repairCtl' = None
  /\ repairOk' = TRUE
  /\ obs' = None
  /\ UNCHANGED <<coord, by, units>>

\* The worker of the oneshot service dies by itself, or reaches its time limit.
WorkerDies ==
  /\ service = "active"
  /\ service' = "failed"
  /\ lock' = IF lock = Worker THEN None ELSE lock
  /\ lost' = (lost \/ Owes(Worker))
  /\ Idle({Worker})
  /\ UNCHANGED <<coord, by, timer, ui, repairing>>

RunStep(r) ==
  \/ Admit(r) \/ Refuse(r) \/ Publish(r) \/ Unlock(r)
  \/ \E success \in {FALSE, ~cancelled[r]} : Result(r, success)
  \/ ResultUnwritten(r)

TrackedStep(m) ==
  \/ TrackedBegin(m) \/ TimerOff(m) \/ PauseService(m) \/ ResumeTimer(m)
  \/ TrackedFail(m) \/ TrackedResult(m)

RepairProgress ==
  \/ RepairTimer \/ RepairCancel \/ RepairWaited \/ RepairService \/ RepairClaim \/ RepairFail
  \/ RepairResult \/ RepairCompleted

Next ==
  \/ Observe
  \/ \E m \in Manual, request \in Operations : Request(m, request)
  \/ \E m \in Manual : Completed(m) \/ TrackedStep(m)
  \/ \E r \in Runs : RunStep(r)
  \/ TimerFires
  \/ RequestRepair \/ RepairProgress
  \/ AppletDies \/ WorkerDies

Spec == Init /\ [][Next]_vars

\* Repair is polled until it ends and each of its waits is bounded.
RepairFairSpec == Spec /\ WF_vars(RepairProgress)

\* The other tasks are polled too, and every external call in them has a
\* timeout.  Requests of the user and ticks of the timer are not fair.
TasksFair ==
  /\ \A m \in Manual : WF_vars(RunStep(m) \/ TrackedStep(m) \/ Completed(m))
  /\ WF_vars(RunStep(Worker))

-----------------------------------------------------------------------------
(* Properties. *)

\* The lock is held exactly by the coordinator run that is past its guards.
LockInv == \A r \in Runs : stage[r] \in {"held", "open", "closed"} <=> lock = r

\* The service unit is active exactly while its worker lives, and only
\* coordinator runs reach a stage of the coordinator.
SlotInv ==
  /\ op[Worker] = None
  /\ service = "active" <=> stage[Worker] # "idle"
  /\ \A r \in Runs : stage[r] \in {"held", "open", "closed"} => IsRun(r)

\* Types, lock ownership and slots, across every kill of a worker or applet.
ControlInv == TypeOK /\ LockInv /\ SlotInv

\* Two coordinator runs are never open together, whatever Pause, Resume and
\* Repair write to the state file behind their backs.
RunExclusion ==
  \A r, s \in Runs : At(r, "open") /\ At(s, "open") => r = s

\* Running is never left behind silently: somebody is at work who will replace
\* it, or since it was written one who should have has died or failed to write.
\* A worker that Pause or Repair kills in the middle of its run is covered by
\* the result of Pause or Repair.
NoAbandonedRunning ==
  coord = "Running" => lost \/ RepairOwes \/ \E r \in Runs : Owes(r)

\* Repair drops the lock that it claimed the mirror with and goes on: while the
\* file holds its Running nobody has the lock, so that no coordinator run is
\* past its guards, whatever else the user has in flight.
RepairShielded == coord = "Running" /\ by = "Repair" => lock = None

\* A Running in the state file is replaced, by whoever published it or killed
\* its worker, given that their tasks are polled and nobody is lost.
RunningSettles == TasksFair => (coord = "Running" ~> (coord # "Running" \/ lost))

\* Repair ends, also when the manual operation that it cancels never does.
RepairEnds == repair # "idle" ~> repair = "idle"

\* What the contract of Repair promises: it goes on to the service only when no
\* manual run of the coordinator is at work any more.  It fails: Pause is offered
\* while a run is in flight, takes the place of its control and is then the one
\* that Repair cancels and waits for.
RepairJoinsManual ==
  repair = "service" => \A m \in Manual : op[m] = "Run" => ManualFinished(m)

\* What the comment at the claim says: while another process has the lock, Repair
\* does not overwrite the Running of that process.  It fails: a Repair that ends
\* with an error before it stopped the worker records Failed over that Running.
RepairKeepsRunning ==
  [][RepairResult /\ coord = "Running" /\ lock = Worker => UNCHANGED coord]_vars
=============================================================================
