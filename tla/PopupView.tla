------------------------------ MODULE PopupView ------------------------------
(***************************************************************************)
(* What the popup shows of each connection and what it offers for it: the  *)
(* mount table it inspected, the cached unit states, the readiness of the  *)
(* network and of the VPN profile, and the count of pending files.  Every  *)
(* part is read by a task of its own and its result arrives later, while   *)
(* operations, workers and programs of the host go on.                     *)
(*                                                                         *)
(* The order of unit observations, the replay of the requests that wait    *)
(* for one and the confirmation of Repair are AppletRuntime: here an       *)
(* observation is read and accepted in one step. A connection has one      *)
(* operation at a time: the requests that replace one under way are        *)
(* OfflineControl. Ages are not counted: a view grows old, and a count is  *)
(* due again, at any time. The saved connections do not change; the        *)
(* conflicts, recovery records, metered state and dependencies of a        *)
(* ControllerSnapshot are never filled in by the applet and are left out.  *)
(***************************************************************************)
EXTENDS Naturals, FiniteSets

CONSTANTS
  Conns,      \* saved connections
  Kinds,      \* the kinds they may have, among those of AllKinds
  None,
  MaxRuns,    \* bound on the invocations of a worker's service
  MaxPolls,   \* bound on the polls of pending counts under way
  MaxEvents   \* bound on the requests, the losses, the closings of the popup and the
              \* ticks of the inspection

\* An rclone mount, an rclone mirror, one of OneDrive, one of the retired engine
AllKinds == {"mount", "live", "preview", "legacy"}

ASSUME ViewAssumption ==
  Kinds \subseteq AllKinds /\ MaxRuns \in Nat /\ MaxPolls \in Nat /\ MaxEvents \in Nat

VARIABLES
  kind, enabled,  \* of each connection, in the document
  left,       \* the events that may still come
  \* the host
  host,       \* connections whose folder is mounted
  service,    \* state of the service unit
  timer,      \* mirrors whose timer is active
  record,     \* mirrors whose coordinator state is failed or cancelled
  run,        \* invocations of the service so far
  worker,     \* progress of the current invocation
  named,      \* the invocation the progress state file names
  log,        \* the invocation whose progress the log holds
  \* the applet
  popup,      \* the popup is open
  entries,    \* mount_entries
  inspection, \* the inspection of the mount table under way, or None
  obsolete,   \* mount_inspection_obsolete
  seen,       \* unit_observation: services, timers and coordinator_states
  fresh,      \* those of which the observation is recent and did not fail
  network,    \* network_ready
  vpn,        \* connections whose profile is ready, or unknown (vpn_ready)
  needsRepair,\* online_repair_required
  waiting,    \* unit_operations_waiting
  task,       \* the operation of each connection
  counts,     \* pending_counts
  inflight,   \* pending_poll_inflight
  polls       \* the polls under way

hostVars == <<host, service, timer, record, run, worker, named, log>>
viewVars == <<entries, inspection, obsolete>>
unitVars == <<seen, fresh>>
countVars == <<counts, inflight, polls>>
still == <<kind, enabled, left>>
vars == <<still, hostVars, popup, viewVars, unitVars, network, vpn,
          needsRepair, waiting, task, countVars>>

Services == {"inactive", "active", "failed", "missing"}
Ops == {"Mount", "Unmount", "SyncNow", "PauseSync", "ResumeSync", "Repair"}
Seen == [service : Services \cup {"unseen"}, timer : {"unseen", "on", "off"},
         failed : BOOLEAN]

\* old and before are history: the table was read, the poll began, before an event
\* that made the result worthless.
Inspection == [read : BOOLEAN, found : SUBSET Conns, old : BOOLEAN]
Poll == [conn : Conns, pc : {"asked", "named", "matched", "read"}, current : BOOLEAN,
         inv : 0 .. MaxRuns, count : {"unknown", "known", "stale"}, before : BOOLEAN]
Count == [count : {"unknown", "known", "stale"}, before : BOOLEAN]

TypeOK ==
  /\ kind \in [Conns -> Kinds] /\ enabled \subseteq Conns /\ left \in 0 .. MaxEvents
  /\ host \subseteq Conns /\ service \in [Conns -> Services]
  /\ timer \subseteq Conns /\ record \subseteq Conns
  /\ run \in [Conns -> 0 .. MaxRuns] /\ named \in [Conns -> 0 .. MaxRuns]
  /\ worker \in [Conns -> {"none", "started", "half", "ready"}]
  /\ log \in [Conns -> 0 .. MaxRuns]
  /\ popup \in BOOLEAN /\ entries \subseteq Conns
  /\ inspection \in Inspection \cup {None} /\ obsolete \in BOOLEAN
  /\ seen \in [Conns -> Seen] /\ fresh \subseteq Conns
  /\ network \in BOOLEAN /\ vpn \subseteq Conns
  /\ needsRepair \subseteq Conns
  /\ waiting \in [Conns -> Ops \cup {None}] /\ task \in [Conns -> Ops \cup {None}]
  /\ counts \in [Conns -> Count \cup {None}] /\ inflight \subseteq Conns
  /\ polls \subseteq Poll

Mirror(c) == kind[c] # "mount"
Rclone(c) == kind[c] # "legacy"

Init ==
  /\ kind \in [Conns -> Kinds] /\ enabled \in SUBSET Conns /\ left = MaxEvents
  /\ host = {} /\ service = [c \in Conns |-> "inactive"]
  /\ timer = {c \in Conns : kind[c] \in {"live", "preview"}} /\ record = {}
  /\ run = [c \in Conns |-> 0] /\ worker = [c \in Conns |-> "none"]
  /\ named = [c \in Conns |-> 0]
  /\ log = [c \in Conns |-> 0]
  /\ popup = FALSE /\ entries = {} /\ inspection = None /\ obsolete = FALSE
  /\ seen = [c \in Conns |-> [service |-> "unseen", timer |-> "unseen", failed |-> FALSE]]
  /\ fresh = {}
  /\ network = TRUE /\ vpn = Conns
  /\ needsRepair = {} /\ waiting = [c \in Conns |-> None] /\ task = [c \in Conns |-> None]
  /\ counts = [c \in Conns |-> None] /\ inflight = {} /\ polls = {}

------------------------------------------------------------------------------
(* The cached state of a mirror and the row of the controller.             *)

\* mirror_operations_pending, repair_operations_pending
MirrorPending == {c \in Conns : Mirror(c) /\ task[c] \notin {None, "Repair"}}
RepairPending == {c \in Conns : task[c] = "Repair"}

\* offline_mirror_state_from_status
FromStatus(c, s) ==
  CASE kind[c] = "legacy" /\ s.service = "active" -> "Idle"
    [] kind[c] = "legacy" /\ s.service = "failed" -> "Failed"
    [] kind[c] # "legacy" /\ s.service = "active" -> "Running"
    [] kind[c] # "legacy" /\ s.service = "failed" /\ s.timer = "on" -> "Failed"
    [] kind[c] # "legacy" /\ s.service \notin {"active", "failed"} /\ s.timer = "on" -> "Idle"
    [] OTHER -> "Paused"

\* cached_offline_unit_state
UnitState(c, s) ==
  IF \/ s.service \in {"unseen", "missing"}
     \/ Rclone(c) /\ s.timer = "unseen" /\ s.service # "active"
  THEN "Unknown" ELSE FromStatus(c, s)

\* cached_offline_state
CachedState(c, s) ==
  IF s.service # "active" /\ s.failed THEN "Failed" ELSE UnitState(c, s)

\* The sync_state and paused_syncs of controller_snapshot
SyncState(c, s) == IF c \in MirrorPending THEN "Running" ELSE CachedState(c, s)
PausedSync(c, s) == c \notin MirrorPending /\ UnitState(c, s) = "Paused"

\* offline_status
OfflineStatus(c, s) ==
  LET state == SyncState(c, s)
      usable == state = "Idle" \/ (Rclone(c) /\ c \in enabled) IN
  CASE state = "Running" -> "Syncing"
    [] state = "Failed" -> "Error"
    [] state \notin {"Running", "Failed"} /\ ~usable -> "Unavailable"
    [] state \notin {"Running", "Failed"} /\ usable /\ PausedSync(c, s) -> "Paused"
    [] state \notin {"Running", "Failed"} /\ usable /\ ~PausedSync(c, s) ->
         CASE ~network -> "Offline"
           [] network /\ c \notin vpn -> "WaitingForVpn"
           [] network /\ c \in vpn -> "Idle"

\* online_status
OnlineStatus(c, s) ==
  LET present == c \in entries
      stopped == s.service \in {"inactive", "failed"}
      ready == network /\ c \in vpn IN
  CASE c \notin enabled -> "Unavailable"
    [] c \in enabled /\ (c \in needsRepair \/ (present /\ stopped)) -> "Error"
    [] c \in enabled \ needsRepair /\ present /\ ~stopped ->
         IF ready THEN "Mounted" ELSE "Degraded"
    [] c \in enabled \ needsRepair /\ ~present /\ ~ready ->
         IF network THEN "WaitingForVpn" ELSE "WaitingForNetwork"
    [] c \in enabled \ needsRepair /\ ~present /\ ready ->
         CASE s.service = "failed" -> "Error"
           [] s.service = "active" -> "Mounting"
           [] s.service \notin {"failed", "active"} -> "Unmounted"

Status(c, s) == IF Mirror(c) THEN OfflineStatus(c, s) ELSE OnlineStatus(c, s)

\* The enabled operations of controller::actions for an online mount
OnlineActions(status) ==
  CASE status = "Degraded" -> {"Unmount", "Repair"}
    [] status = "Error" -> {"Mount", "Repair"}
    [] status \in {"Mounted", "Mounting"} -> {"Unmount"}
    [] status \in {"Unmounted", "WaitingForVpn"} -> {"Mount"}
    [] OTHER -> {}

\* ... and for an offline mirror; Preview follows SyncNow.
OfflineActions(status) ==
  CASE status \in {"Idle", "Offline"} -> {"SyncNow", "PauseSync"}
    [] status = "Paused" -> {"ResumeSync", "SyncNow"}
    [] status = "Syncing" -> {"PauseSync", "Repair"}
    [] OTHER -> {"Repair"}

\* restore_connection: of the retired engine only Pause is left.
Offered(c, s) ==
  CASE kind[c] = "mount" -> OnlineActions(Status(c, s))
    [] kind[c] = "legacy" -> OfflineActions(Status(c, s)) \cap {"PauseSync"}
    [] kind[c] \notin {"mount", "legacy"} -> OfflineActions(Status(c, s))

\* unit_status_fresh
Fresh(c) == c \in fresh /\ seen[c].service # "unseen"

------------------------------------------------------------------------------
(* The host: mounts, services and workers.                                 *)

Event == left > 0 /\ left' = left - 1 /\ UNCHANGED <<kind, enabled>>

applet == <<popup, viewVars, unitVars, network, vpn, needsRepair, waiting, task,
            countVars>>

\* A mount process dies.
MountLost(c) ==
  /\ c \in host /\ host' = host \ {c}
  /\ service' = [service EXCEPT ![c] = "failed"]
  /\ UNCHANGED <<still, timer, record, run, worker, named, log, applet>>

\* The service of the retired engine, which the applet only observes.
LegacyStep(c) ==
  /\ kind[c] = "legacy"
  /\ \E s \in Services \ {service[c]} : service' = [service EXCEPT ![c] = s]
  /\ UNCHANGED <<still, host, timer, record, run, worker, named, log, applet>>

WorkerAt(c, w) == worker' = [worker EXCEPT ![c] = w]

\* The timer starts the worker: a new invocation of the service.  Its progress
\* is followed for the mirrors of which it is read.
RunStarts(c) ==
  /\ c \in timer /\ service[c] # "active"
  /\ service' = [service EXCEPT ![c] = "active"]
  /\ IF kind[c] = "live"
     THEN run[c] < MaxRuns /\ run' = [run EXCEPT ![c] = @ + 1] /\ WorkerAt(c, "started")
     ELSE run' = run /\ WorkerAt(c, "ready")
  /\ UNCHANGED <<still, host, timer, record, named, log, applet>>

EmptyLog(c) == log' = [log EXCEPT ![c] = run[c]]
NameRun(c) == named' = [named EXCEPT ![c] = run[c]]

\* Mutant of PrepareProgress: the state file is written before the log.
PrepareProgressStateFirst(c) ==
  \/ worker[c] = "started" /\ NameRun(c) /\ log' = log /\ WorkerAt(c, "half")
  \/ worker[c] = "half" /\ EmptyLog(c) /\ named' = named /\ WorkerAt(c, "ready")

\* prepare_scheduled_progress: each file is replaced by a rename, the log first.
PrepareProgress(c) ==
  \/ worker[c] = "started" /\ EmptyLog(c) /\ named' = named /\ WorkerAt(c, "half")
  \/ worker[c] = "half" /\ NameRun(c) /\ log' = log /\ WorkerAt(c, "ready")

\* A step of a scheduled run up to the start of rclone
WorkerPrepares(c) ==
  /\ PrepareProgress(c)
  /\ UNCHANGED <<still, host, service, timer, record, run, applet>>

\* The worker ends, at any point; a run that was refused records nothing.
RunEnds(c) ==
  /\ worker[c] # "none" /\ WorkerAt(c, "none")
  /\ \/ service' = [service EXCEPT ![c] = "inactive"] /\ record' = record \ {c}
     \/ service' = [service EXCEPT ![c] = "failed"] /\ record' \in {record, record \cup {c}}
  /\ UNCHANGED <<still, host, timer, run, named, log, applet>>

------------------------------------------------------------------------------
(* The inspection of the mount table.                                      *)

\* No entry is that of a mirror: without a mount, inspections are not followed.
NewInspection == IF \A c \in Conns : Mirror(c) THEN None
                 ELSE [read |-> FALSE, found |-> {}, old |-> FALSE]

\* Mutant of RefreshMounts: an inspection under way is taken for a new one.
RefreshMountsPending ==
  /\ inspection' = IF inspection = None THEN NewInspection
                   ELSE [inspection EXCEPT !.old = inspection.read]
  /\ UNCHANGED <<entries, obsolete>>

\* update(), after a message of refresh_mounts: the result of an inspection
\* that is under way will be discarded.
RefreshMounts ==
  /\ obsolete' = (inspection # None)
  /\ inspection' = IF inspection = None THEN NewInspection
                   ELSE [inspection EXCEPT !.old = inspection.read]
  /\ entries' = entries

\* host_mount_entries
InspectionReads ==
  /\ inspection # None /\ ~inspection.read
  /\ inspection' = [inspection EXCEPT !.read = TRUE, !.found = host]
  /\ UNCHANGED <<still, hostVars, popup, entries, obsolete, unitVars, network,
                 vpn, needsRepair, waiting, task, countVars>>

\* MountInspectionCompleted; a failed inspection leaves the entries alone.
MountInspectionCompleted ==
  /\ inspection # None /\ inspection.read
  /\ obsolete' = FALSE
  /\ IF obsolete
     THEN inspection' = NewInspection /\ entries' = entries
     ELSE inspection' = None /\ entries' \in {inspection.found, entries}
  /\ UNCHANGED <<still, hostVars, popup, unitVars, network, vpn, needsRepair,
                 waiting, task, countVars>>

\* MountInspectionTick, while the popup is open
MountInspectionTick ==
  /\ Event /\ popup /\ inspection = None
  /\ inspection' = NewInspection /\ inspection' # None
  /\ UNCHANGED <<hostVars, popup, entries, obsolete, unitVars, network,
                 vpn, needsRepair, waiting, task, countVars>>

------------------------------------------------------------------------------
(* The unit observation.                                                   *)

\* record_status: a missing service is known absence for the retired engine
\* and a failed read for the others.
ReadFails(c) == Rclone(c) /\ service[c] = "missing"

\* record_operation_request, with the observation s of the connection; a first
\* press of Repair only asks for confirmation (AppletRuntime).
Decided(c, op, s, confirmed) ==
  IF c \notin RepairPending /\ task[c] = None /\ op \in Offered(c, s) /\ confirmed
  THEN op ELSE task[c]

\* observe_offline_state_files, when those of files can be read
Recorded(files) == record \cap files

\* UnitObservationCompleted: a unit that was not read keeps its last observation,
\* a state file that was not read has none.  The requests that waited are decided
\* if their connection was read.
ObserveUnits ==
  \E units, files \in SUBSET Conns, confirmed \in BOOLEAN :
    LET unread == (Conns \ units) \cup {c \in Conns : ReadFails(c)} IN
    /\ popup \/ fresh # Conns
    /\ fresh' = files \ unread
    /\ seen' = [c \in Conns |->
         [service |-> IF c \in unread THEN seen[c].service ELSE service[c],
          timer |-> IF c \in unread THEN seen[c].timer
                    ELSE IF c \in timer THEN "on" ELSE "off",
          failed |-> c \in Recorded(files)]]
    /\ task' = [c \in Conns |-> IF waiting[c] = None \/ c \notin fresh' THEN task[c]
                ELSE Decided(c, waiting[c], seen'[c], waiting[c] # "Repair" \/ confirmed)]
    /\ waiting' = [c \in Conns |-> None]
    /\ UNCHANGED <<still, hostVars, popup, viewVars, network, vpn, needsRepair,
                   countVars>>

\* The observation grows 15 seconds old.
ViewAges ==
  /\ fresh # {} /\ fresh' = {}
  /\ UNCHANGED <<still, hostVars, popup, viewVars, seen, network, vpn,
                 needsRepair, waiting, task, countVars>>

------------------------------------------------------------------------------
(* Pending counts.  A poll belongs to the generation in which it started:  *)
(* current tells whether that is still the generation of the applet.       *)

\* Mutant of Expired: the generation stays.
ExpiredNot(ps, cs) == {[p EXCEPT !.before = @ \/ p.conn \in cs] : p \in ps}

\* pending_poll_generation is incremented: of the polls ps under way only their
\* ends are left to come.  The counts of the connections cs are void.
Expired(ps, cs) ==
  {[p EXCEPT !.before = @ \/ p.conn \in cs, !.current = FALSE, !.pc = "read",
             !.count = "unknown", !.inv = 0] : p \in ps}

WithoutCounts(cs) == [c \in Conns |-> IF c \in cs THEN None ELSE counts[c]]

\* TogglePopup, ConfigurationChanged, SleepEvent, NetworkStatusChecked(false)
ClearCounts == counts' = WithoutCounts(Conns) /\ polls' = Expired(polls, Conns)

\* MirrorProgress, over a log read for invocation inv: until both sides are
\* listed, and after a failure, nothing is known.  stale (history): what is
\* counted is the work of an earlier invocation.
Pending(c, inv) == {"unknown", IF log[c] < inv THEN "stale" ELSE "known"}

Running(c) == CachedState(c, seen[c]) = "Running"

NewPoll(c) == [conn |-> c, pc |-> "asked", current |-> TRUE, inv |-> 0,
               count |-> "unknown", before |-> FALSE]

\* PendingCountTick: mounts that are there, live counts of mirrors that run and
\* the last Preview of those of OneDrive that do not, unless it was read
\* recently.
PendingCountTick ==
  LET mounts == {c \in entries \cap enabled : kind[c] = "mount"}
      mirrors == {c \in enabled : kind[c] \in {"live", "preview"}}
      counted == {c \in mirrors : Running(c) <=> kind[c] = "live"}
      due == (mounts \cup (counted \ MirrorPending)) \ inflight
  IN
  /\ popup /\ network
  /\ counts' = WithoutCounts(Conns \ (mounts \cup counted))
  /\ \E recent \in SUBSET {c \in counted : counts[c] # None} :
       /\ inflight' = inflight \cup (due \ recent)
       /\ polls' = polls \cup {NewPoll(c) : c \in due \ recent}
  /\ Cardinality(polls') <= MaxPolls
  /\ UNCHANGED <<still, hostVars, popup, viewVars, unitVars, network, vpn,
                 needsRepair, waiting, task>>

Becomes(p, q) == polls' = (polls \ {p}) \cup {q}

\* rclone_online_pending asks the mount, rclone_preview_pending reads the file
\* of the last Preview.
PollReads(p) ==
  /\ p.pc = "asked" /\ kind[p.conn] # "live"
  /\ \E v \in {"unknown", "known"} :
       /\ kind[p.conn] = "mount" /\ v = "known" => p.conn \in host
       /\ Becomes(p, [p EXCEPT !.pc = "read", !.count = v])

\* rclone_mirror_live_pending: systemd names the current invocation,
PollNames(p) ==
  /\ p.pc = "asked" /\ kind[p.conn] = "live"
  /\ Becomes(p, IF run[p.conn] = 0 THEN [p EXCEPT !.pc = "read"]
                ELSE [p EXCEPT !.pc = "named", !.inv = run[p.conn]])

\* the state file must name the same,
PollMatches(p) ==
  /\ p.pc = "named"
  /\ Becomes(p, [p EXCEPT !.pc = IF named[p.conn] = p.inv THEN "matched" ELSE "read",
                        !.inv = IF named[p.conn] = p.inv THEN p.inv ELSE 0])

\* and the log is read.
PollCounts(p) ==
  /\ p.pc = "matched"
  /\ \E v \in Pending(p.conn, p.inv) :
       Becomes(p, [p EXCEPT !.pc = "read", !.count = v, !.inv = 0])

PollStep ==
  /\ \E p \in polls : p.current /\ (PollReads(p) \/ PollNames(p) \/ PollMatches(p) \/ PollCounts(p))
  /\ UNCHANGED <<still, hostVars, popup, viewVars, unitVars, network, vpn,
                 needsRepair, waiting, task, counts, inflight>>

\* The conditions under which PendingCountPolled keeps a result
Accepted(p) ==
  LET c == p.conn IN
  /\ p.current /\ network
  /\ kind[c] = "mount" => c \in entries
  /\ kind[c] = "live" => Running(c)
  /\ kind[c] = "preview" => c \notin MirrorPending /\ ~Running(c)

PendingCountPolled ==
  \E p \in polls :
    /\ p.pc = "read" /\ polls' = polls \ {p} /\ inflight' = inflight \ {p.conn}
    /\ counts' = IF Accepted(p)
                 THEN [counts EXCEPT ![p.conn] = [count |-> p.count, before |-> p.before]]
                 ELSE counts
    /\ UNCHANGED <<still, hostVars, popup, viewVars, unitVars, network, vpn,
                   needsRepair, waiting, task>>

------------------------------------------------------------------------------
(* The popup, its checks and its operations.                               *)

\* TogglePopup
PopupOpens ==
  /\ ~popup /\ popup' = TRUE
  /\ ClearCounts /\ inflight' = {} /\ vpn' = Conns
  /\ RefreshMounts
  /\ UNCHANGED <<still, hostVars, unitVars, network, needsRepair, waiting, task>>

PopupCloses ==
  /\ Event
  /\ popup /\ popup' = FALSE
  /\ RefreshMounts
  /\ UNCHANGED <<hostVars, unitVars, network, vpn, needsRepair, waiting,
                 task, countVars>>

\* VpnStatusChecked: the tunnels that are not ready; the check may be older than
\* the popup.
VpnStatusChecked ==
  \E ready \in SUBSET Conns :
    LET degraded == {c \in (entries \cap enabled) \ ready : kind[c] = "mount"} IN
    /\ Event /\ vpn' = ready
    /\ counts' = WithoutCounts(degraded)
    /\ polls' = IF degraded = {} THEN polls ELSE Expired(polls, degraded)
    /\ UNCHANGED <<hostVars, popup, viewVars, unitVars, network,
                   needsRepair, waiting, task, inflight>>

NetworkStatusChecked ==
  /\ \/ network' = TRUE /\ UNCHANGED <<still, counts, polls>>
     \/ Event /\ network' = FALSE /\ ClearCounts
  /\ UNCHANGED <<hostVars, popup, viewVars, unitVars, vpn, needsRepair,
                 waiting, task, inflight>>

\* ConfigurationChanged and the events of sleep
Cleared ==
  /\ Event
  /\ ClearCounts
  /\ UNCHANGED <<hostVars, popup, viewVars, unitVars, network, vpn,
                 needsRepair, waiting, task, inflight>>

OpsOf(c) == IF Mirror(c) THEN Ops \ {"Mount", "Unmount"} ELSE {"Mount", "Unmount", "Repair"}

\* OperationRequested: a request on a view that is not fresh waits.
Press(c, op) ==
  /\ Event
  /\ op \in OpsOf(c) /\ task[c] = None
  /\ counts' = WithoutCounts({c}) /\ polls' = Expired(polls, {c})
  /\ IF Fresh(c)
     THEN /\ \E confirmed \in BOOLEAN :
               task' = [task EXCEPT ![c] = Decided(c, op, seen[c], op # "Repair" \/ confirmed)]
          /\ waiting' = waiting
     ELSE waiting' = [waiting EXCEPT ![c] = op] /\ task' = task
  /\ UNCHANGED <<hostVars, popup, viewVars, unitVars, network, vpn,
                 needsRepair, inflight>>

\* What an operation that succeeded leaves of the connection; a failed one
\* leaves it as it was.
Done(c, op) ==
  /\ host' = CASE op = "Mount" -> host \cup {c}
               [] op \in {"Unmount", "Repair"} -> host \ {c}
               [] OTHER -> host
  /\ service' = [service EXCEPT ![c] = CASE op = "Mount" -> "active"
                                         [] op \in {"Unmount", "PauseSync", "Repair"} -> "inactive"
                                         [] OTHER -> @]
  /\ timer' = CASE op = "ResumeSync" -> timer \cup {c}
                [] op \in {"PauseSync", "Repair"} -> timer \ {c}
                [] OTHER -> timer
  /\ worker' = IF op \in {"PauseSync", "Repair"} THEN [worker EXCEPT ![c] = "none"] ELSE worker
  /\ record' = record \ {c}

\* update_online_repair_requirement; the end of Repair, good or bad, lifts it.
RepairRequirement(c, ok) ==
  needsRepair' = IF ok \/ task[c] = "Repair" THEN needsRepair \ {c}
                 ELSE IF task[c] = "Unmount" THEN needsRepair \cup {c} ELSE needsRepair

\* ManagedOnlineOperationCompleted, OnlineRepairCompleted, OfflineRepairCompleted
\* and MirrorOperationCompleted, with what update() adds: a forced refresh of the
\* units and a new inspection.  Only the end of a mirror operation drops the
\* count, and it does not change the generation.
Completed(c) ==
  /\ task[c] # None /\ task' = [task EXCEPT ![c] = None]
  /\ \/ Done(c, task[c]) /\ RepairRequirement(c, TRUE)
     \/ /\ record' = IF Mirror(c) THEN record \cup {c} ELSE record
        /\ UNCHANGED <<host, service, timer, worker>>
        /\ RepairRequirement(c, FALSE)
  /\ counts' = IF c \in MirrorPending THEN WithoutCounts({c}) ELSE counts
  /\ RefreshMounts /\ fresh' = {}
  /\ UNCHANGED <<still, run, named, log, popup, seen, network, vpn,
                 waiting, inflight, polls>>

------------------------------------------------------------------------------
Next ==
  \/ \E c \in Conns :
       \/ MountLost(c) \/ LegacyStep(c) \/ RunStarts(c) \/ WorkerPrepares(c)
       \/ RunEnds(c) \/ Completed(c)
       \/ \E op \in Ops : Press(c, op)
  \/ InspectionReads \/ MountInspectionCompleted \/ MountInspectionTick
  \/ ObserveUnits \/ ViewAges
  \/ PendingCountTick \/ PollStep \/ PendingCountPolled
  \/ PopupOpens \/ PopupCloses \/ VpnStatusChecked \/ NetworkStatusChecked \/ Cleared

Spec == Init /\ [][Next]_vars

------------------------------------------------------------------------------
\* A live count was read in the log of the invocation systemd named when the
\* poll began, or of a later one: however the worker's two files and the three
\* reads of the poll interleave, an earlier run that succeeded cannot make a new
\* one look clean (the comment of rclone_mirror_live_pending).
CountOfThisRun ==
  \A c \in Conns : counts[c] # None => counts[c].count # "stale"

\* No count is shown whose poll began before an event that voids it, however late
\* its result comes: a request for the connection, the opening of the popup, a new
\* configuration, sleep, the loss of the network or of the connection's tunnel.
\* The end of a mirror operation is no such event: a poll that started while the
\* request waited is kept.
CountNotVoid == \A c \in Conns : counts[c] # None => ~counts[c].before

\* The mount table that is installed was read after the last completed operation
\* and after the popup was last opened: no result that was on its way hides a
\* mount that is gone or a new one.
MountsCurrent ==
  [][entries' # entries => ~inspection.old]_vars

=============================================================================
