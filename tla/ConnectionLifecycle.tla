-------------------------- MODULE ConnectionLifecycle --------------------------
(***************************************************************************)
(* One saved connection between the Settings window and the applet.  Both  *)
(* processes read and write the whole configuration document without a     *)
(* lock: Settings on Save, Import, Remove and Reorder, the applet whenever *)
(* the popup turns a mount on or off, with a call to systemd between its   *)
(* read and its write.  Each change is followed by unit work in a task of  *)
(* its own (UnitController): install after Save and Import and at the      *)
(* start of the applet, removal after Remove, retirement of units that the *)
(* former OneDrive engine left.                                            *)
(*                                                                         *)
(* Of the document the model keeps the record of the connection: its       *)
(* version and whether it starts at login.  What the connection says, and  *)
(* how a draft becomes one, is the subject of ConnectionEditor.  A handler *)
(* that reads and writes the document without an await is one step.        *)
(***************************************************************************)
EXTENDS UnitController

VARIABLES
  kind,      \* online mount, rclone mirror, or mirror of the former engine
  document,  \* the record in the document on disk
  cache,     \* the copy that Settings works on, AppModel::config
  draft,     \* the editor: start_at_login as it was when the draft was loaded
  preview,   \* an import preview of the connection is offered
  pendingRemove, removing,
  edits,     \* versions so far
  disturbed, \* a failure was reported or two writers met since the last success
  report     \* how the last task ended

settings == <<cache, draft, preview, pendingRemove, removing, edits>>
vars == <<units, task, faults, kind, document, settings, disturbed, report>>

Kinds == {"online", "offline", "legacy"}
\* The units that the connection may have.
UnitsOf == IF kind = "offline" THEN Units ELSE {"service"}

Records == [rec : {Missing} \cup Versions, login : BOOLEAN]
NoRecord == [rec |-> Missing, login |-> FALSE]

TaskRecords ==
  [op : {"none", "install", "persist", "remove", "retire"}, owner : {"applet", "settings"},
   pc : Pcs, role : {"service", "timer", "rollback"}, new : Contents, prev : Contents,
   service : Contents, error : Results, login : BOOLEAN, cfg : Records,
   before : [Units -> Contents], alone : BOOLEAN]

TypeOK ==
  /\ file \in [Units -> Contents] /\ loaded \in [Units -> Contents]
  /\ enabled \in [Units -> BOOLEAN] /\ active \in [Units -> BOOLEAN]
  /\ task \in [Tasks -> TaskRecords]
  /\ faults \in 0..MaxFaults
  /\ kind \in Kinds
  /\ document \in Records /\ cache \in Records
  /\ draft \in {"closed", "on", "off"}
  /\ preview \in BOOLEAN /\ pendingRemove \in BOOLEAN /\ removing \in BOOLEAN
  /\ edits \in {Missing} \cup Versions
  /\ disturbed \in BOOLEAN
  /\ report \in Results

\* Nothing saved yet, with or without an import preview, or version 1 saved
\* and installed by an earlier session.
Init ==
  /\ kind \in Kinds
  /\ \E saved \in BOOLEAN, login \in BOOLEAN :
       /\ kind = "legacy" => saved
       /\ login => saved /\ kind = "online"
       /\ document = IF saved THEN [rec |-> 1, login |-> login] ELSE NoRecord
       /\ file = [u \in Units |-> IF saved /\ u \in UnitsOf THEN 1 ELSE Missing]
       /\ enabled = [u \in Units |-> saved /\ IF u = "timer" THEN kind = "offline"
                                             ELSE IF kind = "online" THEN login
                                             ELSE kind = "legacy"]
       /\ preview \in BOOLEAN /\ (preview => ~saved /\ kind = "online")
       /\ edits = IF saved \/ preview THEN 1 ELSE 0
  /\ loaded = file /\ active = enabled
  /\ cache = document /\ draft = "closed"
  /\ task = [t \in Tasks |-> IdleTask]
  /\ pendingRemove = FALSE /\ removing = FALSE
  /\ disturbed = FALSE /\ report = "ok" /\ faults = 0

-----------------------------------------------------------------------------
(* Tasks                                                                    *)

Busy == {t \in Tasks : task[t].op /= "none"}

\* Spawn a task for the record in the document (current) or for an older one;
\* tasks that overlap are not alone.
Spawn(t, new, current) ==
  /\ task[t].op = "none"
  /\ task' = [x \in Tasks |->
       IF x = t THEN [new EXCEPT !.alone = current /\ Busy = {}, !.before = file]
       ELSE [task[x] EXCEPT !.alone = FALSE]]

SpawnInstall(t, who, record, current) ==
  Spawn(t, [IdleTask EXCEPT !.op = "install", !.owner = who, !.new = record.rec,
                            !.login = record.login,
                            !.pc = IF kind = "offline" THEN "check" ELSE "write"],
        current)

\* Somebody else changed what a running task works on.
Disturb == task' = [t \in Tasks |-> [task[t] EXCEPT !.alone = FALSE]] /\ disturbed' = TRUE

\* Errors that leave the policy as it was are no disturbance.
End(t, result) ==
  /\ task' = [task EXCEPT ![t] = IdleTask]
  /\ report' = result
  /\ disturbed' = IF result = "ok" /\ task[t].alone /\ task[t].op \in {"install", "remove"}
                  THEN FALSE
                  ELSE disturbed \/ ~task[t].alone \/ result \notin {"ok", "stored", "gone"}

-----------------------------------------------------------------------------
(* Settings                                                                 *)

\* update_validated_with: the copy keeps its old value when the write fails.
Store(loadedRecord, new) ==
  \/ document' = new /\ cache' = new /\ NoFault
  \/ document' = document /\ cache' = loadedRecord /\ Fault

\* load_draft; a new draft does not start at login.
OpenEditor ==
  /\ draft' = IF cache.rec /= Missing /\ cache.login THEN "on" ELSE "off"
  /\ UNCHANGED <<units, task, faults, kind, document, cache, preview, pendingRemove, removing,
                 edits, disturbed, report>>

\* save_validated_draft: the record is replaced or pushed, then the units are
\* installed, except those of the former engine.
SaveDraft(t) ==
  /\ draft /= "closed" /\ edits < MaxEdits
  /\ edits' = edits + 1
  /\ LET record == [rec |-> edits + 1, login |-> draft = "on"]
     IN  \/ /\ document' = record /\ cache' = record /\ NoFault
            /\ IF kind = "legacy" THEN task' = task ELSE SpawnInstall(t, "settings", record, TRUE)
         \/ /\ Fault /\ cache' = document
            /\ UNCHANGED <<document, task>>
  /\ draft' = "closed"
  /\ UNCHANGED <<units, kind, preview, pendingRemove, removing, disturbed, report>>

\* confirm_import: the preview stays, and a record that exists is kept while
\* the unit of the preview is installed once more.
ConfirmImport(t) ==
  /\ preview
  /\ LET imported == [rec |-> 1, login |-> FALSE]
         kept == IF document.rec = Missing THEN imported ELSE document
     IN  \/ /\ document' = kept /\ cache' = kept /\ NoFault
            /\ SpawnInstall(t, "settings", imported, kept = imported)
         \/ Fault /\ cache' = document /\ UNCHANGED <<document, task>>
  /\ UNCHANGED <<units, kind, draft, preview, pendingRemove, removing, edits, disturbed, report>>

\* reorder_connection writes the copy of Settings back without reading.
Reorder ==
  /\ document /= cache
  /\ document' = cache /\ NoFault
  /\ Disturb
  /\ UNCHANGED <<units, kind, settings, report>>

\* remove_confirmed_connection: only a record that is still the confirmed one.
RemoveConfirmed(connection, busy) ==
  /\ pendingRemove' = FALSE
  /\ IF document /= connection
       THEN cache' = document /\ NoFault /\ removing' = FALSE /\ UNCHANGED document
       ELSE /\ Store(document, NoRecord)
            /\ removing' = (busy /\ document' /= document)

RemovePress ==
  /\ ~removing /\ ~pendingRemove /\ cache.rec /= Missing
  /\ pendingRemove' = TRUE
  /\ UNCHANGED <<units, task, faults, kind, document, cache, draft, preview, removing, edits,
                 disturbed, report>>

ConfirmRemove(t) ==
  /\ ~removing /\ pendingRemove /\ cache.rec /= Missing
  /\ IF kind = "legacy"
       THEN /\ removing' = TRUE
            /\ Spawn(t, [IdleTask EXCEPT !.op = "retire", !.owner = "settings", !.pc = "retire",
                                         !.cfg = cache], TRUE)
            /\ NoFault /\ UNCHANGED <<document, cache, pendingRemove>>
       ELSE /\ RemoveConfirmed(cache, TRUE)
            /\ IF removing'
                 THEN Spawn(t, [IdleTask EXCEPT !.op = "remove", !.owner = "settings",
                                !.pc = "quiet",
                                !.role = IF kind = "offline" THEN "timer" ELSE "service"], TRUE)
                 ELSE task' = task
  /\ UNCHANGED <<units, kind, draft, preview, edits, disturbed, report>>

-----------------------------------------------------------------------------
(* The applet                                                               *)

\* refresh_online_mount_guards, at the start of the applet, from a snapshot;
\* the connection's turn comes when the earlier ones are done.
RefreshGuards(t) ==
  /\ document.rec /= Missing
  /\ \/ kind = "online" /\ SpawnInstall(t, "applet", document, TRUE)
     \/ kind = "legacy" /\ Spawn(t, [IdleTask EXCEPT !.op = "retire", !.pc = "retire",
                                                      !.cfg = document], TRUE)
  /\ UNCHANGED <<units, faults, kind, document, settings, disturbed, report>>

\* persist_online_popup_state: the document is read before systemd is asked.
PopupSwitch(t, on) ==
  /\ kind = "online" /\ document.rec /= Missing
  /\ Spawn(t, [IdleTask EXCEPT !.op = "persist", !.pc = "policy", !.login = on, !.cfg = document],
           TRUE)
  /\ UNCHANGED <<units, faults, kind, document, settings, disturbed, report>>

\* Resume of a mirror, from OfflineControl.
Resume ==
  /\ kind = "offline" /\ file["timer"] \in Versions /\ ~active["timer"]
  /\ enabled' = [enabled EXCEPT !["timer"] = TRUE]
  /\ active' = [active EXCEPT !["timer"] = TRUE]
  /\ loaded' = file
  /\ task' = [t \in Tasks |-> [task[t] EXCEPT !.alone = FALSE]]
  /\ UNCHANGED <<file, faults, kind, document, settings, disturbed, report>>

\* The user puts a unit of his own in the place of a generated one.
UserEdit(u) ==
  /\ u \in UnitsOf /\ file[u] /= External /\ Fault
  /\ SetFile(u, External)
  /\ Disturb
  /\ UNCHANGED <<loaded, manager, kind, document, settings, report>>

-----------------------------------------------------------------------------
(* Steps of the tasks                                                       *)

\* A step of t inside install or remove.
Inner(t) ==
  /\ Write(t) \/ Reload(t) \/ Invalid(t) \/ PutBack(t) \/ Delete(t)
  /\ UNCHANGED <<kind, document, settings, disturbed, report>>

Unchanged(t) == UNCHANGED <<kind, document, settings>>

\* install_paused_rclone_units: both files must be ours before anything moves.
Check(t) ==
  /\ At(t, "check") /\ NoFault
  /\ IF \A u \in Units : Owned(u)
       THEN /\ Step(t, [task[t] EXCEPT !.pc = IF file["timer"] = Missing THEN "write" ELSE "pause",
                                      !.service = file["service"]])
            /\ UNCHANGED <<disturbed, report>>
       ELSE End(t, "foreign")
  /\ UNCHANGED units /\ Unchanged(t)

\* pause_offline_repair_trigger: stop, disable, look.  In "pause" the service
\* is installed next; in "silence" the service is disabled first and the task
\* is done.
TimerSilenced ==
  /\ NoFault
  /\ active' = [active EXCEPT !["timer"] = FALSE]
  /\ enabled' = [u \in Units |-> FALSE]

SilenceFails ==
  /\ Fault
  /\ active' \in {active, [active EXCEPT !["timer"] = FALSE]}
  /\ enabled' \in {enabled, [enabled EXCEPT !["timer"] = FALSE]}

Pause(t) ==
  /\ \/ /\ TimerSilenced /\ loaded' = file
        /\ \/ At(t, "pause") /\ GoTo(t, "write") /\ UNCHANGED <<disturbed, report>>
           \/ At(t, "silence") /\ End(t, "ok")
     \/ /\ SilenceFails /\ UNCHANGED loaded
        /\ task[t].pc \in {"pause", "silence"} /\ End(t, "policy")
  /\ UNCHANGED file /\ Unchanged(t)

\* The timer could not be installed: the service goes back to what it was.
AfterTimerFailed(t, result) ==
  /\ Step(t, [task[t] EXCEPT !.role = "rollback", !.error = result,
                            !.pc = IF task[t].service = Missing THEN "delete" ELSE "write"])
  /\ UNCHANGED <<disturbed, report>>

\* What the caller does with the end of an install or of the remove that
\* rolls a new service back.
Continue(t, result) ==
  \/ /\ task[t].role = "rollback"
     /\ End(t, IF result = "ok" THEN task[t].error ELSE "rollback")
  \/ task[t].role = "timer" /\ result /= "ok" /\ AfterTimerFailed(t, result)
  \/ task[t].role = "service" /\ result /= "ok" /\ End(t, result)
  \/ /\ result = "ok"
     /\ \/ task[t].role = "timer" /\ GoTo(t, "silence")
        \/ /\ task[t].role = "service" /\ kind = "offline"
           /\ Step(t, [task[t] EXCEPT !.role = "timer", !.pc = "write"])
        \/ task[t].role = "service" /\ kind /= "offline" /\ GoTo(t, "policy")
     /\ UNCHANGED <<disturbed, report>>

Installed(t) ==
  /\ task[t].op = "install"
  /\ \E result \in Results :
       (InstallEnds(t, result) \/ RemoveEnds(t, result)) /\ Continue(t, result)
  /\ Unchanged(t)

\* Enable or Disable: the last step of an online install, the first of the
\* popup.
Policy(t) ==
  /\ At(t, "policy")
  /\ \/ /\ PolicyDone("service", task[t].login)
        /\ IF task[t].op = "persist"
             THEN GoTo(t, "store") /\ UNCHANGED <<disturbed, report>>
             ELSE End(t, "ok")
     \/ PolicyFails("service", task[t].login) /\ End(t, "policy")
  /\ UNCHANGED <<file, active>> /\ Unchanged(t)

\* The popup writes the document that it read, with the new choice; nothing
\* is written when the choice is the old one.
StorePopup(t) ==
  /\ At(t, "store")
  /\ LET new == [task[t].cfg EXCEPT !.login = task[t].login]
     IN  \/ /\ document' = IF new = task[t].cfg THEN document ELSE new
            /\ NoFault /\ End(t, "ok")
         \/ /\ new /= task[t].cfg /\ Fault /\ UNCHANGED document
            /\ GoTo(t, "undo") /\ UNCHANGED <<disturbed, report>>
  /\ UNCHANGED <<units, kind, settings>>

\* Mutant of UndoPopup: the policy is left as it is.
UndoPopupNot(t) ==
  /\ At(t, "undo")
  /\ NoFault /\ End(t, "stored")
  /\ UNCHANGED units /\ Unchanged(t)

\* The write failed: the policy of systemd is put back.
UndoPopup(t) ==
  /\ At(t, "undo")
  /\ \/ PolicyDone("service", task[t].cfg.login) /\ End(t, "stored")
     \/ PolicyFails("service", task[t].cfg.login) /\ End(t, "policy")
  /\ UNCHANGED <<file, active>> /\ Unchanged(t)

\* remove_generated_units: Stop and Disable may fail, the removal goes on.
Quiet(t) ==
  /\ At(t, "quiet")
  /\ LET u == UnitOf(t) IN
     \/ /\ NoFault
        /\ active' = [active EXCEPT ![u] = FALSE] /\ enabled' = [enabled EXCEPT ![u] = FALSE]
     \/ Fault /\ UNCHANGED manager
  /\ GoTo(t, "delete")
  /\ UNCHANGED <<files, disturbed, report>> /\ Unchanged(t)

\* Mutant of UnitsLeft: the service of a mirror is forgotten.
UnitsLeftNone(t) == FALSE

\* managed_unit_names: the timer of a mirror before its service.
UnitsLeft(t) == task[t].role = "timer"

Removed(t) ==
  /\ task[t].op = "remove"
  /\ \E result \in Results :
       /\ RemoveEnds(t, result)
       /\ IF result = "ok" /\ UnitsLeft(t)
            THEN /\ Step(t, [task[t] EXCEPT !.role = "service", !.pc = "quiet"])
                 /\ UNCHANGED <<disturbed, report, pendingRemove, removing>>
            ELSE End(t, result) /\ pendingRemove' = FALSE /\ removing' = FALSE
  /\ UNCHANGED <<kind, document, cache, draft, preview, edits>>

\* The end of a retirement; in Settings the removal of the record follows.
RetireEnds(t, result) ==
  /\ End(t, result)
  /\ IF task[t].owner = "applet" THEN NoFault /\ UNCHANGED <<document, settings>>
     ELSE /\ UNCHANGED <<draft, preview, edits>>
          /\ IF result \in {"ok", "gone"} THEN RemoveConfirmed(task[t].cfg, FALSE)
             ELSE /\ pendingRemove' = FALSE /\ removing' = FALSE
                  /\ NoFault /\ UNCHANGED <<document, cache>>
  /\ UNCHANGED kind

\* retire_legacy_mirror: nothing to do, or a file that must stay the same
\* through every step.
RetireStart(t) ==
  /\ At(t, "retire")
  /\ \/ file["service"] = Missing /\ RetireEnds(t, "gone")
     \/ file["service"] = External /\ RetireEnds(t, "foreign")
     \/ /\ file["service"] \in Versions /\ NoFault
        /\ Step(t, [task[t] EXCEPT !.pc = "rValidate", !.prev = file["service"]])
        /\ Unchanged(t) /\ UNCHANGED <<disturbed, report>>
  /\ UNCHANGED units

RetireNext ==
  [rValidate |-> "rDisable", rDisable |-> "rStop", rStop |-> "rStatus", rStatus |-> "delete"]

RetireStep(t) ==
  /\ task[t].pc \in DOMAIN RetireNext
  /\ \/ /\ file["service"] = task[t].prev /\ NoFault
        /\ CASE At(t, "rValidate") -> Valid("service") /\ UNCHANGED units
             [] At(t, "rDisable") -> PolicyDone("service", FALSE) /\ UNCHANGED <<file, active>>
             [] At(t, "rStop") -> active' = [active EXCEPT !["service"] = FALSE]
                                  /\ UNCHANGED <<files, enabled>>
             [] OTHER -> ~enabled["service"] /\ ~active["service"] /\ UNCHANGED units
        /\ GoTo(t, RetireNext[task[t].pc])
        /\ Unchanged(t) /\ UNCHANGED <<disturbed, report>>
     \/ file["service"] /= task[t].prev /\ UNCHANGED units /\ RetireEnds(t, "foreign")
     \/ At(t, "rValidate") /\ ~Valid("service") /\ UNCHANGED units /\ RetireEnds(t, "policy")
     \/ /\ Fault /\ End(t, "policy") /\ UNCHANGED units
        /\ IF task[t].owner = "settings" THEN pendingRemove' = FALSE /\ removing' = FALSE
           ELSE UNCHANGED <<pendingRemove, removing>>
        /\ UNCHANGED <<kind, document, cache, draft, preview, edits>>

Retired(t) ==
  /\ task[t].op = "retire"
  /\ \/ At(t, "delReload") /\ loaded' = file /\ UNCHANGED <<file, manager>> /\ RetireEnds(t, "ok")
     \/ /\ \E result \in Results \ {"ok"} : RemoveEnds(t, result) /\ End(t, result)
        /\ IF task[t].owner = "settings" THEN pendingRemove' = FALSE /\ removing' = FALSE
           ELSE UNCHANGED <<pendingRemove, removing>>
        /\ UNCHANGED <<kind, document, cache, draft, preview, edits>>

TaskStep(t) ==
  \/ Inner(t) \/ Check(t) \/ Pause(t) \/ Installed(t) \/ Policy(t) \/ StorePopup(t)
  \/ UndoPopup(t) \/ Quiet(t) \/ Removed(t) \/ RetireStart(t) \/ RetireStep(t) \/ Retired(t)

Next ==
  \/ OpenEditor \/ Reorder \/ RemovePress \/ Resume
  \/ \E u \in Units : UserEdit(u)
  \/ \E t \in Tasks :
       \/ SaveDraft(t) \/ ConfirmImport(t) \/ ConfirmRemove(t)
       \/ RefreshGuards(t) \/ \E on \in BOOLEAN : PopupSwitch(t, on)
       \/ TaskStep(t)

Spec == Init /\ [][Next]_vars

-----------------------------------------------------------------------------
(* Properties                                                               *)

\* FR-075 and FR-018A under every interleaving: a file that the user put in
\* the place of a generated unit survives, also when the applet rolls back an
\* install or a removal that began before the user came.
ForeignKept == [][\A u \in Units : file[u] = External => file'[u] = External]_vars

\* The end of an install is what it says, whichever of its calls fail: after
\* success systemd runs the new units and a mirror is paused; after an error
\* that does not admit a failed rollback the files are those of before, the
\* service of a mirror included when only its timer failed.
InstallSettled ==
  [][\A t \in Tasks :
       task[t].op = "install" /\ task'[t].op = "none" /\ task[t].alone =>
         /\ report' = "ok" =>
              /\ \A u \in UnitsOf : file'[u] = task[t].new /\ loaded'[u] = task[t].new
              /\ kind = "offline" => ~enabled'["timer"] /\ ~active'["timer"]
         /\ report' \in {"foreign", "write", "rolledBack"} => file' = task[t].before]_vars

Calm == Busy = {} /\ ~disturbed

\* When no task runs and the last one reported success, the units of the
\* connection are those of its record, and a removed connection has none.
RecordMatchesUnits ==
  Calm /\ kind /= "legacy" =>
    \A u \in UnitsOf : file[u] = document.rec

\* ... and systemd starts the mount at login exactly if the record says so,
\* also after a popup choice that could not be written and was taken back.
LoginAgrees ==
  Calm /\ kind = "online" /\ document.rec /= Missing => enabled["service"] = document.login
================================================================================
