---------------------------- MODULE UnitController ----------------------------
(***************************************************************************)
(* The unit files of one connection, systemd's view of them, and the       *)
(* install and remove of services.rs as they run inside a task: file work  *)
(* is synchronous, every D-Bus call is an await at which other tasks, the  *)
(* other process and the user may step in.  A call may fail although       *)
(* systemd carried it out (the reply is lost or the 15 seconds pass).      *)
(*                                                                         *)
(* The callers, which decide what happens after an install or a remove,    *)
(* are in ConnectionLifecycle.                                             *)
(***************************************************************************)
EXTENDS Integers

CONSTANTS
  Tasks,      \* asynchronous tasks of the two processes
  MaxEdits,   \* versions of the connection
  MaxFaults   \* failures and user edits of one behaviour

ASSUME LifecycleAssumption == MaxEdits \in Nat \ {0} /\ MaxFaults \in Nat

VARIABLES
  file,     \* content of each unit file
  loaded,   \* content that systemd has loaded
  enabled,  \* start at login
  active,   \* the unit runs
  task,     \* what each task does
  faults    \* failures and user edits so far

files == <<file, loaded>>
manager == <<enabled, active>>
units == <<files, manager>>

Units == {"service", "timer"}

\* A unit file is missing, somebody else's, or generated from a version.
Missing == 0
External == -1
Versions == 1..MaxEdits
Contents == Versions \cup {Missing, External}

Pcs == {"idle", "check", "pause", "write", "reload", "validate", "restore", "rereload",
        "policy", "silence", "delete", "delReload", "quiet",
        "retire", "rValidate", "rDisable", "rStop", "rStatus", "store", "undo"}

\* How install or remove ended, and how a task ended.
Results == {"ok", "foreign", "write", "rolledBack", "restore", "manager",
            "removal", "rollback", "policy", "stored", "gone"}

IdleTask ==
  [op |-> "none", owner |-> "applet", pc |-> "idle", role |-> "service", new |-> Missing,
   prev |-> Missing, service |-> Missing, error |-> "ok", login |-> FALSE,
   cfg |-> [rec |-> Missing, login |-> FALSE],
   before |-> [u \in Units |-> Missing], alone |-> TRUE]

Step(t, new) == task' = [task EXCEPT ![t] = new]
GoTo(t, pc) == Step(t, [task[t] EXCEPT !.pc = pc])
At(t, p) == task[t].pc = p

\* The unit that the install or remove of the task is about.
UnitOf(t) == IF task[t].role = "timer" THEN "timer" ELSE "service"

\* A call or a write fails.
Fault == faults < MaxFaults /\ faults' = faults + 1
NoFault == faults' = faults

-----------------------------------------------------------------------------
(* FileUnitStore: write and remove refuse a file without the marker.       *)

SetFile(u, c) == file' = [file EXCEPT ![u] = c]

Owned(u) == file[u] /= External

\* UnitController::restore, through the store's own checks.
RestoreUnchecked(u, content) == SetFile(u, content)

Restore(u, content) == Owned(u) /\ SetFile(u, content)

-----------------------------------------------------------------------------
(* Calls of the manager.                                                   *)

\* Reload returns ok and has taken place, or fails and may have taken place.
ReloadDone == NoFault /\ loaded' = file
ReloadFails == Fault /\ loaded' \in {loaded, file}

\* Enable and Disable change the links and reload.
PolicyDone(u, on) ==
  /\ NoFault
  /\ on => file[u] /= Missing
  /\ enabled' = [enabled EXCEPT ![u] = on]
  /\ loaded' = file

PolicyFails(u, on) ==
  /\ \/ Fault /\ enabled' \in {enabled, [enabled EXCEPT ![u] = on]}
     \/ NoFault /\ on /\ file[u] = Missing /\ enabled' = enabled
  /\ loaded' \in {loaded, file}

-----------------------------------------------------------------------------
(* install(document)                                                       *)

\* The content: the new version, or the previous service when install runs
\* as the rollback of a pair.
Content(t) == IF task[t].role = "rollback" THEN task[t].service ELSE task[t].new

\* read, then write.  The caller goes on in Failed.
Write(t) ==
  /\ At(t, "write") /\ Owned(UnitOf(t))
  /\ NoFault
  /\ SetFile(UnitOf(t), Content(t))
  /\ Step(t, [task[t] EXCEPT !.pc = "reload", !.prev = file[UnitOf(t)]])
  /\ UNCHANGED <<loaded, manager>>

Reload(t) ==
  /\ At(t, "reload")
  /\ \/ ReloadDone /\ GoTo(t, "validate")
     \/ ReloadFails /\ GoTo(t, "restore")
  /\ UNCHANGED <<file, manager>>

\* LoadState, FragmentPath and NeedDaemonReload of the loaded unit.
Valid(u) == file[u] /= Missing /\ loaded[u] = file[u]

Invalid(t) ==
  /\ At(t, "validate")
  /\ Fault \/ (NoFault /\ ~Valid(UnitOf(t)))
  /\ GoTo(t, "restore")
  /\ UNCHANGED units

\* Mutant of PutBack: a unit that was new is left in place.
PutBackOld(t) ==
  /\ At(t, "restore")
  /\ NoFault
  /\ IF task[t].prev = Missing THEN file' = file ELSE Restore(UnitOf(t), task[t].prev)
  /\ GoTo(t, "rereload")
  /\ UNCHANGED <<loaded, manager>>

PutBack(t) ==
  /\ At(t, "restore")
  /\ NoFault
  /\ Restore(UnitOf(t), task[t].prev)
  /\ GoTo(t, "rereload")
  /\ UNCHANGED <<loaded, manager>>

\* The ways out of install; effect on the unit files and the error.
InstallEnds(t, result) ==
  \/ /\ At(t, "write") /\ result = "foreign" /\ ~Owned(UnitOf(t))
     /\ NoFault /\ UNCHANGED units
  \/ At(t, "write") /\ result = "write" /\ Fault /\ UNCHANGED units
  \/ At(t, "validate") /\ result = "ok" /\ Valid(UnitOf(t)) /\ NoFault /\ UNCHANGED units
  \/ /\ At(t, "restore") /\ result = "restore"
     /\ Fault \/ (NoFault /\ ~Owned(UnitOf(t)))
     /\ UNCHANGED units
  \/ At(t, "rereload") /\ result = "rolledBack" /\ ReloadDone /\ UNCHANGED <<file, manager>>
  \/ At(t, "rereload") /\ result = "manager" /\ ReloadFails /\ UNCHANGED <<file, manager>>

-----------------------------------------------------------------------------
(* remove(name)                                                            *)

Delete(t) ==
  /\ At(t, "delete") /\ Owned(UnitOf(t))
  /\ NoFault
  /\ SetFile(UnitOf(t), Missing)
  /\ Step(t, [task[t] EXCEPT !.pc = "delReload", !.prev = file[UnitOf(t)]])
  /\ UNCHANGED <<loaded, manager>>

\* A reload that fails puts the file back, without another reload.
PutBackDeleted(t) ==
  IF task[t].prev = Missing THEN file' = file ELSE Restore(UnitOf(t), task[t].prev)

RemoveEnds(t, result) ==
  \/ At(t, "delete") /\ result = "foreign" /\ ~Owned(UnitOf(t)) /\ NoFault /\ UNCHANGED units
  \/ At(t, "delete") /\ result = "write" /\ Fault /\ UNCHANGED units
  \/ At(t, "delReload") /\ result = "ok" /\ ReloadDone /\ UNCHANGED <<file, manager>>
  \/ /\ At(t, "delReload") /\ result = "removal"
     /\ ReloadFails
     /\ PutBackDeleted(t) \/ file' = file
     /\ UNCHANGED manager
===============================================================================
