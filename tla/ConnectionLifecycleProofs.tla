----------------------- MODULE ConnectionLifecycleProofs -----------------------
(***************************************************************************)
(* Proofs about ConnectionLifecycle for any number of tasks of the two     *)
(* processes, versions, failures and edits of the user: however installs,  *)
(* removals, rollbacks and retirements overlap, a file of the user stays;  *)
(* an install that nobody disturbed ends as it says; and while nothing was *)
(* disturbed, units and login agree with the record.                       *)
(***************************************************************************)
EXTENDS ConnectionLifecycle, TLAPS

-----------------------------------------------------------------------------
(* Files of the user                                                        *)

\* The unit files are a function on the two units.
FileInv == file = [u \in Units |-> file[u]]

\* What a step does to the unit files: nothing is written over a file of the
\* user, and nothing but a unit of ours or of the user is written at all.
Kept == FileInv' /\ \A u \in Units : file[u] = External => file'[u] = External

\* A write by the store, which refuses a file without the marker.
LEMMA OwnedWrite ==
  ASSUME NEW u \in Units, NEW c, FileInv, Owned(u), SetFile(u, c)
  PROVE  Kept
BY DEF Owned, SetFile, Kept, FileInv

\* A step that leaves the files alone.
LEMMA NoWrite ==
  ASSUME FileInv, file' = file
  PROVE  Kept
BY DEF Kept, FileInv

\* The unit of a task is one of the two.
LEMMA UnitIsOne == \A t : UnitOf(t) \in Units
BY DEF UnitOf, Units

\* Putting back what a removal had deleted goes through the store as well.
LEMMA PutBackKeeps ==
  ASSUME FileInv, NEW t \in Tasks, PutBackDeleted(t)
  PROVE  Kept
<1>1. CASE task[t].prev = Missing
  BY <1>1, NoWrite DEF PutBackDeleted
<1>2. CASE task[t].prev /= Missing
  BY <1>2, OwnedWrite, UnitIsOne DEF PutBackDeleted, Restore
<1> QED BY <1>1, <1>2

\* The ends of install and remove.
LEMMA EndsKeep ==
  ASSUME FileInv, NEW t \in Tasks, NEW result,
         InstallEnds(t, result) \/ RemoveEnds(t, result)
  PROVE  Kept
<1>1. file' = file \/ PutBackDeleted(t)
  BY DEF InstallEnds, RemoveEnds, units, files
<1> QED BY <1>1, NoWrite, PutBackKeeps

\* The steps inside install and remove.
LEMMA InnerKeeps ==
  ASSUME FileInv, NEW t \in Tasks, Inner(t)
  PROVE  Kept
<1>1. CASE Write(t)
  BY <1>1, OwnedWrite, UnitIsOne DEF Write
<1>2. CASE Reload(t) \/ Invalid(t)
  BY <1>2, NoWrite DEF Reload, Invalid, units, files
<1>3. CASE PutBack(t)
  BY <1>3, OwnedWrite, UnitIsOne DEF PutBack, Restore
<1>4. CASE Delete(t)
  BY <1>4, OwnedWrite, UnitIsOne DEF Delete
<1> QED BY <1>1, <1>2, <1>3, <1>4 DEF Inner

\* Every step of a task.
LEMMA TaskKeeps ==
  ASSUME FileInv, NEW t \in Tasks, TaskStep(t)
  PROVE  Kept
<1> USE DEF units, files
<1>1. CASE Inner(t)
  BY <1>1, InnerKeeps
<1>2. CASE Check(t) \/ Pause(t) \/ Policy(t) \/ StorePopup(t) \/ UndoPopup(t) \/ Quiet(t)
  BY <1>2, NoWrite DEF Check, Pause, Policy, StorePopup, UndoPopup, Quiet
<1>3. CASE Installed(t) \/ Removed(t)
  BY <1>3, EndsKeep DEF Installed, Removed
<1>4. CASE RetireStart(t)
  BY <1>4, NoWrite DEF RetireStart
<1>5. CASE RetireStep(t)
  BY <1>5, NoWrite DEF RetireStep
<1>6. CASE Retired(t)
  BY <1>6, NoWrite, EndsKeep DEF Retired
<1> QED BY <1>1, <1>2, <1>3, <1>4, <1>5, <1>6 DEF TaskStep

\* Every step of the specification.
LEMMA StepKeeps == FileInv /\ [Next]_vars => Kept
<1> SUFFICES ASSUME FileInv, [Next]_vars PROVE Kept
  OBVIOUS
<1> USE DEF units, files
<1>1. CASE OpenEditor \/ Reorder \/ RemovePress \/ Resume
  BY <1>1, NoWrite DEF OpenEditor, Reorder, RemovePress, Resume
<1>2. ASSUME NEW u \in Units, UserEdit(u) PROVE Kept
  BY <1>2 DEF UserEdit, SetFile, Kept, FileInv
<1>3. ASSUME NEW t \in Tasks,
             SaveDraft(t) \/ ConfirmImport(t) \/ ConfirmRemove(t) \/ RefreshGuards(t)
               \/ \E on \in BOOLEAN : PopupSwitch(t, on)
      PROVE  Kept
  BY <1>3, NoWrite DEF SaveDraft, ConfirmImport, ConfirmRemove, RefreshGuards, PopupSwitch
<1>4. ASSUME NEW t \in Tasks, TaskStep(t) PROVE Kept
  BY <1>4, TaskKeeps
<1>5. CASE UNCHANGED vars
  BY <1>5, NoWrite DEF vars
<1> QED BY <1>1, <1>2, <1>3, <1>4, <1>5 DEF Next

\* A file that the user put in the place of a unit survives every interleaving
\* of tasks (ForeignKept).
THEOREM ForeignFilesKept == Spec => ForeignKept
<1>1. Init => FileInv
  BY DEF Init, FileInv
<1>2. FileInv /\ [Next]_vars => FileInv'
  BY StepKeeps DEF Kept
<1>3. FileInv /\ [Next]_vars
        => [\A u \in Units : file[u] = External => file'[u] = External]_vars
  BY StepKeeps DEF Kept
<1> QED BY <1>1, <1>2, <1>3, PTL DEF Spec, ForeignKept

-----------------------------------------------------------------------------
(* Types                                                                    *)

LEMMA IdleType == IdleTask \in TaskRecords
BY DEF IdleTask, TaskRecords, Pcs, Results, Records, Contents

\* A step of one task: the others stay as they are.
LEMMA Stepped ==
  ASSUME TypeOK, NEW t \in Tasks, NEW new \in TaskRecords, Step(t, new)
  PROVE  /\ task' \in [Tasks -> TaskRecords] /\ task'[t] = new
         /\ \A s \in Tasks : s # t => task'[s] = task[s]
BY DEF TypeOK, Step

LEMMA Gone ==
  ASSUME TypeOK, NEW t \in Tasks, NEW pc \in Pcs, GoTo(t, pc)
  PROVE  /\ task' \in [Tasks -> TaskRecords] /\ task'[t] = [task[t] EXCEPT !.pc = pc]
         /\ \A s \in Tasks : s # t => task'[s] = task[s]
<1>1. [task[t] EXCEPT !.pc = pc] \in TaskRecords
  BY DEF TypeOK, TaskRecords
<1> QED BY <1>1, Stepped DEF GoTo

LEMMA EndType ==
  ASSUME TypeOK, NEW t \in Tasks, NEW result \in Results, End(t, result)
  PROVE  /\ task' \in [Tasks -> TaskRecords] /\ task'[t] = IdleTask
         /\ \A s \in Tasks : s # t => task'[s] = task[s]
         /\ report' = result /\ report' \in Results /\ disturbed' \in BOOLEAN
BY IdleType DEF TypeOK, End

\* A new task; the others are no longer alone.
LEMMA Spawned ==
  ASSUME TypeOK, NEW t \in Tasks, NEW new \in TaskRecords, NEW current \in BOOLEAN,
         Spawn(t, new, current)
  PROVE  /\ task' \in [Tasks -> TaskRecords]
         /\ task'[t] = [new EXCEPT !.alone = current /\ Busy = {}, !.before = file]
         /\ \A s \in Tasks : s # t => task'[s] = [task[s] EXCEPT !.alone = FALSE]
<1>1. [new EXCEPT !.alone = current /\ Busy = {}, !.before = file] \in TaskRecords
  BY DEF TypeOK, TaskRecords
<1>2. \A s \in Tasks : [task[s] EXCEPT !.alone = FALSE] \in TaskRecords
  BY DEF TypeOK, TaskRecords
<1> QED BY <1>1, <1>2 DEF Spawn

LEMMA Unmarked ==
  ASSUME TypeOK, NEW t \in Tasks
  PROVE  [task[t] EXCEPT !.alone = FALSE] \in TaskRecords
<1>1. task[t] \in TaskRecords
  BY DEF TypeOK
<1>2. \A r \in TaskRecords : [r EXCEPT !.alone = FALSE] \in TaskRecords
  BY DEF TaskRecords
<1> QED BY <1>1, <1>2

LEMMA UnmarkedFields ==
  ASSUME TypeOK, NEW t \in Tasks
  PROVE  LET new == [task[t] EXCEPT !.alone = FALSE]
         IN  new.alone = FALSE /\ new.op = task[t].op /\ new.pc = task[t].pc
<1>1. task[t] \in TaskRecords
  BY DEF TypeOK
<1> QED BY <1>1 DEF TaskRecords

LEMMA Marked ==
  ASSUME TypeOK, task' = [t \in Tasks |-> [task[t] EXCEPT !.alone = FALSE]]
  PROVE  /\ task' \in [Tasks -> TaskRecords]
         /\ \A t \in Tasks : task'[t] = [task[t] EXCEPT !.alone = FALSE]
BY Unmarked

\* Failures stay within their bound.
LEMMA FaultTypes ==
  ASSUME TypeOK, Fault \/ NoFault
  PROVE  faults' \in 0..MaxFaults
BY LifecycleAssumption DEF TypeOK, Fault, NoFault

\* The files and systemd's view of them.
UnitTypes ==
  /\ file \in [Units -> Contents] /\ loaded \in [Units -> Contents]
  /\ enabled \in [Units -> BOOLEAN] /\ active \in [Units -> BOOLEAN]

\* What the tasks do not touch unless they say so.
RestTypes ==
  /\ kind \in Kinds /\ document \in Records /\ cache \in Records
  /\ draft \in {"closed", "on", "off"}
  /\ preview \in BOOLEAN /\ pendingRemove \in BOOLEAN /\ removing \in BOOLEAN
  /\ edits \in {Missing} \cup Versions

LEMMA TypeParts ==
  ASSUME TypeOK, UnitTypes', RestTypes', task' \in [Tasks -> TaskRecords],
         Fault \/ NoFault, disturbed' \in BOOLEAN, report' \in Results
  PROVE  TypeOK'
BY FaultTypes DEF TypeOK, UnitTypes, RestTypes

LEMMA RestSame ==
  ASSUME TypeOK, UNCHANGED <<kind, document, settings>>
  PROVE  RestTypes'
BY DEF TypeOK, RestTypes, settings

\* Calls of the manager and writes of a file
LEMMA SetTypes ==
  ASSUME TypeOK, NEW u \in Units, NEW c \in Contents, SetFile(u, c),
         UNCHANGED <<loaded, manager>>
  PROVE  UnitTypes'
BY DEF TypeOK, UnitTypes, SetFile, manager

LEMMA ReloadTypes ==
  ASSUME TypeOK, ReloadDone \/ ReloadFails, UNCHANGED <<file, manager>>
  PROVE  UnitTypes' /\ (Fault \/ NoFault)
BY DEF TypeOK, UnitTypes, ReloadDone, ReloadFails, manager

LEMMA PolicyTypes ==
  ASSUME TypeOK, NEW on \in BOOLEAN,
         PolicyDone("service", on) \/ PolicyFails("service", on), UNCHANGED <<file, active>>
  PROVE  UnitTypes' /\ (Fault \/ NoFault)
BY DEF TypeOK, UnitTypes, PolicyDone, PolicyFails, Units

\* The ends of install and remove
LEMMA EndsTypes ==
  ASSUME TypeOK, NEW t \in Tasks, NEW result,
         InstallEnds(t, result) \/ RemoveEnds(t, result)
  PROVE  UnitTypes' /\ (Fault \/ NoFault)
<1>1. CASE UNCHANGED units /\ (Fault \/ NoFault)
  BY <1>1 DEF TypeOK, UnitTypes, units, files, manager
<1>2. CASE (ReloadDone \/ ReloadFails) /\ UNCHANGED <<file, manager>>
  BY <1>2, ReloadTypes
<1>3. CASE ReloadFails /\ (PutBackDeleted(t) \/ file' = file) /\ UNCHANGED manager
  <2>1. task[t].prev \in Contents
    BY DEF TypeOK, TaskRecords
  <2>2. file' \in [Units -> Contents]
    BY <1>3, <2>1, UnitIsOne DEF TypeOK, PutBackDeleted, Restore, SetFile
  <2>3. loaded' \in [Units -> Contents] /\ Fault
    BY <1>3 DEF TypeOK, ReloadFails
  <2> QED BY <1>3, <2>2, <2>3 DEF TypeOK, UnitTypes, manager
<1> QED BY <1>1, <1>2, <1>3 DEF InstallEnds, RemoveEnds

\* Every step of a task: each action changes files, tasks and the rest by the
\* operators above.
LEMMA InnerTypes ==
  ASSUME TypeOK, NEW t \in Tasks, Inner(t)
  PROVE  TypeOK'
<1>0. RestTypes' /\ disturbed' \in BOOLEAN /\ report' \in Results
  BY RestSame DEF Inner, TypeOK
<1>1. task[t] \in TaskRecords /\ UnitOf(t) \in Units /\ file[UnitOf(t)] \in Contents
  BY UnitIsOne DEF TypeOK
<1>2. Content(t) \in Contents /\ task[t].prev \in Contents
  BY <1>1 DEF Content, TaskRecords
<1>3. \A pc \in {"reload", "delReload"} :
        [task[t] EXCEPT !.pc = pc, !.prev = file[UnitOf(t)]] \in TaskRecords
  BY <1>1 DEF TaskRecords, Pcs
<1>4. {"reload", "delReload", "validate", "restore", "rereload"} \subseteq Pcs
  BY DEF Pcs
<1>5. CASE Write(t) \/ Delete(t)
  <2>1. UnitTypes' /\ NoFault
    BY <1>1, <1>2, <1>5, SetTypes DEF Write, Delete, Contents
  <2>2. task' \in [Tasks -> TaskRecords]
    BY <1>3, <1>5, Stepped DEF Write, Delete
  <2> QED BY <1>0, <2>1, <2>2, TypeParts
<1>6. CASE Reload(t)
  <2>1. UnitTypes' /\ (Fault \/ NoFault)
    BY <1>6, ReloadTypes DEF Reload, ReloadDone, ReloadFails
  <2>2. task' \in [Tasks -> TaskRecords]
    BY <1>4, <1>6, Gone DEF Reload
  <2> QED BY <1>0, <2>1, <2>2, TypeParts
<1>7. CASE Invalid(t)
  <2>1. UnitTypes' /\ (Fault \/ NoFault)
    BY <1>7 DEF Invalid, TypeOK, UnitTypes, units, files, manager
  <2>2. task' \in [Tasks -> TaskRecords]
    BY <1>4, <1>7, Gone DEF Invalid
  <2> QED BY <1>0, <2>1, <2>2, TypeParts
<1>8. CASE PutBack(t)
  <2>1. UnitTypes' /\ NoFault
    BY <1>1, <1>2, <1>8, SetTypes DEF PutBack, Restore
  <2>2. task' \in [Tasks -> TaskRecords]
    BY <1>4, <1>8, Gone DEF PutBack
  <2> QED BY <1>0, <2>1, <2>2, TypeParts
<1> QED BY <1>5, <1>6, <1>7, <1>8 DEF Inner

\* What becomes of a task and the report at the end of an install or a remove.
LEMMA ContinueTypes ==
  ASSUME TypeOK, NEW t \in Tasks, NEW result \in Results, Continue(t, result)
  PROVE  /\ task' \in [Tasks -> TaskRecords]
         /\ disturbed' \in BOOLEAN /\ report' \in Results
<1>0. task[t] \in TaskRecords /\ disturbed \in BOOLEAN /\ report \in Results
  BY DEF TypeOK
<1>1. CASE End(t, result) \/ End(t, task[t].error) \/ End(t, "rollback")
  BY <1>0, <1>1, EndType DEF TaskRecords, Results
<1>2. CASE AfterTimerFailed(t, result)
  <2>1. [task[t] EXCEPT !.role = "rollback", !.error = result,
                        !.pc = IF task[t].service = Missing THEN "delete" ELSE "write"]
          \in TaskRecords
    BY <1>0 DEF TaskRecords, Pcs
  <2> QED BY <1>0, <1>2, <2>1, Stepped DEF AfterTimerFailed
<1>3. CASE (GoTo(t, "silence") \/ GoTo(t, "policy")) /\ UNCHANGED <<disturbed, report>>
  BY <1>0, <1>3, Gone DEF Pcs
<1>4. CASE Step(t, [task[t] EXCEPT !.role = "timer", !.pc = "write"])
             /\ UNCHANGED <<disturbed, report>>
  <2>1. [task[t] EXCEPT !.role = "timer", !.pc = "write"] \in TaskRecords
    BY <1>0 DEF TaskRecords, Pcs
  <2> QED BY <1>0, <1>4, <2>1, Stepped
<1> QED BY <1>1, <1>2, <1>3, <1>4 DEF Continue

LEMMA InstallTypes ==
  ASSUME TypeOK, NEW t \in Tasks,
         Check(t) \/ Pause(t) \/ Installed(t) \/ Policy(t) \/ StorePopup(t) \/ UndoPopup(t)
  PROVE  TypeOK'
<1>0. task[t] \in TaskRecords /\ disturbed \in BOOLEAN /\ report \in Results
  BY DEF TypeOK
<1>1. {"foreign", "ok", "policy", "stored"} \subseteq Results
      /\ {"pause", "write", "store", "undo"} \subseteq Pcs
  BY DEF Results, Pcs
<1>2. CASE Check(t)
  <2>1. UnitTypes' /\ RestTypes' /\ NoFault
    BY <1>2, RestSame DEF Check, Unchanged, TypeOK, UnitTypes, units, files, manager
  <2>2. [task[t] EXCEPT !.pc = IF file["timer"] = Missing THEN "write" ELSE "pause",
                        !.service = file["service"]] \in TaskRecords
    BY <1>0 DEF TaskRecords, Pcs, TypeOK, Units
  <2>3. task' \in [Tasks -> TaskRecords] /\ disturbed' \in BOOLEAN /\ report' \in Results
    BY <1>0, <1>1, <1>2, <2>2, Stepped, EndType DEF Check
  <2> QED BY <2>1, <2>3, TypeParts
<1>3. CASE Pause(t)
  <2>1. UnitTypes' /\ RestTypes' /\ (Fault \/ NoFault)
    BY <1>3, RestSame
    DEF Pause, Unchanged, TypeOK, UnitTypes, TimerSilenced, SilenceFails, Units
  <2>2. task' \in [Tasks -> TaskRecords] /\ disturbed' \in BOOLEAN /\ report' \in Results
    BY <1>0, <1>1, <1>3, Gone, EndType DEF Pause
  <2> QED BY <2>1, <2>2, TypeParts
<1>4. CASE Installed(t)
  <2>1. PICK result \in Results :
          (InstallEnds(t, result) \/ RemoveEnds(t, result)) /\ Continue(t, result)
    BY <1>4 DEF Installed
  <2>2. UnitTypes' /\ RestTypes' /\ (Fault \/ NoFault)
    BY <1>4, <2>1, EndsTypes, RestSame DEF Installed, Unchanged
  <2> QED BY <2>1, <2>2, ContinueTypes, TypeParts
<1>5. CASE Policy(t)
  <2>1. UnitTypes' /\ RestTypes' /\ (Fault \/ NoFault)
    BY <1>0, <1>5, PolicyTypes, RestSame DEF Policy, Unchanged, TaskRecords
  <2>2. task' \in [Tasks -> TaskRecords] /\ disturbed' \in BOOLEAN /\ report' \in Results
    BY <1>0, <1>1, <1>5, Gone, EndType DEF Policy
  <2> QED BY <2>1, <2>2, TypeParts
<1>6. CASE StorePopup(t)
  <2>1. [task[t].cfg EXCEPT !.login = task[t].login] \in Records
    BY <1>0 DEF TaskRecords, Records
  <2>2. UnitTypes' /\ (Fault \/ NoFault)
    BY <1>6 DEF StorePopup, TypeOK, UnitTypes, units, files, manager
  <2>3. RestTypes'
    BY <1>6, <2>1 DEF StorePopup, TypeOK, RestTypes, settings
  <2>4. task' \in [Tasks -> TaskRecords] /\ disturbed' \in BOOLEAN /\ report' \in Results
    BY <1>0, <1>1, <1>6, Gone, EndType DEF StorePopup
  <2> QED BY <2>2, <2>3, <2>4, TypeParts
<1>7. CASE UndoPopup(t)
  <2>1. task[t].cfg.login \in BOOLEAN
    BY <1>0 DEF TaskRecords, Records
  <2>2. UnitTypes' /\ RestTypes' /\ (Fault \/ NoFault)
    BY <1>7, <2>1, PolicyTypes, RestSame DEF UndoPopup, Unchanged
  <2>3. task' \in [Tasks -> TaskRecords] /\ disturbed' \in BOOLEAN /\ report' \in Results
    BY <1>0, <1>1, <1>7, EndType DEF UndoPopup
  <2> QED BY <2>2, <2>3, TypeParts
<1> QED BY <1>2, <1>3, <1>4, <1>5, <1>6, <1>7

LEMMA RemoveTypes ==
  ASSUME TypeOK, NEW t \in Tasks, Quiet(t) \/ Removed(t)
  PROVE  TypeOK'
<1>0. task[t] \in TaskRecords /\ disturbed \in BOOLEAN /\ report \in Results
  BY DEF TypeOK
<1>1. CASE Quiet(t)
  <2>1. UnitTypes' /\ RestTypes' /\ (Fault \/ NoFault)
    BY <1>1, RestSame, UnitIsOne DEF Quiet, Unchanged, TypeOK, UnitTypes, files, manager
  <2>2. task' \in [Tasks -> TaskRecords]
    BY <1>1, Gone DEF Quiet, Pcs
  <2> QED BY <1>0, <1>1, <2>1, <2>2, TypeParts DEF Quiet
<1>2. CASE Removed(t)
  <2>1. PICK result \in Results :
          /\ RemoveEnds(t, result)
          /\ IF result = "ok" /\ UnitsLeft(t)
               THEN /\ Step(t, [task[t] EXCEPT !.role = "service", !.pc = "quiet"])
                    /\ UNCHANGED <<disturbed, report, pendingRemove, removing>>
               ELSE End(t, result) /\ pendingRemove' = FALSE /\ removing' = FALSE
    BY <1>2 DEF Removed
  <2>2. UnitTypes' /\ (Fault \/ NoFault)
    BY <2>1, EndsTypes
  <2>3. RestTypes'
    BY <1>2, <2>1 DEF Removed, TypeOK, RestTypes
  <2>4. [task[t] EXCEPT !.role = "service", !.pc = "quiet"] \in TaskRecords
    BY <1>0 DEF TaskRecords, Pcs
  <2>5. task' \in [Tasks -> TaskRecords] /\ disturbed' \in BOOLEAN /\ report' \in Results
    BY <1>0, <2>1, <2>4, Stepped, EndType
  <2> QED BY <2>2, <2>3, <2>5, TypeParts
<1> QED BY <1>1, <1>2

LEMMA RemoveConfirmedTypes ==
  ASSUME TypeOK, NEW connection \in Records, NEW busy \in BOOLEAN,
         RemoveConfirmed(connection, busy), UNCHANGED <<kind, draft, preview, edits>>
  PROVE  RestTypes' /\ (Fault \/ NoFault)
<1>1. NoRecord \in Records
  BY DEF NoRecord, Records
<1>2. /\ document' \in Records /\ cache' \in Records
      /\ pendingRemove' \in BOOLEAN /\ (Fault \/ NoFault)
  BY <1>1 DEF RemoveConfirmed, Store, TypeOK
<1>3. removing' \in BOOLEAN
  BY Zenon DEF RemoveConfirmed
<1> QED BY <1>2, <1>3 DEF TypeOK, RestTypes

LEMMA RetireEndTypes ==
  ASSUME TypeOK, NEW t \in Tasks, NEW result \in Results, RetireEnds(t, result)
  PROVE  /\ RestTypes' /\ (Fault \/ NoFault)
         /\ task' \in [Tasks -> TaskRecords]
         /\ disturbed' \in BOOLEAN /\ report' \in Results
<1>1. task[t].cfg \in Records
  BY DEF TypeOK, TaskRecords
<1>2. RestTypes' /\ (Fault \/ NoFault)
  BY <1>1, RestSame, RemoveConfirmedTypes DEF RetireEnds, TypeOK, RestTypes
<1> QED BY <1>2, EndType DEF RetireEnds

LEMMA RetireTypes ==
  ASSUME TypeOK, NEW t \in Tasks, RetireStart(t) \/ RetireStep(t) \/ Retired(t)
  PROVE  TypeOK'
<1>0. task[t] \in TaskRecords /\ disturbed \in BOOLEAN /\ report \in Results
  BY DEF TypeOK
<1>1. {"gone", "foreign", "policy", "ok"} \subseteq Results
  BY DEF Results
<1>2. CASE RetireStart(t)
  <2>1. UnitTypes'
    BY <1>2 DEF RetireStart, TypeOK, UnitTypes, units, files, manager
  <2>2. CASE RetireEnds(t, "gone") \/ RetireEnds(t, "foreign")
    BY <1>1, <2>1, <2>2, RetireEndTypes, TypeParts
  <2>3. CASE /\ NoFault
             /\ Step(t, [task[t] EXCEPT !.pc = "rValidate", !.prev = file["service"]])
             /\ Unchanged(t) /\ UNCHANGED <<disturbed, report>>
    <3>1. [task[t] EXCEPT !.pc = "rValidate", !.prev = file["service"]] \in TaskRecords
      BY <1>0 DEF TaskRecords, Pcs, TypeOK, Units
    <3> QED BY <1>0, <2>1, <2>3, <3>1, Stepped, RestSame, TypeParts DEF Unchanged
  <2> QED BY <1>2, <2>2, <2>3 DEF RetireStart
<1>3. CASE RetireStep(t)
  <2>1. UnitTypes'
    BY <1>3 DEF RetireStep, TypeOK, UnitTypes, units, files, manager, PolicyDone, Units
  <2>2. CASE RetireEnds(t, "foreign") \/ RetireEnds(t, "policy")
    BY <1>1, <2>1, <2>2, RetireEndTypes, TypeParts
  <2>3. CASE /\ NoFault /\ GoTo(t, RetireNext[task[t].pc])
             /\ Unchanged(t) /\ UNCHANGED <<disturbed, report>>
    <3>1. RetireNext[task[t].pc] \in Pcs
      BY <1>3 DEF RetireStep, RetireNext, Pcs
    <3> QED BY <1>0, <2>1, <2>3, <3>1, Gone, RestSame, TypeParts DEF Unchanged
  <2>4. CASE /\ Fault /\ End(t, "policy") /\ UNCHANGED units
             /\ IF task[t].owner = "settings" THEN pendingRemove' = FALSE /\ removing' = FALSE
                ELSE UNCHANGED <<pendingRemove, removing>>
             /\ UNCHANGED <<kind, document, cache, draft, preview, edits>>
    <3>1. RestTypes'
      BY <2>4 DEF TypeOK, RestTypes
    <3> QED BY <1>1, <2>1, <2>4, <3>1, EndType, TypeParts
  <2> QED BY <1>3, <2>2, <2>3, <2>4 DEF RetireStep
<1>4. CASE Retired(t)
  <2>1. CASE /\ At(t, "delReload") /\ loaded' = file
             /\ UNCHANGED <<file, manager>> /\ RetireEnds(t, "ok")
    <3>1. UnitTypes'
      BY <2>1 DEF TypeOK, UnitTypes, manager
    <3> QED BY <1>1, <2>1, <3>1, RetireEndTypes, TypeParts
  <2>2. CASE /\ \E result \in Results \ {"ok"} : RemoveEnds(t, result) /\ End(t, result)
             /\ IF task[t].owner = "settings" THEN pendingRemove' = FALSE /\ removing' = FALSE
                ELSE UNCHANGED <<pendingRemove, removing>>
             /\ UNCHANGED <<kind, document, cache, draft, preview, edits>>
    <3>1. RestTypes'
      BY <2>2 DEF TypeOK, RestTypes
    <3> QED BY <2>2, <3>1, EndsTypes, EndType, TypeParts
  <2> QED BY <1>4, <2>1, <2>2 DEF Retired
<1> QED BY <1>2, <1>3, <1>4

LEMMA TaskTypes ==
  ASSUME TypeOK, NEW t \in Tasks, TaskStep(t)
  PROVE  TypeOK'
BY InnerTypes, InstallTypes, RemoveTypes, RetireTypes DEF TaskStep

LEMMA SpawnInstallTypes ==
  ASSUME TypeOK, NEW t \in Tasks, NEW who \in {"applet", "settings"}, NEW record \in Records,
         NEW current \in BOOLEAN, SpawnInstall(t, who, record, current)
  PROVE  task' \in [Tasks -> TaskRecords]
<1>1. /\ record.rec \in Contents /\ record.login \in BOOLEAN
      /\ (IF kind = "offline" THEN "check" ELSE "write") \in Pcs
  BY DEF Records, Contents, Pcs
<1>2. [IdleTask EXCEPT !.op = "install", !.owner = who, !.new = record.rec,
                       !.login = record.login,
                       !.pc = IF kind = "offline" THEN "check" ELSE "write"] \in TaskRecords
  BY <1>1, IdleType DEF TaskRecords
<1> QED BY <1>2, Spawned DEF SpawnInstall

LEMMA HandlerTypes ==
  ASSUME TypeOK, NEW t \in Tasks,
         SaveDraft(t) \/ ConfirmImport(t) \/ ConfirmRemove(t) \/ RefreshGuards(t)
           \/ \E on \in BOOLEAN : PopupSwitch(t, on)
  PROVE  TypeOK'
<1>0. UnitTypes' /\ disturbed' \in BOOLEAN /\ report' \in Results
  BY DEF SaveDraft, ConfirmImport, ConfirmRemove, RefreshGuards, PopupSwitch, TypeOK,
         UnitTypes, units, files, manager
<1>1. task \in [Tasks -> TaskRecords] /\ document \in Records /\ cache \in Records
  BY DEF TypeOK
<1>2. CASE SaveDraft(t)
  <2>1. edits + 1 \in Versions
    BY <1>2, LifecycleAssumption DEF SaveDraft, TypeOK, Versions, Missing
  <2>2. [rec |-> edits + 1, login |-> draft = "on"] \in Records
    BY <2>1 DEF Records
  <2>3. RestTypes' /\ (Fault \/ NoFault)
    BY <1>2, <2>1, <2>2 DEF SaveDraft, TypeOK, RestTypes
  <2>4. task' \in [Tasks -> TaskRecords]
    BY <1>1, <1>2, <2>2, SpawnInstallTypes DEF SaveDraft
  <2> QED BY <1>0, <2>3, <2>4, TypeParts
<1>3. CASE ConfirmImport(t)
  <2> DEFINE imported == [rec |-> 1, login |-> FALSE]
             kept == IF document.rec = Missing THEN imported ELSE document
  <2>1. imported \in Records /\ kept \in Records
    BY <1>1, LifecycleAssumption DEF Records, Versions
  <2>2. RestTypes' /\ (Fault \/ NoFault)
    BY <1>3, <2>1 DEF ConfirmImport, TypeOK, RestTypes
  <2>3. SpawnInstall(t, "settings", imported, kept = imported)
          => task' \in [Tasks -> TaskRecords]
    <3> SUFFICES ASSUME SpawnInstall(t, "settings", imported, kept = imported)
                 PROVE  task' \in [Tasks -> TaskRecords]
      OBVIOUS
    <3> HIDE DEF imported, kept
    <3>1. (kept = imported) \in BOOLEAN
      OBVIOUS
    <3> QED BY <2>1, <3>1, SpawnInstallTypes
  <2>4. task' \in [Tasks -> TaskRecords]
    BY <1>1, <1>3, <2>3 DEF ConfirmImport
  <2> QED BY <1>0, <2>2, <2>4, TypeParts
<1>4. CASE ConfirmRemove(t)
  <2>1. [IdleTask EXCEPT !.op = "retire", !.owner = "settings", !.pc = "retire",
                         !.cfg = cache] \in TaskRecords
        /\ [IdleTask EXCEPT !.op = "remove", !.owner = "settings", !.pc = "quiet",
                !.role = IF kind = "offline" THEN "timer" ELSE "service"] \in TaskRecords
    BY <1>1, IdleType DEF TaskRecords, Pcs
  <2>2. task' \in [Tasks -> TaskRecords]
    BY <1>1, <1>4, <2>1, Spawned DEF ConfirmRemove
  <2>3. CASE kind = "legacy"
    BY <1>0, <1>4, <2>2, <2>3, TypeParts DEF ConfirmRemove, TypeOK, RestTypes
  <2>4. CASE RemoveConfirmed(cache, TRUE)
    BY <1>0, <1>1, <1>4, <2>2, <2>4, TypeParts, RemoveConfirmedTypes DEF ConfirmRemove
  <2> QED BY <1>4, <2>3, <2>4 DEF ConfirmRemove
<1>5. CASE RefreshGuards(t)
  <2>1. [IdleTask EXCEPT !.op = "retire", !.pc = "retire", !.cfg = document] \in TaskRecords
    BY <1>1, IdleType DEF TaskRecords, Pcs
  <2>2. task' \in [Tasks -> TaskRecords]
    BY <1>1, <1>5, <2>1, Spawned, SpawnInstallTypes DEF RefreshGuards
  <2> QED BY <1>0, <1>5, <2>2 DEF RefreshGuards, TypeOK, UnitTypes, settings
<1>6. ASSUME NEW on \in BOOLEAN, PopupSwitch(t, on) PROVE TypeOK'
  <2>1. [IdleTask EXCEPT !.op = "persist", !.pc = "policy", !.login = on, !.cfg = document]
          \in TaskRecords
    BY <1>1, IdleType DEF TaskRecords, Pcs
  <2>2. task' \in [Tasks -> TaskRecords]
    BY <1>6, <2>1, Spawned DEF PopupSwitch
  <2> QED BY <1>0, <1>6, <2>2 DEF PopupSwitch, TypeOK, UnitTypes, settings
<1> QED BY <1>2, <1>3, <1>4, <1>5, <1>6

-----------------------------------------------------------------------------
(* The stages of a task that nobody disturbed                               *)

\* A unit file is as it was when the task began, or what the task installs.
Before(x, u) == file[u] = x.before[u]
Put(x, u) == file[u] = x.new

ServiceStage(x) ==
  /\ x.pc \in {"check", "pause", "write", "reload", "validate", "restore", "rereload", "policy"}
  /\ Before(x, "timer")
  /\ x.pc \in {"check", "pause", "write", "rereload"} => Before(x, "service")
  /\ x.pc \in {"reload", "validate", "restore"} =>
       Put(x, "service") /\ x.prev = x.before["service"]
  /\ x.pc = "policy" => kind = "online" /\ Put(x, "service")
  /\ kind = "offline" /\ x.pc # "check" => x.service = x.before["service"]

TimerStage(x) ==
  /\ x.pc \in {"write", "reload", "validate", "restore", "rereload", "silence"}
  /\ kind = "offline" /\ x.service = x.before["service"] /\ Put(x, "service")
  /\ x.pc \in {"write", "rereload"} => Before(x, "timer")
  /\ x.pc \in {"reload", "validate", "restore", "silence"} => Put(x, "timer")
  /\ x.pc \in {"reload", "validate", "restore"} => x.prev = x.before["timer"]

RollbackStage(x) ==
  /\ x.pc \in {"write", "reload", "validate", "restore", "rereload", "delete", "delReload"}
  /\ kind = "offline" /\ x.service = x.before["service"] /\ x.error \notin {"ok", "stored", "gone"}
  /\ x.error \in {"foreign", "write", "rolledBack"} => Before(x, "timer")
  /\ x.pc \in {"reload", "validate", "delReload"} => Before(x, "service")
  /\ x.pc \in {"delete", "delReload"} => x.service = Missing

InstallStage(x) ==
  /\ kind # "legacy" /\ x.new = document.rec /\ x.login = document.login
  /\ CASE x.role = "service" -> ServiceStage(x)
       [] x.role = "timer" -> TimerStage(x)
       [] OTHER -> RollbackStage(x)

RemoveStage(x) ==
  /\ x.pc \in {"quiet", "delete", "delReload"}
  /\ kind # "legacy" /\ document.rec = Missing
  /\ x.role = "service" \/ (x.role = "timer" /\ kind = "offline")
  /\ x.role = "service" /\ kind = "offline" => file["timer"] = Missing
  /\ x.pc = "delReload" => file[x.role] = Missing

PersistStage(x) ==
  /\ x.pc \in {"policy", "store", "undo"}
  /\ kind = "online" /\ x.cfg = document
  /\ x.pc = "store" => enabled["service"] = x.login

Stage(x) ==
  /\ x.op = "install" => InstallStage(x)
  /\ x.op = "remove" => RemoveStage(x)
  /\ x.op = "persist" => PersistStage(x)

Alone(t) == task[t].op # "none" /\ task[t].alone

TaskInv ==
  /\ \A t \in Tasks : Alone(t) => Stage(task[t]) /\ Busy = {t}
  /\ \A t \in Tasks : /\ task[t].op = "none" => task[t].pc = "idle"
                      /\ task[t].op = "retire" => kind = "legacy"
                      /\ task[t].op = "install" => kind # "legacy"
  /\ preview => kind = "online"

\* Undisturbed but for a choice in the popup that is under way
Quiescent(steps) ==
  /\ ~disturbed
  /\ \A t \in Busy : task[t].alone /\ task[t].op = "persist" /\ task[t].pc \in steps

MatchInv ==
  /\ kind # "legacy" /\ Quiescent({"policy", "store", "undo"}) =>
       \A u \in UnitsOf : file[u] = document.rec
  /\ kind = "online" /\ document.rec # Missing /\ Quiescent({"policy"}) =>
       enabled["service"] = document.login

LifecycleInv == TypeOK /\ TaskInv /\ MatchInv

\* What is true after a success
Agrees ==
  /\ \A u \in UnitsOf : file[u] = document.rec
  /\ kind = "online" /\ document.rec # Missing => enabled["service"] = document.login

\* The same task goes on; the others stay as they are.
Fixed(t) ==
  /\ \A s \in Tasks : s # t => task'[s] = task[s]
  /\ task'[t].op = task[t].op /\ task'[t].alone = task[t].alone
  /\ task'[t].new = task[t].new /\ task'[t].login = task[t].login
  /\ task'[t].cfg = task[t].cfg /\ task'[t].before = task[t].before

\* A task goes on.
LEMMA Continuing ==
  ASSUME LifecycleInv, NEW t \in Tasks, Fixed(t), task[t].op # "none",
         UNCHANGED <<disturbed, kind, document, preview>>,
         Alone(t)' => Stage(task[t])',
         task[t].alone /\ task[t].op = "persist" => file' = file /\ task'[t].pc # "policy"
  PROVE  TaskInv' /\ MatchInv'
<1>1. /\ task'[t].op = task[t].op /\ task'[t].alone = task[t].alone
      /\ \A s \in Tasks : s # t => task'[s] = task[s]
  BY DEF Fixed
<1>2. Busy' = Busy /\ t \in Busy
  BY <1>1 DEF Busy
<1>3. \A s \in Tasks : Alone(s)' => s = t
  BY <1>1, <1>2 DEF LifecycleInv, TaskInv, Alone
<1>4. Alone(t)' => Stage(task[t])' /\ Busy' = {t}
  BY <1>1, <1>2 DEF LifecycleInv, TaskInv, Alone
<1>5. TaskInv'
  BY <1>1, <1>3, <1>4 DEF LifecycleInv, TaskInv
<1>6. Quiescent({"policy", "store", "undo"})' => Quiescent({"policy", "store", "undo"})
                                                   /\ file' = file
  <2> SUFFICES ASSUME Quiescent({"policy", "store", "undo"})'
               PROVE  Quiescent({"policy", "store", "undo"}) /\ file' = file
    OBVIOUS
  <2>1. Alone(t) /\ task[t].op = "persist"
    BY <1>1, <1>2 DEF Quiescent, Alone
  <2>2. Stage(task[t]) /\ Busy = {t}
    BY <2>1 DEF LifecycleInv, TaskInv
  <2> QED BY <2>1, <2>2 DEF Quiescent, Stage, PersistStage, Alone
<1>7. ~Quiescent({"policy"})'
  BY <1>1, <1>2 DEF Quiescent
<1> QED BY <1>5, <1>6, <1>7 DEF LifecycleInv, MatchInv, UnitsOf

\* A task ends.
LEMMA Ending ==
  ASSUME LifecycleInv, NEW t \in Tasks, NEW result \in Results, End(t, result),
         task[t].op # "none", UNCHANGED <<kind, preview>>,
         task[t].alone /\ task[t].op \in {"install", "remove"} =>
           result \notin {"stored", "gone"} /\ (result = "ok" => Agrees'),
         task[t].alone /\ task[t].op = "persist" =>
           \/ result \notin {"ok", "stored", "gone"}
           \/ /\ file' = file /\ document'.rec = document.rec
              /\ enabled'["service"] = document'.login
  PROVE  TaskInv' /\ MatchInv'
<1>1. /\ task'[t] = IdleTask /\ \A s \in Tasks : s # t => task'[s] = task[s]
  BY EndType DEF LifecycleInv
<1>2. t \in Busy /\ Busy' = Busy \ {t}
  BY <1>1 DEF Busy, IdleTask
<1>3. \A s \in Tasks : ~Alone(s)'
  BY <1>1, <1>2 DEF LifecycleInv, TaskInv, Alone, IdleTask
<1>4. TaskInv'
  BY <1>1, <1>3 DEF LifecycleInv, TaskInv, IdleTask
<1>5. CASE ~task[t].alone
  BY <1>4, <1>5 DEF End, MatchInv, Quiescent
<1>6. CASE task[t].alone /\ task[t].op \in {"install", "remove"}
  <2>1. ~disturbed' => Agrees'
    BY <1>6 DEF End
  <2> QED BY <1>4, <2>1 DEF MatchInv, Quiescent, Agrees
<1>7. CASE task[t].alone /\ task[t].op = "persist"
  <2> SUFFICES ASSUME ~disturbed' PROVE MatchInv'
    BY <1>4 DEF MatchInv, Quiescent
  <2>1. /\ ~disturbed /\ file' = file /\ document'.rec = document.rec
        /\ enabled'["service"] = document'.login
    BY <1>7 DEF End
  <2>2. Stage(task[t]) /\ Busy = {t}
    BY <1>7 DEF LifecycleInv, TaskInv, Alone
  <2>3. Quiescent({"policy", "store", "undo"})
    BY <1>7, <2>1, <2>2 DEF Quiescent, Stage, PersistStage
  <2> QED BY <2>1, <2>3 DEF LifecycleInv, MatchInv, UnitsOf
<1>8. CASE task[t].op = "retire"
  BY <1>4, <1>8 DEF LifecycleInv, TaskInv, MatchInv
<1>9. task[t] \in TaskRecords
  BY DEF LifecycleInv, TypeOK
<1> QED BY <1>5, <1>6, <1>7, <1>8, <1>9 DEF TaskRecords

\* A task begins.
LEMMA Beginning ==
  ASSUME LifecycleInv, NEW t \in Tasks, NEW new \in TaskRecords, NEW current \in BOOLEAN,
         Spawn(t, new, current), new.op # "none",
         UNCHANGED <<units, kind, preview, disturbed>>,
         new.op = "retire" => kind = "legacy", new.op = "install" => kind # "legacy",
         new.op = "persist" => document' = document,
         current /\ Busy = {} => Stage(task[t])'
  PROVE  TaskInv' /\ MatchInv'
<1>1. /\ task'[t] = [new EXCEPT !.alone = current /\ Busy = {}, !.before = file]
      /\ \A s \in Tasks : s # t => task'[s] = [task[s] EXCEPT !.alone = FALSE]
  BY DEF Spawn
<1>2. /\ task'[t].op = new.op /\ task'[t].pc = new.pc
      /\ task'[t].alone = (current /\ Busy = {})
      /\ \A s \in Tasks : s # t =>
           /\ task'[s].op = task[s].op /\ task'[s].pc = task[s].pc
           /\ task'[s].alone = FALSE
  <2>1. /\ task'[t].op = new.op /\ task'[t].pc = new.pc
        /\ task'[t].alone = (current /\ Busy = {})
    BY <1>1 DEF TaskRecords
  <2> QED BY <1>1, <2>1, UnmarkedFields DEF LifecycleInv
<1>3. Busy' = Busy \cup {t}
  BY <1>2 DEF Busy
<1>4. TaskInv'
  BY <1>2, <1>3 DEF LifecycleInv, TaskInv, Alone
<1>5. ASSUME NEW steps, Quiescent(steps)'
      PROVE  Busy = {} /\ ~disturbed /\ document' = document
  BY <1>2, <1>3, <1>5 DEF Quiescent
<1>6. Busy = {} /\ ~disturbed => Quiescent({"policy", "store", "undo"}) /\ Quiescent({"policy"})
  BY DEF Quiescent
<1> QED BY <1>4, <1>5, <1>6 DEF LifecycleInv, MatchInv, UnitsOf, units, files, manager

\* Two writers have met.
LEMMA Disturbing ==
  ASSUME LifecycleInv, Disturb, UNCHANGED <<kind, preview>>
  PROVE  TaskInv' /\ MatchInv'
<1>1. \A t \in Tasks : task'[t] = [task[t] EXCEPT !.alone = FALSE]
  BY Marked DEF LifecycleInv, Disturb
<1>2. \A t \in Tasks : /\ task'[t].alone = FALSE /\ task'[t].op = task[t].op
                       /\ task'[t].pc = task[t].pc
  BY <1>1, UnmarkedFields DEF LifecycleInv
<1> QED BY <1>2 DEF LifecycleInv, TaskInv, MatchInv, Quiescent, Disturb, Alone

\* A handler that spawns nothing
LEMMA Handling ==
  ASSUME LifecycleInv, UNCHANGED <<units, task, kind, preview, disturbed>>,
         document' = document \/ kind = "legacy"
  PROVE  TaskInv' /\ MatchInv'
<1> USE DEF units, files, manager
<1>1. \A t \in Tasks : Alone(t) => Stage(task[t])'
  <2> SUFFICES ASSUME NEW t \in Tasks, Stage(task[t]) PROVE Stage(task[t])'
    BY DEF LifecycleInv, TaskInv
  <2>1. CASE document' = document
    BY <2>1 DEF Stage, InstallStage, ServiceStage, TimerStage, RollbackStage, Before, Put,
                RemoveStage, PersistStage
  <2>2. CASE kind = "legacy"
    BY <2>2 DEF Stage, InstallStage, RemoveStage, PersistStage
  <2> QED BY <2>1, <2>2
<1>2. TaskInv'
  BY <1>1 DEF LifecycleInv, TaskInv, Alone, Busy
<1> QED BY <1>2 DEF LifecycleInv, MatchInv, Quiescent, Busy, UnitsOf

\* What a step of a task does to the tasks.
LEMMA PcSteps ==
  ASSUME TypeOK, NEW t \in Tasks, NEW pc \in Pcs,
         GoTo(t, pc)
  PROVE  /\ Fixed(t) /\ task'[t].pc = pc
         /\ task'[t].role = task[t].role /\ task'[t].prev = task[t].prev
         /\ task'[t].service = task[t].service /\ task'[t].error = task[t].error
<1>1. task[t] \in TaskRecords
  BY DEF TypeOK
<1>2. task'[t] = [task[t] EXCEPT !.pc = pc]
      /\ \A s \in Tasks : s # t => task'[s] = task[s]
  BY DEF TypeOK, Step, GoTo
<1>3. \A r \in TaskRecords : LET new == [r EXCEPT !.pc = pc]
        IN  /\ new.op = r.op /\ new.new = r.new /\ new.login = r.login /\ new.cfg = r.cfg
            /\ new.before = r.before /\ new.alone = r.alone /\ new.pc = pc
            /\ new.role = r.role /\ new.prev = r.prev /\ new.service = r.service
            /\ new.error = r.error
  BY DEF TaskRecords
<1> QED BY <1>1, <1>2, <1>3 DEF Fixed

LEMMA PrevSteps ==
  ASSUME TypeOK, NEW t \in Tasks, NEW pc \in Pcs, NEW prev \in Contents,
         Step(t, [task[t] EXCEPT !.pc = pc, !.prev = prev])
  PROVE  /\ Fixed(t) /\ task'[t].pc = pc /\ task'[t].prev = prev
         /\ task'[t].role = task[t].role /\ task'[t].service = task[t].service
         /\ task'[t].error = task[t].error
<1>1. task[t] \in TaskRecords
  BY DEF TypeOK
<1>2. task'[t] = [task[t] EXCEPT !.pc = pc, !.prev = prev]
      /\ \A s \in Tasks : s # t => task'[s] = task[s]
  BY DEF TypeOK, Step, GoTo
<1>3. \A r \in TaskRecords : LET new == [r EXCEPT !.pc = pc, !.prev = prev]
        IN  /\ new.op = r.op /\ new.new = r.new /\ new.login = r.login /\ new.cfg = r.cfg
            /\ new.before = r.before /\ new.alone = r.alone /\ new.pc = pc /\ new.prev = prev
            /\ new.role = r.role /\ new.service = r.service
            /\ new.error = r.error
  BY DEF TaskRecords
<1> QED BY <1>1, <1>2, <1>3 DEF Fixed

LEMMA RoleSteps ==
  ASSUME TypeOK, NEW t \in Tasks, NEW role \in {"service", "timer", "rollback"},
         NEW pc \in Pcs,
         Step(t, [task[t] EXCEPT !.role = role, !.pc = pc])
  PROVE  /\ Fixed(t) /\ task'[t].role = role /\ task'[t].pc = pc
         /\ task'[t].prev = task[t].prev
         /\ task'[t].service = task[t].service /\ task'[t].error = task[t].error
<1>1. task[t] \in TaskRecords
  BY DEF TypeOK
<1>2. task'[t] = [task[t] EXCEPT !.role = role, !.pc = pc]
      /\ \A s \in Tasks : s # t => task'[s] = task[s]
  BY DEF TypeOK, Step, GoTo
<1>3. \A r \in TaskRecords : LET new == [r EXCEPT !.role = role, !.pc = pc]
        IN  /\ new.op = r.op /\ new.new = r.new /\ new.login = r.login /\ new.cfg = r.cfg
            /\ new.before = r.before /\ new.alone = r.alone /\ new.role = role /\ new.pc = pc
            /\ new.prev = r.prev /\ new.service = r.service
            /\ new.error = r.error
  BY DEF TaskRecords
<1> QED BY <1>1, <1>2, <1>3 DEF Fixed

LEMMA CheckSteps ==
  ASSUME TypeOK, NEW t \in Tasks, NEW pc \in Pcs, NEW service \in Contents,
         Step(t, [task[t] EXCEPT !.pc = pc, !.service = service])
  PROVE  /\ Fixed(t) /\ task'[t].pc = pc /\ task'[t].service = service
         /\ task'[t].role = task[t].role /\ task'[t].prev = task[t].prev
         /\ task'[t].error = task[t].error
<1>1. task[t] \in TaskRecords
  BY DEF TypeOK
<1>2. task'[t] = [task[t] EXCEPT !.pc = pc, !.service = service]
      /\ \A s \in Tasks : s # t => task'[s] = task[s]
  BY DEF TypeOK, Step, GoTo
<1>3. \A r \in TaskRecords : LET new == [r EXCEPT !.pc = pc, !.service = service]
        IN  /\ new.op = r.op /\ new.new = r.new /\ new.login = r.login /\ new.cfg = r.cfg
            /\ new.before = r.before /\ new.alone = r.alone /\ new.pc = pc /\ new.service = service
            /\ new.role = r.role /\ new.prev = r.prev /\ new.error = r.error
  BY DEF TaskRecords
<1> QED BY <1>1, <1>2, <1>3 DEF Fixed

LEMMA RollbackSteps ==
  ASSUME TypeOK, NEW t \in Tasks, NEW result \in Results, AfterTimerFailed(t, result)
  PROVE  /\ Fixed(t) /\ task'[t].role = "rollback" /\ task'[t].error = result
         /\ task'[t].pc \in {"delete", "write"} /\ task'[t].service = task[t].service
         /\ task'[t].pc = "delete" => task[t].service = Missing
<1> DEFINE pc == IF task[t].service = Missing THEN "delete" ELSE "write"
<1>1. /\ task[t] \in TaskRecords /\ pc \in {"delete", "write"}
      /\ pc = "delete" => task[t].service = Missing
  BY DEF TypeOK
<1>2. /\ task'[t] = [task[t] EXCEPT !.role = "rollback", !.error = result, !.pc = pc]
      /\ \A s \in Tasks : s # t => task'[s] = task[s]
  BY DEF TypeOK, Step, AfterTimerFailed
<1> HIDE DEF pc
<1>3. \A r \in TaskRecords :
        LET new == [r EXCEPT !.role = "rollback", !.error = result, !.pc = pc]
        IN  /\ new.op = r.op /\ new.new = r.new /\ new.login = r.login /\ new.cfg = r.cfg
            /\ new.before = r.before /\ new.alone = r.alone /\ new.role = "rollback"
            /\ new.error = result /\ new.pc = pc /\ new.service = r.service
  BY DEF TaskRecords
<1> QED BY <1>1, <1>2, <1>3 DEF Fixed

\* Only a task that runs takes a step.
LEMMA StepBusy ==
  ASSUME LifecycleInv, NEW t \in Tasks, TaskStep(t)
  PROVE  task[t].op # "none"
<1> SUFFICES ASSUME task[t].pc = "idle", task[t].op = "none" PROVE FALSE
  BY DEF LifecycleInv, TaskInv
<1> QED
  BY DEF TaskStep, At, Inner, Write, Reload, Invalid, PutBack, Delete, Check, Pause, Installed,
         Policy, StorePopup, UndoPopup, Quiet, Removed, RetireStart, RetireStep, RetireNext,
         Retired

\* A step either goes on with the same task and changes nothing that is shared but the
\* units, or ends it.
GoesOn(t) == Fixed(t) /\ UNCHANGED <<disturbed, kind, document, preview>>

Shape(t) ==
  \/ GoesOn(t)
  \/ \E result \in Results : End(t, result) /\ UNCHANGED <<kind, preview>>

LEMMA EndShape ==
  ASSUME NEW t \in Tasks, NEW result \in Results, End(t, result), UNCHANGED <<kind, preview>>
  PROVE  Shape(t)
BY DEF Shape

LEMMA RetireEndShape ==
  ASSUME NEW t \in Tasks, NEW result \in Results, RetireEnds(t, result)
  PROVE  Shape(t)
BY EndShape DEF RetireEnds, settings

LEMMA ContinueShape ==
  ASSUME TypeOK, NEW t \in Tasks, NEW result \in Results, Continue(t, result), Unchanged(t)
  PROVE  Shape(t)
<1>0. task[t] \in TaskRecords /\ UNCHANGED <<kind, document, preview>>
  BY DEF TypeOK, Unchanged, settings
<1>1. CASE End(t, result) \/ End(t, task[t].error) \/ End(t, "rollback")
  BY <1>0, <1>1, EndShape DEF TaskRecords, Results
<1>2. CASE AfterTimerFailed(t, result)
  BY <1>0, <1>2, RollbackSteps DEF AfterTimerFailed, Shape, GoesOn
<1>3. CASE (GoTo(t, "silence") \/ GoTo(t, "policy")) /\ UNCHANGED <<disturbed, report>>
  BY <1>0, <1>3, PcSteps DEF Pcs, Shape, GoesOn
<1>4. CASE Step(t, [task[t] EXCEPT !.role = "timer", !.pc = "write"])
             /\ UNCHANGED <<disturbed, report>>
  <2>1. "write" \in Pcs
    BY DEF Pcs
  <2> QED BY <1>0, <1>4, <2>1, RoleSteps DEF Shape, GoesOn
<1> QED BY <1>1, <1>2, <1>3, <1>4 DEF Continue

LEMMA StepShape ==
  ASSUME TypeOK, NEW t \in Tasks, TaskStep(t)
  PROVE  Shape(t)
<1>0. /\ task[t] \in TaskRecords
      /\ file["service"] \in Contents /\ file[UnitOf(t)] \in Contents
  BY UnitIsOne DEF TypeOK, Units
<1>1. CASE Inner(t)
  <2>1. UNCHANGED <<disturbed, kind, document, preview>>
    BY <1>1 DEF Inner, settings
  <2> QED BY <1>0, <1>1, <2>1, PcSteps, PrevSteps
          DEF Shape, GoesOn, Inner, Write, Reload, Invalid, PutBack, Delete, Pcs
<1>2. CASE Check(t)
  <2> DEFINE pc == IF file["timer"] = Missing THEN "write" ELSE "pause"
  <2>1. pc \in Pcs
    BY DEF Pcs
  <2>2. \/ /\ Step(t, [task[t] EXCEPT !.pc = pc, !.service = file["service"]])
           /\ UNCHANGED <<disturbed, report>>
        \/ End(t, "foreign")
    BY <1>2 DEF Check
  <2> HIDE DEF pc
  <2>3. UNCHANGED <<kind, document, preview>>
    BY <1>2 DEF Check, Unchanged, settings
  <2> QED BY <1>0, <2>1, <2>2, <2>3, EndShape, CheckSteps DEF Results, Shape, GoesOn
<1>3. CASE Pause(t)
  BY <1>3, PcSteps, EndShape DEF Shape, GoesOn, Pause, Unchanged, settings, Pcs, Results
<1>4. CASE Installed(t)
  BY <1>4, ContinueShape DEF Installed
<1>5. CASE Policy(t) \/ StorePopup(t) \/ UndoPopup(t)
  BY <1>5, PcSteps, EndShape
  DEF Shape, GoesOn, Policy, StorePopup, UndoPopup, Unchanged, settings, Pcs, Results
<1>6. CASE Quiet(t)
  BY <1>6, PcSteps DEF Shape, GoesOn, Quiet, Unchanged, settings, Pcs
<1>7. CASE Removed(t)
  <2>1. "quiet" \in Pcs
    BY DEF Pcs
  <2> QED BY <1>0, <1>7, <2>1, EndShape, RoleSteps DEF Removed, Shape, GoesOn
<1>8. CASE RetireStart(t)
  BY <1>0, <1>8, PrevSteps, RetireEndShape
  DEF Shape, GoesOn, RetireStart, Unchanged, settings, Pcs, Results
<1>9. CASE RetireStep(t)
  <2>1. RetireNext[task[t].pc] \in Pcs
    BY <1>9 DEF RetireStep, RetireNext, Pcs
  <2> QED BY <1>9, <2>1, PcSteps, EndShape, RetireEndShape
          DEF Shape, GoesOn, RetireStep, Unchanged, settings, Results
<1>10. CASE Retired(t)
  BY <1>10, EndShape, RetireEndShape DEF Retired, Results
<1> QED BY <1>1, <1>2, <1>3, <1>4, <1>5, <1>6, <1>7, <1>8, <1>9, <1>10 DEF TaskStep

\* A step of a task that is not alone breaks nothing, for whoever is alone has
\* no other task beside it, and the end of this one is a disturbance.  A retirement
\* claims nothing of the units.
LEMMA NotAlone ==
  ASSUME LifecycleInv, NEW t \in Tasks, TaskStep(t), ~task[t].alone \/ task[t].op = "retire"
  PROVE  TaskInv' /\ MatchInv'
<1>1. TypeOK /\ Shape(t) /\ task[t].op # "none"
  BY StepShape, StepBusy DEF LifecycleInv
<1>2. ASSUME GoesOn(t) PROVE TaskInv' /\ MatchInv'
  <2>1. Alone(t)' => Stage(task[t])'
    BY <1>2 DEF GoesOn, Fixed, Alone, Stage
  <2> QED BY <1>1, <1>2, <2>1, Continuing DEF GoesOn
<1>3. ASSUME NEW result \in Results, End(t, result), UNCHANGED <<kind, preview>>
      PROVE  TaskInv' /\ MatchInv'
  BY <1>1, <1>3, Ending
<1> QED BY <1>1, <1>2, <1>3 DEF Shape

\* The three operations of a task that is alone
LEMMA PersistKeeps ==
  ASSUME LifecycleInv, NEW t \in Tasks, Alone(t), task[t].op = "persist", TaskStep(t)
  PROVE  TaskInv' /\ MatchInv'
<1>0. /\ TypeOK /\ task[t] \in TaskRecords /\ task[t].alone /\ PersistStage(task[t])
      /\ kind = "online" /\ document \in Records
  BY DEF LifecycleInv, TypeOK, TaskInv, Alone, Stage, PersistStage
<1>1. Policy(t) \/ StorePopup(t) \/ UndoPopup(t)
  BY <1>0
  DEF TaskStep, At, Inner, Write, Reload, Invalid, PutBack, Delete, Check, Pause, Installed,
      Quiet, Removed, RetireStart, RetireStep, RetireNext, Retired, PersistStage
<1>2. {"ok", "policy", "stored"} \subseteq Results /\ {"store", "undo"} \subseteq Pcs
  BY DEF Results, Pcs
<1>3. CASE Policy(t)
  <2>0. UNCHANGED <<file, kind, document, preview>>
    BY <1>3 DEF Policy, Unchanged, settings
  <2>1. CASE End(t, "policy")
    BY <1>2, <2>0, <2>1, Ending
  <2>2. CASE /\ PolicyDone("service", task[t].login)
             /\ GoTo(t, "store") /\ UNCHANGED <<disturbed, report>>
    <3>1. Fixed(t) /\ task'[t].pc = "store"
      BY <1>0, <1>2, <2>2, PcSteps
    <3>2. enabled'["service"] = task[t].login
      BY <1>0, <2>2 DEF PolicyDone, TypeOK, Units
    <3>3. Stage(task[t])'
      BY <1>0, <2>0, <3>1, <3>2 DEF Stage, PersistStage, Fixed
    <3> QED BY <2>0, <2>2, <3>1, <3>3, Continuing
  <2> QED BY <1>3, <2>1, <2>2 DEF Policy
<1>4. CASE StorePopup(t)
  <2> DEFINE new == [task[t].cfg EXCEPT !.login = task[t].login]
  <2>0. task[t].cfg = document /\ enabled["service"] = task[t].login
    BY <1>0, <1>4 DEF StorePopup, At, PersistStage
  <2>1. new.rec = document.rec /\ new.login = task[t].login
    BY <2>0, <1>0 DEF Records
  <2>2. UNCHANGED <<file, enabled, kind, preview>>
    BY <1>4 DEF StorePopup, units, files, manager, settings
  <2>3. CASE /\ document' = IF new = task[t].cfg THEN document ELSE new
             /\ End(t, "ok")
    <3> HIDE DEF new
    <3>1. document'.rec = document.rec /\ document'.login = task[t].login
      BY <2>0, <2>1, <2>3
    <3> QED BY <1>2, <2>0, <2>2, <2>3, <3>1, Ending
  <2>4. CASE GoTo(t, "undo") /\ UNCHANGED <<document, disturbed, report>>
    <3>1. Fixed(t) /\ task'[t].pc = "undo"
      BY <1>0, <1>2, <2>4, PcSteps
    <3>2. Stage(task[t])'
      BY <1>0, <2>2, <2>4, <3>1 DEF Stage, PersistStage, Fixed
    <3> QED BY <2>2, <2>4, <3>1, <3>2, Continuing
  <2> QED BY <1>4, <2>3, <2>4 DEF StorePopup
<1>5. CASE UndoPopup(t)
  <2>0. UNCHANGED <<file, kind, document, preview>> /\ task[t].cfg = document
    BY <1>0, <1>5 DEF UndoPopup, Unchanged, settings, PersistStage
  <2>1. CASE End(t, "policy")
    BY <1>2, <2>0, <2>1, Ending
  <2>2. CASE PolicyDone("service", task[t].cfg.login) /\ End(t, "stored")
    <3>1. enabled'["service"] = document'.login
      BY <1>0, <2>0, <2>2 DEF PolicyDone, TypeOK, Units
    <3> QED BY <1>2, <2>0, <2>2, <3>1, Ending
  <2> QED BY <1>5, <2>1, <2>2 DEF UndoPopup
<1> QED BY <1>1, <1>3, <1>4, <1>5

LEMMA RemoveKeeps ==
  ASSUME LifecycleInv, NEW t \in Tasks, Alone(t), task[t].op = "remove", TaskStep(t)
  PROVE  TaskInv' /\ MatchInv'
<1>0. /\ TypeOK /\ task[t] \in TaskRecords /\ task[t].alone /\ RemoveStage(task[t])
      /\ task[t].role \in Units /\ UnitOf(t) = task[t].role
  BY DEF LifecycleInv, TypeOK, TaskInv, Alone, Stage, RemoveStage, UnitOf, Units
<1>1. (Delete(t) /\ Inner(t)) \/ Quiet(t) \/ Removed(t)
  BY <1>0
  DEF TaskStep, At, Inner, Write, Reload, Invalid, PutBack, Delete, Check, Pause, Installed,
      Policy, StorePopup, UndoPopup, RetireStart, RetireStep, RetireNext, Retired, RemoveStage
<1>2. CASE Delete(t) /\ Inner(t)
  <2>0. UNCHANGED <<disturbed, kind, document, preview>> /\ file[UnitOf(t)] \in Contents
        /\ "delReload" \in Pcs
    BY <1>0, <1>2 DEF Inner, settings, TypeOK, Pcs
  <2>1. Fixed(t) /\ task'[t].pc = "delReload" /\ task'[t].role = task[t].role
    BY <1>0, <1>2, <2>0, PrevSteps DEF Delete
  <2>2. file' = [file EXCEPT ![task[t].role] = Missing]
    BY <1>0, <1>2 DEF Delete, SetFile
  <2>3. file'[task[t].role] = Missing /\ (file["timer"] = Missing => file'["timer"] = Missing)
    BY <1>0, <2>2 DEF TypeOK, Units
  <2>4. Stage(task[t])'
    BY <1>0, <2>0, <2>1, <2>3 DEF Stage, RemoveStage, Fixed
  <2> QED BY <1>0, <2>0, <2>1, <2>4, Continuing
<1>3. CASE Quiet(t)
  <2>0. UNCHANGED <<file, disturbed, kind, document, preview>> /\ "delete" \in Pcs
    BY <1>3 DEF Quiet, Unchanged, settings, files, Pcs
  <2>1. Fixed(t) /\ task'[t].pc = "delete" /\ task'[t].role = task[t].role
    BY <1>0, <1>3, <2>0, PcSteps DEF Quiet
  <2>2. Stage(task[t])'
    BY <1>0, <2>0, <2>1 DEF Stage, RemoveStage, Fixed
  <2> QED BY <1>0, <2>0, <2>1, <2>2, Continuing
<1>4. CASE Removed(t)
  <2>0. UNCHANGED <<kind, document, preview>> /\ "quiet" \in Pcs
    BY <1>4 DEF Removed, Pcs
  <2>1. PICK result \in Results :
          /\ RemoveEnds(t, result)
          /\ IF result = "ok" /\ UnitsLeft(t)
               THEN /\ Step(t, [task[t] EXCEPT !.role = "service", !.pc = "quiet"])
                    /\ UNCHANGED <<disturbed, report, pendingRemove, removing>>
               ELSE End(t, result) /\ pendingRemove' = FALSE /\ removing' = FALSE
    BY <1>4 DEF Removed
  <2>2. result \notin {"stored", "gone"}
    BY <2>1 DEF RemoveEnds
  <2>3. result = "ok" => file' = file /\ file[task[t].role] = Missing
    BY <1>0, <2>1 DEF RemoveEnds, At, RemoveStage
  <2>4. CASE result = "ok" /\ UnitsLeft(t)
    <3>1. Fixed(t) /\ task'[t].pc = "quiet" /\ task'[t].role = "service"
      BY <1>0, <2>0, <2>1, <2>4, RoleSteps
    <3>2. Stage(task[t])'
      BY <1>0, <2>0, <2>3, <2>4, <3>1 DEF Stage, RemoveStage, Fixed, UnitsLeft
    <3> QED BY <1>0, <2>0, <2>1, <2>4, <3>1, <3>2, Continuing
  <2>5. CASE ~(result = "ok" /\ UnitsLeft(t))
    <3>1. result = "ok" => Agrees'
      BY <1>0, <2>0, <2>3, <2>5 DEF Agrees, UnitsOf, Units, RemoveStage, UnitsLeft
    <3> QED BY <1>0, <2>0, <2>1, <2>2, <2>5, <3>1, Ending
  <2> QED BY <2>4, <2>5
<1> QED BY <1>1, <1>2, <1>3, <1>4

\* The stages of an install that is alone, whatever it is about
LEMMA InstallFacts ==
  ASSUME LifecycleInv, NEW t \in Tasks, Alone(t), task[t].op = "install"
  PROVE  /\ TypeOK /\ task[t] \in TaskRecords /\ task[t].alone /\ Busy = {t}
         /\ InstallStage(task[t]) /\ kind # "legacy"
         /\ \/ task[t].role = "service" /\ UnitOf(t) = "service" /\ ServiceStage(task[t])
            \/ task[t].role = "timer" /\ UnitOf(t) = "timer" /\ TimerStage(task[t])
            \/ task[t].role = "rollback" /\ UnitOf(t) = "service" /\ RollbackStage(task[t])
<1>1. TypeOK /\ task[t] \in TaskRecords /\ task[t].alone /\ Busy = {t} /\ Stage(task[t])
  BY DEF LifecycleInv, TypeOK, TaskInv, Alone
<1>2. InstallStage(task[t]) /\ kind # "legacy"
  BY <1>1 DEF Stage, InstallStage
<1>3. task[t].role \in {"service", "timer", "rollback"}
  BY <1>1 DEF TaskRecords
<1> QED BY <1>1, <1>2, <1>3 DEF InstallStage, UnitOf

LEMMA InstallInner ==
  ASSUME LifecycleInv, NEW t \in Tasks, Alone(t), task[t].op = "install", Inner(t)
  PROVE  TaskInv' /\ MatchInv'
<1>0. /\ TypeOK /\ task[t] \in TaskRecords /\ task[t].alone
      /\ InstallStage(task[t]) /\ kind # "legacy"
      /\ \/ task[t].role = "service" /\ UnitOf(t) = "service" /\ ServiceStage(task[t])
         \/ task[t].role = "timer" /\ UnitOf(t) = "timer" /\ TimerStage(task[t])
         \/ task[t].role = "rollback" /\ UnitOf(t) = "service" /\ RollbackStage(task[t])
  BY InstallFacts
<1>1. UNCHANGED <<disturbed, kind, document, preview>>
      /\ {"reload", "delReload", "validate", "restore", "rereload"} \subseteq Pcs
      /\ file \in [Units -> Contents] /\ file[UnitOf(t)] \in Contents
  BY <1>0, UnitIsOne DEF Inner, settings, Pcs, TypeOK
<1> USE DEF Fixed, Stage, InstallStage, ServiceStage, TimerStage, RollbackStage, Before, Put
<1>2. Fixed(t) /\ Stage(task[t])'
  <2>1. CASE Write(t)
    <3>1. /\ Fixed(t) /\ task'[t].pc = "reload" /\ task'[t].prev = file[UnitOf(t)]
          /\ task'[t].role = task[t].role /\ task'[t].service = task[t].service
          /\ task'[t].error = task[t].error
      BY <1>0, <1>1, <2>1, PrevSteps DEF Write
    <3>2. /\ file'[UnitOf(t)] = IF task[t].role = "rollback" THEN task[t].service ELSE task[t].new
          /\ \A u \in Units : u # UnitOf(t) => file'[u] = file[u]
      BY <1>1, <2>1, UnitIsOne DEF Write, SetFile, Content
    <3> QED BY <1>0, <1>1, <2>1, <3>1, <3>2 DEF Write, At, Units
  <2>2. CASE Reload(t) \/ Invalid(t)
    <3>1. \E pc \in {"validate", "restore"} : GoTo(t, pc)
      BY <2>2 DEF Reload, Invalid
    <3>2. /\ Fixed(t) /\ task'[t].pc \in {"validate", "restore"} /\ task'[t].prev = task[t].prev
          /\ task'[t].role = task[t].role /\ task'[t].service = task[t].service
          /\ task'[t].error = task[t].error
      BY <1>0, <1>1, <3>1, PcSteps
    <3>3. file' = file /\ task[t].pc \in {"reload", "validate"}
      BY <2>2 DEF Reload, Invalid, At, units, files
    <3> QED BY <1>0, <1>1, <3>2, <3>3
  <2>3. CASE PutBack(t)
    <3>1. /\ Fixed(t) /\ task'[t].pc = "rereload" /\ task'[t].prev = task[t].prev
          /\ task'[t].role = task[t].role /\ task'[t].service = task[t].service
          /\ task'[t].error = task[t].error
      BY <1>0, <1>1, <2>3, PcSteps DEF PutBack
    <3>2. /\ file'[UnitOf(t)] = task[t].prev
          /\ \A u \in Units : u # UnitOf(t) => file'[u] = file[u]
      BY <1>1, <2>3, UnitIsOne DEF PutBack, Restore, SetFile
    <3> QED BY <1>0, <1>1, <2>3, <3>1, <3>2 DEF PutBack, At, Units
  <2>4. CASE Delete(t)
    <3>1. /\ Fixed(t) /\ task'[t].pc = "delReload" /\ task'[t].prev = file[UnitOf(t)]
          /\ task'[t].role = task[t].role /\ task'[t].service = task[t].service
          /\ task'[t].error = task[t].error
      BY <1>0, <1>1, <2>4, PrevSteps DEF Delete
    <3>2. /\ file'[UnitOf(t)] = Missing
          /\ \A u \in Units : u # UnitOf(t) => file'[u] = file[u]
      BY <1>1, <2>4, UnitIsOne DEF Delete, SetFile
    <3> QED BY <1>0, <1>1, <2>4, <3>1, <3>2 DEF Delete, At, Units
  <2> QED BY <2>1, <2>2, <2>3, <2>4 DEF Inner
<1> QED BY <1>0, <1>1, <1>2, Continuing

LEMMA InstallCheck ==
  ASSUME LifecycleInv, NEW t \in Tasks, Alone(t), task[t].op = "install",
         Check(t) \/ Pause(t) \/ Policy(t)
  PROVE  TaskInv' /\ MatchInv'
<1>0. /\ TypeOK /\ task[t] \in TaskRecords /\ task[t].alone
      /\ InstallStage(task[t]) /\ kind # "legacy"
      /\ \/ task[t].role = "service" /\ ServiceStage(task[t])
         \/ task[t].role = "timer" /\ TimerStage(task[t])
         \/ task[t].role = "rollback" /\ RollbackStage(task[t])
  BY InstallFacts
<1>1. UNCHANGED <<file, kind, document, preview>>
      /\ {"write", "pause"} \subseteq Pcs /\ {"foreign", "policy", "ok"} \subseteq Results
      /\ file["service"] \in Contents
  BY <1>0 DEF Check, Pause, Policy, Unchanged, units, files, settings, Pcs, Results, TypeOK, Units
<1> USE DEF Fixed, Stage, InstallStage, ServiceStage, TimerStage, RollbackStage, Before, Put
<1>2. CASE End(t, "foreign") \/ End(t, "policy")
  BY <1>1, <1>2, Ending
<1>3. CASE Check(t) /\ ~End(t, "foreign")
  <2> DEFINE pc == IF file["timer"] = Missing THEN "write" ELSE "pause"
  <2>1. pc \in Pcs /\ pc \in {"write", "pause"}
    BY <1>1
  <2>2. Step(t, [task[t] EXCEPT !.pc = pc, !.service = file["service"]])
        /\ disturbed' = disturbed
    BY <1>3 DEF Check
  <2> HIDE DEF pc
  <2>3. /\ Fixed(t) /\ task'[t].pc \in {"write", "pause"} /\ task'[t].service = file["service"]
        /\ task'[t].role = task[t].role
    BY <1>0, <1>1, <2>1, <2>2, CheckSteps
  <2>4. Stage(task[t])'
    BY <1>0, <1>1, <1>3, <2>3 DEF Check, At
  <2> QED BY <1>0, <1>1, <2>2, <2>3, <2>4, Continuing
<1>4. CASE At(t, "pause") /\ GoTo(t, "write") /\ UNCHANGED <<disturbed, report>>
  <2>1. /\ Fixed(t) /\ task'[t].pc = "write" /\ task'[t].service = task[t].service
        /\ task'[t].role = task[t].role
    BY <1>0, <1>1, <1>4, PcSteps
  <2>2. Stage(task[t])'
    BY <1>0, <1>1, <1>4, <2>1 DEF At
  <2> QED BY <1>0, <1>1, <1>4, <2>1, <2>2, Continuing
<1>5. CASE At(t, "silence") /\ End(t, "ok")
  <2>1. Agrees'
    BY <1>0, <1>1, <1>5 DEF Agrees, UnitsOf, Units, At
  <2> QED BY <1>1, <1>5, <2>1, Ending
<1>6. CASE Policy(t) /\ PolicyDone("service", task[t].login) /\ End(t, "ok")
  <2>1. enabled'["service"] = task[t].login
    BY <1>0, <1>6 DEF PolicyDone, TypeOK, Units
  <2>2. Agrees'
    BY <1>0, <1>1, <1>6, <2>1 DEF Agrees, UnitsOf, Policy, At
  <2> QED BY <1>1, <1>6, <2>2, Ending
<1> QED BY <1>2, <1>3, <1>4, <1>5, <1>6 DEF Check, Pause, Policy

\* The end of an install of one unit, as its caller finds it
LEMMA UnitInstalled ==
  ASSUME LifecycleInv, NEW t \in Tasks, Alone(t), task[t].op = "install", NEW result \in Results,
         InstallEnds(t, result) \/ RemoveEnds(t, result)
  PROVE  /\ result \notin {"stored", "gone"}
         /\ task[t].role \in {"service", "timer"} => InstallEnds(t, result)
         /\ result = "ok" \/ InstallEnds(t, result) => file' = file
         /\ result = "ok" => task[t].pc \in {"validate", "delReload"}
         /\ InstallEnds(t, result) /\ result # "ok" =>
              \/ task[t].pc \in {"write", "rereload"}
              \/ result \notin {"foreign", "write", "rolledBack"}
<1>1. \/ task[t].role = "service" /\ ServiceStage(task[t])
      \/ task[t].role = "timer" /\ TimerStage(task[t])
      \/ task[t].role = "rollback" /\ RollbackStage(task[t])
  BY InstallFacts
<1>2. task[t].role \in {"service", "timer"} => task[t].pc \notin {"delete", "delReload"}
  BY <1>1 DEF ServiceStage, TimerStage
<1>3. InstallEnds(t, result) => file' = file
  BY DEF InstallEnds, units, files
<1>4. RemoveEnds(t, result) /\ result = "ok" => file' = file
  BY DEF RemoveEnds
<1> QED BY <1>2, <1>3, <1>4 DEF InstallEnds, RemoveEnds, At

LEMMA InstallContinues ==
  ASSUME LifecycleInv, NEW t \in Tasks, Alone(t), task[t].op = "install", Installed(t)
  PROVE  TaskInv' /\ MatchInv'
<1>0. /\ TypeOK /\ task[t] \in TaskRecords /\ task[t].alone
      /\ InstallStage(task[t]) /\ kind # "legacy"
      /\ \/ task[t].role = "service" /\ ServiceStage(task[t])
         \/ task[t].role = "timer" /\ TimerStage(task[t])
         \/ task[t].role = "rollback" /\ RollbackStage(task[t])
  BY InstallFacts
<1>1. UNCHANGED <<kind, document, preview>>
      /\ {"write", "delete", "silence", "policy"} \subseteq Pcs /\ "rollback" \in Results
  BY DEF Installed, Unchanged, settings, Pcs, Results
<1>2. PICK result \in Results :
        (InstallEnds(t, result) \/ RemoveEnds(t, result)) /\ Continue(t, result)
  BY DEF Installed
<1>3. /\ result \notin {"stored", "gone"}
      /\ task[t].role \in {"service", "timer"} => InstallEnds(t, result) /\ file' = file
      /\ result = "ok" => task[t].pc \in {"validate", "delReload"}
      /\ InstallEnds(t, result) /\ result # "ok" =>
           task[t].pc \in {"write", "rereload"} \/ result \notin {"foreign", "write", "rolledBack"}
  BY <1>2, UnitInstalled
<1> USE DEF Fixed, Stage, InstallStage, ServiceStage, TimerStage, RollbackStage, Before, Put
<1>4. CASE task[t].role = "rollback"
  <2>1. End(t, IF result = "ok" THEN task[t].error ELSE "rollback")
        /\ task[t].error \in Results \ {"ok", "stored", "gone"}
    BY <1>0, <1>2, <1>4 DEF Continue, TaskRecords
  <2>2. PICK final \in Results \ {"ok", "stored", "gone"} : End(t, final)
    BY <1>1, <2>1
  <2> QED BY <1>0, <1>1, <2>2, Ending
<1>5. CASE task[t].role = "timer" /\ result # "ok"
  <2>1. AfterTimerFailed(t, result) /\ result \in Results /\ disturbed' = disturbed
    BY <1>2, <1>5 DEF Continue, AfterTimerFailed
  <2>2. /\ Fixed(t) /\ task'[t].role = "rollback" /\ task'[t].error = result
        /\ task'[t].pc \in {"delete", "write"} /\ task'[t].service = task[t].service
        /\ task'[t].pc = "delete" => task[t].service = Missing
    <3> HIDE DEF Fixed
    <3> QED BY <1>0, <2>1, RollbackSteps
  <2>3. Stage(task[t])'
    BY <1>0, <1>1, <1>3, <1>5, <2>2
  <2> QED BY <1>0, <1>1, <2>1, <2>2, <2>3, Continuing
<1>6. CASE task[t].role = "timer" /\ result = "ok"
  <2>1. GoTo(t, "silence") /\ disturbed' = disturbed
    BY <1>2, <1>6 DEF Continue
  <2>2. /\ Fixed(t) /\ task'[t].pc = "silence" /\ task'[t].role = "timer"
        /\ task'[t].service = task[t].service
    BY <1>0, <1>1, <1>6, <2>1, PcSteps
  <2>3. Stage(task[t])'
    BY <1>0, <1>1, <1>3, <1>6, <2>2
  <2> QED BY <1>0, <1>1, <2>1, <2>2, <2>3, Continuing
<1>7. CASE task[t].role = "service" /\ result # "ok"
  <2>1. End(t, result)
    BY <1>2, <1>7 DEF Continue
  <2> QED BY <1>0, <1>1, <1>3, <1>7, <2>1, Ending
<1>8. CASE task[t].role = "service" /\ result = "ok" /\ kind = "offline"
  <2>1. Step(t, [task[t] EXCEPT !.role = "timer", !.pc = "write"]) /\ disturbed' = disturbed
    BY <1>2, <1>8 DEF Continue
  <2>2. /\ Fixed(t) /\ task'[t].pc = "write" /\ task'[t].role = "timer"
        /\ task'[t].service = task[t].service
    BY <1>0, <1>1, <2>1, RoleSteps
  <2>3. Stage(task[t])'
    BY <1>0, <1>1, <1>3, <1>8, <2>2
  <2> QED BY <1>0, <1>1, <2>1, <2>2, <2>3, Continuing
<1>9. CASE task[t].role = "service" /\ result = "ok" /\ kind # "offline"
  <2>0. kind = "online"
    BY <1>0, <1>9 DEF TypeOK, Kinds
  <2>1. GoTo(t, "policy") /\ disturbed' = disturbed
    BY <1>2, <1>9 DEF Continue
  <2>2. /\ Fixed(t) /\ task'[t].pc = "policy" /\ task'[t].role = "service"
        /\ task'[t].service = task[t].service
    BY <1>0, <1>1, <1>9, <2>1, PcSteps
  <2>3. Stage(task[t])'
    BY <1>0, <1>1, <1>3, <1>9, <2>0, <2>2
  <2> QED BY <1>0, <1>1, <2>1, <2>2, <2>3, Continuing
<1> QED BY <1>0, <1>4, <1>5, <1>6, <1>7, <1>8, <1>9

LEMMA TaskKeepsInv ==
  ASSUME LifecycleInv, NEW t \in Tasks, TaskStep(t)
  PROVE  TaskInv' /\ MatchInv'
<1>1. task[t].op # "none" /\ task[t] \in TaskRecords
  BY StepBusy DEF LifecycleInv, TypeOK
<1>2. CASE ~task[t].alone \/ task[t].op = "retire"
  BY <1>2, NotAlone
<1>3. CASE Alone(t) /\ task[t].op = "persist"
  BY <1>3, PersistKeeps
<1>4. CASE Alone(t) /\ task[t].op = "remove"
  BY <1>4, RemoveKeeps
<1>5. CASE Alone(t) /\ task[t].op = "install"
  <2>1. Stage(task[t]) /\ InstallStage(task[t])
    BY <1>5, InstallFacts DEF Stage
  <2>2. task[t].pc \notin {"store", "undo", "quiet", "retire", "rValidate", "rDisable", "rStop",
                           "rStatus"}
    BY <2>1 DEF InstallStage, ServiceStage, TimerStage, RollbackStage
  <2>3. Inner(t) \/ Check(t) \/ Pause(t) \/ Policy(t) \/ Installed(t)
    BY <1>5, <2>2
    DEF TaskStep, At, StorePopup, UndoPopup, Quiet, Removed, RetireStart, RetireStep, RetireNext,
        Retired
  <2> QED BY <1>5, <2>3, InstallInner, InstallCheck, InstallContinues
<1> QED BY <1>1, <1>2, <1>3, <1>4, <1>5 DEF Alone, TaskRecords

\* Types and the invariant in the first state
LEMMA LifecycleInit == Init => LifecycleInv
<1> SUFFICES ASSUME Init PROVE LifecycleInv
  OBVIOUS
<1>1. PICK saved \in BOOLEAN, login \in BOOLEAN :
        /\ kind = "legacy" => saved
        /\ login => saved /\ kind = "online"
        /\ document = IF saved THEN [rec |-> 1, login |-> login] ELSE NoRecord
        /\ file = [u \in Units |-> IF saved /\ u \in UnitsOf THEN 1 ELSE Missing]
        /\ enabled = [u \in Units |-> saved /\ IF u = "timer" THEN kind = "offline"
                                                ELSE IF kind = "online" THEN login
                                                ELSE kind = "legacy"]
        /\ preview \in BOOLEAN /\ (preview => ~saved /\ kind = "online")
        /\ edits = IF saved \/ preview THEN 1 ELSE 0
  BY DEF Init
<1>2. 1 \in Versions /\ {0, 1} \subseteq Contents
  BY LifecycleAssumption DEF Versions, Contents, Missing
<1>3. document \in Records /\ cache \in Records
  BY <1>1, <1>2 DEF Init, Records, NoRecord
<1>4. file \in [Units -> Contents] /\ loaded \in [Units -> Contents]
  BY <1>1, <1>2 DEF Init, Missing
<1>5. enabled \in [Units -> BOOLEAN] /\ active \in [Units -> BOOLEAN]
  <2>1. enabled \in [Units -> BOOLEAN]
    BY <1>1, Zenon
  <2> QED BY <2>1 DEF Init
<1>6. TypeOK
  <2>1. task \in [Tasks -> TaskRecords]
    BY IdleType DEF Init
  <2>2. faults \in 0..MaxFaults /\ edits \in {Missing} \cup Versions
    BY <1>1, <1>2, LifecycleAssumption DEF Init, Missing
  <2>3. /\ kind \in Kinds /\ draft \in {"closed", "on", "off"} /\ preview \in BOOLEAN
        /\ pendingRemove \in BOOLEAN /\ removing \in BOOLEAN
        /\ disturbed \in BOOLEAN /\ report \in Results
    BY <1>1 DEF Init, Results
  <2> QED BY <1>3, <1>4, <1>5, <2>1, <2>2, <2>3 DEF TypeOK
<1>7. Busy = {}
  BY DEF Init, Busy, IdleTask
<1>8. TaskInv
  BY <1>1, <1>7 DEF Init, TaskInv, Alone, IdleTask
<1>9. \A u \in UnitsOf : file[u] = document.rec
  BY <1>1 DEF UnitsOf, Units, NoRecord
<1>10. kind = "online" /\ document.rec # Missing => enabled["service"] = document.login
  BY <1>1 DEF Units, NoRecord, Missing
<1> QED BY <1>6, <1>8, <1>9, <1>10 DEF LifecycleInv, MatchInv

\* The handlers of Settings and of the applet
LEMMA InstallBegins ==
  ASSUME LifecycleInv, NEW t \in Tasks, NEW who \in {"applet", "settings"},
         NEW record \in Records, NEW current \in BOOLEAN,
         SpawnInstall(t, who, record, current),
         UNCHANGED <<units, kind, preview, disturbed>>,
         kind # "legacy", current => document' = record
  PROVE  TaskInv' /\ MatchInv'
<1> DEFINE pc == IF kind = "offline" THEN "check" ELSE "write"
           new == [IdleTask EXCEPT !.op = "install", !.owner = who, !.new = record.rec,
                                   !.login = record.login, !.pc = pc]
<1>1. /\ record.rec \in Contents /\ record.login \in BOOLEAN
      /\ pc \in Pcs
  BY DEF Records, Contents, Pcs
<1>2. Spawn(t, new, current)
  BY DEF SpawnInstall
<1>3. /\ new \in TaskRecords /\ new.op = "install" /\ new.new = record.rec
      /\ new.login = record.login /\ new.pc = pc /\ new.role = "service"
  <2> HIDE DEF pc
  <2> QED BY <1>1, IdleType DEF TaskRecords, IdleTask
<1> HIDE DEF new
<1>4. task'[t] = [new EXCEPT !.alone = current /\ Busy = {}, !.before = file]
  BY <1>2 DEF Spawn, LifecycleInv, TypeOK
<1>5. /\ task'[t].op = "install" /\ task'[t].new = record.rec /\ task'[t].login = record.login
      /\ task'[t].pc = pc /\ task'[t].role = "service" /\ task'[t].before = file
  BY <1>3, <1>4 DEF TaskRecords
<1>6. current => Stage(task[t])'
  BY <1>5 DEF Stage, InstallStage, ServiceStage, Before, units, files
<1> QED BY <1>2, <1>3, <1>6, Beginning

LEMMA HandlersKeep ==
  ASSUME LifecycleInv, NEW t \in Tasks,
         SaveDraft(t) \/ ConfirmImport(t) \/ ConfirmRemove(t) \/ RefreshGuards(t)
           \/ \E on \in BOOLEAN : PopupSwitch(t, on)
  PROVE  TaskInv' /\ MatchInv'
<1>0. /\ document \in Records /\ cache \in Records /\ TypeOK /\ IdleTask \in TaskRecords
      /\ UNCHANGED <<units, kind, preview, disturbed>>
  BY IdleType
  DEF LifecycleInv, TypeOK, SaveDraft, ConfirmImport, ConfirmRemove, RefreshGuards, PopupSwitch,
      settings
<1>1. CASE SaveDraft(t)
  <2> DEFINE record == [rec |-> edits + 1, login |-> draft = "on"]
  <2>1. record \in Records
    <3>1. edits + 1 \in Versions
      BY <1>1, LifecycleAssumption DEF SaveDraft, LifecycleInv, TypeOK, Versions, Missing
    <3> QED BY <3>1 DEF Records
  <2>2. CASE document' = record /\ kind # "legacy" /\ SpawnInstall(t, "settings", record, TRUE)
    <3> HIDE DEF record
    <3> QED BY <1>0, <2>1, <2>2, InstallBegins
  <2>3. CASE task' = task /\ (document' = document \/ kind = "legacy")
    BY <1>0, <2>3, Handling
  <2> QED BY <1>1, <2>2, <2>3 DEF SaveDraft
<1>2. CASE ConfirmImport(t)
  <2> DEFINE imported == [rec |-> 1, login |-> FALSE]
             kept == IF document.rec = Missing THEN imported ELSE document
  <2>1. imported \in Records /\ kept \in Records
    BY <1>0, LifecycleAssumption DEF Records, Versions
  <2>2. kind # "legacy"
    BY <1>2 DEF ConfirmImport, LifecycleInv, TaskInv
  <2>3. ASSUME document' = kept, SpawnInstall(t, "settings", imported, kept = imported)
        PROVE  TaskInv' /\ MatchInv'
    <3> HIDE DEF imported, kept
    <3>1. (kept = imported) \in BOOLEAN /\ (kept = imported => document' = imported)
      BY <2>3
    <3> QED BY <1>0, <2>1, <2>2, <2>3, <3>1, InstallBegins
  <2>4. CASE task' = task /\ document' = document
    BY <1>0, <2>4, Handling
  <2> QED BY <1>2, <2>3, <2>4 DEF ConfirmImport
<1>3. CASE ConfirmRemove(t)
  <2> DEFINE retire == [IdleTask EXCEPT !.op = "retire", !.owner = "settings", !.pc = "retire",
                                        !.cfg = cache]
             role == IF kind = "offline" THEN "timer" ELSE "service"
             remove == [IdleTask EXCEPT !.op = "remove", !.owner = "settings", !.pc = "quiet",
                                        !.role = role]
  <2>1. /\ retire \in TaskRecords /\ retire.op = "retire"
        /\ remove \in TaskRecords /\ remove.op = "remove" /\ remove.pc = "quiet"
        /\ remove.role = role
    BY <1>0 DEF TaskRecords, Pcs
  <2>2. ASSUME kind = "legacy", Spawn(t, retire, TRUE) PROVE TaskInv' /\ MatchInv'
    <3> HIDE DEF retire
    <3>1. task'[t] = [retire EXCEPT !.alone = TRUE /\ Busy = {}, !.before = file]
      BY <2>2 DEF Spawn, LifecycleInv, TypeOK
    <3>2. task'[t].op = "retire"
      BY <2>1, <3>1 DEF TaskRecords
    <3>3. Stage(task[t])'
      BY <3>2 DEF Stage
    <3> QED BY <1>0, <2>1, <2>2, <3>3, Beginning
  <2>3. ASSUME kind # "legacy", document'.rec = Missing, Spawn(t, remove, TRUE)
        PROVE  TaskInv' /\ MatchInv'
    <3> HIDE DEF remove
    <3>1. task'[t] = [remove EXCEPT !.alone = TRUE /\ Busy = {}, !.before = file]
      BY <2>3 DEF Spawn, LifecycleInv, TypeOK
    <3>2. task'[t].op = "remove" /\ task'[t].pc = "quiet" /\ task'[t].role = role
      BY <2>1, <3>1 DEF TaskRecords
    <3>3. Stage(task[t])'
      BY <1>0, <2>3, <3>2 DEF Stage, RemoveStage
    <3> QED BY <1>0, <2>1, <2>3, <3>3, Beginning
  <2>4. CASE kind = "legacy"
    BY <1>3, <2>2, <2>4 DEF ConfirmRemove
  <2>5. CASE kind # "legacy"
    <3>1. CASE removing'
      <4>1. document' = NoRecord
        BY <1>3, <2>5, <3>1 DEF ConfirmRemove, RemoveConfirmed, Store
      <4> QED BY <1>3, <2>3, <2>5, <3>1, <4>1 DEF ConfirmRemove, NoRecord
    <3>2. CASE ~removing'
      <4>1. document' = document /\ task' = task
        BY <1>3, <2>5, <3>2 DEF ConfirmRemove, RemoveConfirmed, Store
      <4> QED BY <1>0, <4>1, Handling
    <3> QED BY <3>1, <3>2
  <2> QED BY <2>4, <2>5
<1>4. CASE RefreshGuards(t)
  <2> DEFINE retire == [IdleTask EXCEPT !.op = "retire", !.pc = "retire", !.cfg = document]
  <2>0. document' = document
    BY <1>4 DEF RefreshGuards
  <2>1. retire \in TaskRecords /\ retire.op = "retire"
    BY <1>0 DEF TaskRecords, Pcs
  <2>2. ASSUME kind = "legacy", Spawn(t, retire, TRUE) PROVE TaskInv' /\ MatchInv'
    <3> HIDE DEF retire
    <3>1. task'[t] = [retire EXCEPT !.alone = TRUE /\ Busy = {}, !.before = file]
      BY <2>2 DEF Spawn, LifecycleInv, TypeOK
    <3>2. task'[t].op = "retire"
      BY <2>1, <3>1 DEF TaskRecords
    <3>3. Stage(task[t])'
      BY <3>2 DEF Stage
    <3> QED BY <1>0, <2>1, <2>2, <3>3, Beginning
  <2>3. CASE kind = "online" /\ SpawnInstall(t, "applet", document, TRUE)
    BY <1>0, <2>0, <2>3, InstallBegins
  <2> QED BY <1>4, <2>2, <2>3 DEF RefreshGuards
<1>5. ASSUME NEW on \in BOOLEAN, PopupSwitch(t, on) PROVE TaskInv' /\ MatchInv'
  <2> DEFINE persist == [IdleTask EXCEPT !.op = "persist", !.pc = "policy", !.login = on,
                                         !.cfg = document]
  <2>1. /\ persist \in TaskRecords /\ persist.op = "persist" /\ persist.pc = "policy"
        /\ persist.cfg = document
    BY <1>0 DEF TaskRecords, Pcs
  <2>2. Spawn(t, persist, TRUE) /\ document' = document /\ kind = "online"
    BY <1>5 DEF PopupSwitch
  <2> HIDE DEF persist
  <2>3. task'[t] = [persist EXCEPT !.alone = TRUE /\ Busy = {}, !.before = file]
    BY <2>2 DEF Spawn, LifecycleInv, TypeOK
  <2>4. task'[t].op = "persist" /\ task'[t].pc = "policy" /\ task'[t].cfg = document
    BY <2>1, <2>3 DEF TaskRecords
  <2>5. Stage(task[t])'
    BY <1>0, <2>2, <2>4 DEF Stage, PersistStage
  <2> QED BY <1>0, <2>1, <2>2, <2>5, Beginning
<1> QED BY <1>1, <1>2, <1>3, <1>4, <1>5

\* The handlers of Settings that spawn nothing, Resume, and the edits of the user
LEMMA OthersTypes ==
  ASSUME TypeOK,
         OpenEditor \/ Reorder \/ RemovePress \/ Resume \/ \E u \in Units : UserEdit(u)
  PROVE  TypeOK'
<1>1. CASE OpenEditor \/ RemovePress
  BY <1>1 DEF OpenEditor, RemovePress, TypeOK, units, files, manager
<1>2. ASSUME task' = [t \in Tasks |-> [task[t] EXCEPT !.alone = FALSE]]
      PROVE  task' \in [Tasks -> TaskRecords]
  BY <1>2, Marked
<1>3. CASE Reorder
  BY <1>2, <1>3, FaultTypes DEF Reorder, Disturb, TypeOK, units, files, manager, settings
<1>4. CASE Resume
  <2>1. UnitTypes'
    BY <1>4 DEF Resume, TypeOK, UnitTypes, Units
  <2> QED BY <1>2, <1>4, <2>1 DEF Resume, TypeOK, UnitTypes, settings
<1>5. ASSUME NEW u \in Units, UserEdit(u) PROVE TypeOK'
  <2>1. UnitTypes'
    BY <1>5, SetTypes DEF UserEdit, Contents
  <2> QED BY <1>2, <1>5, <2>1, FaultTypes DEF UserEdit, Disturb, TypeOK, UnitTypes, settings
<1> QED BY <1>1, <1>3, <1>4, <1>5

LEMMA OthersKeep ==
  ASSUME LifecycleInv,
         OpenEditor \/ Reorder \/ RemovePress \/ Resume \/ \E u \in Units : UserEdit(u)
  PROVE  TaskInv' /\ MatchInv'
<1>1. CASE OpenEditor \/ RemovePress
  BY <1>1, Handling DEF OpenEditor, RemovePress
<1>2. CASE Reorder \/ \E u \in Units : UserEdit(u)
  BY <1>2, Disturbing DEF Reorder, UserEdit, settings
<1>3. CASE Resume
  <2>1. \A t \in Tasks : task'[t] = [task[t] EXCEPT !.alone = FALSE]
    BY <1>3, Marked DEF LifecycleInv, Resume
  <2>2. \A t \in Tasks : /\ task'[t].alone = FALSE /\ task'[t].op = task[t].op
                         /\ task'[t].pc = task[t].pc
    BY <2>1, UnmarkedFields DEF LifecycleInv
  <2>3. TaskInv'
    BY <1>3, <2>2 DEF LifecycleInv, TaskInv, Alone, Resume, settings
  <2>4. \A steps : Quiescent(steps)' => Quiescent(steps)
    BY <1>3, <2>2 DEF Quiescent, Busy, Resume
  <2> QED BY <1>3, <2>3, <2>4 DEF LifecycleInv, MatchInv, Resume, UnitsOf
<1> QED BY <1>1, <1>2, <1>3

\* Every step of the specification
LEMMA LifecycleStep == LifecycleInv /\ [Next]_vars => LifecycleInv'
<1> SUFFICES ASSUME LifecycleInv, [Next]_vars PROVE LifecycleInv'
  OBVIOUS
<1>0. TypeOK
  BY DEF LifecycleInv
<1>1. CASE OpenEditor \/ Reorder \/ RemovePress \/ Resume \/ \E u \in Units : UserEdit(u)
  BY <1>0, <1>1, OthersTypes, OthersKeep DEF LifecycleInv
<1>2. ASSUME NEW t \in Tasks,
             SaveDraft(t) \/ ConfirmImport(t) \/ ConfirmRemove(t) \/ RefreshGuards(t)
               \/ \E on \in BOOLEAN : PopupSwitch(t, on)
      PROVE  LifecycleInv'
  BY <1>0, <1>2, HandlerTypes, HandlersKeep DEF LifecycleInv
<1>3. ASSUME NEW t \in Tasks, TaskStep(t) PROVE LifecycleInv'
  BY <1>0, <1>3, TaskTypes, TaskKeepsInv DEF LifecycleInv
<1>4. CASE UNCHANGED vars
  <2>1. TypeOK'
    BY <1>0, <1>4 DEF TypeOK, vars, units, files, manager, settings
  <2>2. TaskInv' /\ MatchInv'
    BY <1>4, Handling DEF vars, settings
  <2> QED BY <2>1, <2>2 DEF LifecycleInv
<1> QED BY <1>1, <1>2, <1>3, <1>4 DEF Next

\* The inductive invariant of the lifecycle: what the files, the record and the
\* previous contents are at every stage of a task that nobody disturbed, for
\* installs, removals and popup choices in any interleaving.
THEOREM LifecycleInvariance == Spec => []LifecycleInv
<1> QED BY LifecycleInit, LifecycleStep, PTL DEF Spec

\* Type correctness of the lifecycle (TypeOK).
THEOREM LifecycleTypes == Spec => []TypeOK
<1>1. LifecycleInv => TypeOK
  BY DEF LifecycleInv
<1> QED BY <1>1, LifecycleInvariance, PTL

\* Once all tasks have ended and the last word was a success, the units are
\* those of the record (RecordMatchesUnits).
THEOREM RecordsMatch == Spec => []RecordMatchesUnits
<1>1. LifecycleInv => RecordMatchesUnits
  BY DEF LifecycleInv, MatchInv, Quiescent, RecordMatchesUnits, Calm
<1> QED BY <1>1, LifecycleInvariance, PTL

\* ... and the mount starts at login exactly if the record says so (LoginAgrees).
THEOREM LoginsAgree == Spec => []LoginAgrees
<1>1. LifecycleInv => LoginAgrees
  BY DEF LifecycleInv, MatchInv, Quiescent, LoginAgrees, Calm
<1> QED BY <1>1, LifecycleInvariance, PTL

-----------------------------------------------------------------------------
(* How an install ends                                                      *)

\* What InstallSettled says of the end of the install of one task
Settled(t) ==
  /\ report' = "ok" =>
       /\ \A u \in UnitsOf : file'[u] = task[t].new /\ loaded'[u] = task[t].new
       /\ kind = "offline" => ~enabled'["timer"] /\ ~active'["timer"]
  /\ report' \in {"foreign", "write", "rolledBack"} => file' = task[t].before

\* Both units as before: the files are those of before.
LEMMA BothBefore ==
  ASSUME TypeOK, NEW t \in Tasks, Before(task[t], "service"), Before(task[t], "timer")
  PROVE  file = task[t].before
<1>1. file \in [Units -> Contents] /\ task[t].before \in [Units -> Contents]
  BY DEF TypeOK, TaskRecords
<1> QED BY <1>1 DEF Before, Units

LEMMA TaskSettles ==
  ASSUME LifecycleInv, NEW t \in Tasks, Alone(t), task[t].op = "install", TaskStep(t),
         task'[t].op = "none"
  PROVE  Settled(t)
<1>0. /\ TypeOK /\ task[t] \in TaskRecords /\ task[t].alone
      /\ InstallStage(task[t]) /\ kind # "legacy"
      /\ \/ task[t].role = "service" /\ UnitOf(t) = "service" /\ ServiceStage(task[t])
         \/ task[t].role = "timer" /\ UnitOf(t) = "timer" /\ TimerStage(task[t])
         \/ task[t].role = "rollback" /\ UnitOf(t) = "service" /\ RollbackStage(task[t])
  BY InstallFacts
<1>1. GoesOn(t) => FALSE
  BY DEF GoesOn, Fixed
<1>2. \A result \in Results : End(t, result) => report' = result
  BY DEF End
<1>3. {"ok", "foreign", "policy", "rollback"} \subseteq Results
      /\ {"write", "delete", "silence", "policy", "store", "undo"} \subseteq Pcs
  BY DEF Results, Pcs
<1>4. \A pc \in Pcs : ~GoTo(t, pc)
  BY <1>0, PcSteps DEF Fixed
<1>5. CASE Inner(t)
  <2>1. UNCHANGED <<disturbed, kind, document, preview>>
        /\ file[UnitOf(t)] \in Contents
        /\ {"reload", "delReload", "validate", "restore", "rereload"} \subseteq Pcs
    BY <1>0, <1>5, UnitIsOne DEF Inner, settings, TypeOK, Pcs
  <2> QED BY <1>0, <1>1, <1>5, <2>1, PcSteps, PrevSteps
          DEF GoesOn, Inner, Write, Reload, Invalid, PutBack, Delete
<1>6. CASE Check(t)
  <2>1. CASE End(t, "foreign")
    <3>1. report' = "foreign" /\ file' = file
      BY <1>2, <1>3, <1>6, <2>1 DEF Check, units, files
    <3>2. Before(task[t], "service") /\ Before(task[t], "timer")
      BY <1>0, <1>6 DEF Check, At, ServiceStage, TimerStage, RollbackStage
    <3> QED BY <1>0, <3>1, <3>2, BothBefore DEF Settled
  <2>2. CASE ~End(t, "foreign")
    <3> DEFINE pc == IF file["timer"] = Missing THEN "write" ELSE "pause"
    <3>1. pc \in Pcs /\ file["service"] \in Contents
      BY <1>0 DEF Pcs, TypeOK, Units
    <3>2. Step(t, [task[t] EXCEPT !.pc = pc, !.service = file["service"]])
      BY <1>6, <2>2 DEF Check
    <3> HIDE DEF pc
    <3> QED BY <1>0, <3>1, <3>2, CheckSteps DEF Fixed
  <2> QED BY <2>1, <2>2
<1>7. CASE Pause(t)
  <2>1. CASE End(t, "policy")
    BY <1>2, <1>3, <2>1 DEF Settled
  <2>2. CASE At(t, "silence") /\ TimerSilenced /\ loaded' = file /\ End(t, "ok")
    <3>1. report' = "ok" /\ file' = file
      BY <1>2, <1>3, <1>7, <2>2 DEF Pause
    <3>2. Put(task[t], "service") /\ Put(task[t], "timer")
      BY <1>0, <2>2 DEF At, ServiceStage, TimerStage, RollbackStage
    <3>3. ~enabled'["timer"] /\ ~active'["timer"]
      BY <1>0, <2>2 DEF TimerSilenced, TypeOK, Units
    <3> QED BY <2>2, <3>1, <3>2, <3>3 DEF Settled, Put, UnitsOf, Units
  <2> QED BY <1>3, <1>4, <1>7, <2>1, <2>2 DEF Pause
<1>8. CASE Policy(t)
  <2>1. CASE End(t, "policy")
    BY <1>2, <1>3, <2>1 DEF Settled
  <2>2. CASE PolicyDone("service", task[t].login) /\ End(t, "ok")
    <3>1. report' = "ok" /\ file' = file /\ loaded' = file
      BY <1>2, <1>3, <1>8, <2>2 DEF Policy, PolicyDone
    <3>2. Put(task[t], "service") /\ kind = "online"
      BY <1>0, <1>8 DEF Policy, At, ServiceStage, TimerStage, RollbackStage
    <3> QED BY <3>1, <3>2 DEF Settled, Put, UnitsOf
  <2> QED BY <1>8, <2>1, <2>2 DEF Policy
<1>9. CASE Installed(t)
  <2>1. PICK result \in Results :
          (InstallEnds(t, result) \/ RemoveEnds(t, result)) /\ Continue(t, result)
    BY <1>9 DEF Installed
  <2>2. /\ task[t].role \in {"service", "timer"} => InstallEnds(t, result) /\ file' = file
        /\ result = "ok" \/ InstallEnds(t, result) => file' = file
        /\ result = "ok" => task[t].pc \in {"validate", "delReload"}
        /\ InstallEnds(t, result) /\ result # "ok" =>
             \/ task[t].pc \in {"write", "rereload"}
             \/ result \notin {"foreign", "write", "rolledBack"}
    BY <2>1, UnitInstalled
  <2>3. CASE task[t].role = "service" /\ result # "ok"
    <3>1. report' = result
      BY <1>2, <2>1, <2>3 DEF Continue
    <3>2. result \in {"foreign", "write", "rolledBack"} =>
            Before(task[t], "service") /\ Before(task[t], "timer")
      BY <1>0, <2>2, <2>3 DEF ServiceStage
    <3> QED BY <1>0, <2>2, <2>3, <3>1, <3>2, BothBefore DEF Settled
  <2>4. CASE task[t].role = "rollback" /\ result # "ok"
    <3>1. End(t, "rollback")
      BY <2>1, <2>4 DEF Continue
    <3> QED BY <1>2, <1>3, <3>1 DEF Settled
  <2>5. CASE task[t].role = "rollback" /\ result = "ok"
    <3>1. End(t, task[t].error) /\ task[t].error \in Results \ {"ok"}
      BY <1>0, <2>1, <2>5 DEF Continue, TaskRecords, RollbackStage
    <3>2. report' = task[t].error /\ file' = file
      BY <1>2, <2>2, <2>5, <3>1
    <3>3. task[t].error \in {"foreign", "write", "rolledBack"} =>
            Before(task[t], "service") /\ Before(task[t], "timer")
      BY <1>0, <2>2, <2>5 DEF RollbackStage
    <3> QED BY <1>0, <3>1, <3>2, <3>3, BothBefore DEF Settled
  <2>6. CASE task[t].role = "timer" /\ result # "ok"
    <3>1. AfterTimerFailed(t, result)
      BY <2>1, <2>6 DEF Continue
    <3> QED BY <1>0, <2>1, <3>1, RollbackSteps DEF Fixed
  <2>7. CASE task[t].role \in {"service", "timer"} /\ result = "ok"
    <3>1. GoTo(t, "silence") \/ GoTo(t, "policy")
            \/ Step(t, [task[t] EXCEPT !.role = "timer", !.pc = "write"])
      BY <2>1, <2>7 DEF Continue
    <3> QED BY <1>0, <1>3, <1>4, <3>1, RoleSteps DEF Fixed
  <2> QED BY <1>0, <2>3, <2>4, <2>5, <2>6, <2>7
<1>10. Inner(t) \/ Check(t) \/ Pause(t) \/ Policy(t) \/ Installed(t)
  <2>1. task[t].pc \notin {"store", "undo", "quiet", "retire", "rValidate", "rDisable", "rStop",
                           "rStatus"}
    BY <1>0 DEF ServiceStage, TimerStage, RollbackStage
  <2> QED BY <2>1 DEF TaskStep, At, StorePopup, UndoPopup, Quiet, Removed, RetireStart,
                      RetireStep, RetireNext, Retired
<1> QED BY <1>5, <1>6, <1>7, <1>8, <1>9, <1>10

\* Nobody else ends the task.
LEMMA OnlyTaskEnds ==
  ASSUME LifecycleInv, [Next]_vars, NEW t \in Tasks, task[t].op # "none", task'[t].op = "none"
  PROVE  TaskStep(t)
<1>0. TypeOK
  BY DEF LifecycleInv
<1>1. ASSUME task' = [s \in Tasks |-> [task[s] EXCEPT !.alone = FALSE]] PROVE FALSE
  BY <1>0, <1>1, UnmarkedFields
<1>2. ASSUME task' = task PROVE FALSE
  BY <1>2
<1>3. ASSUME NEW s \in Tasks, NEW new, NEW current, Spawn(s, new, current) PROVE FALSE
  <2>1. s # t /\ task'[t] = [task[t] EXCEPT !.alone = FALSE]
    BY <1>3 DEF Spawn
  <2> QED BY <1>0, <2>1, UnmarkedFields
<1>4. CASE OpenEditor \/ Reorder \/ RemovePress \/ Resume \/ \E u \in Units : UserEdit(u)
  BY <1>1, <1>2, <1>4 DEF OpenEditor, Reorder, RemovePress, Resume, UserEdit, Disturb
<1>5. ASSUME NEW s \in Tasks,
             SaveDraft(s) \/ ConfirmImport(s) \/ ConfirmRemove(s) \/ RefreshGuards(s)
               \/ \E on \in BOOLEAN : PopupSwitch(s, on)
      PROVE  FALSE
  BY <1>2, <1>3, <1>5
  DEF SaveDraft, ConfirmImport, ConfirmRemove, RefreshGuards, PopupSwitch, SpawnInstall
<1>6. ASSUME NEW s \in Tasks, TaskStep(s), s # t PROVE FALSE
  <2>1. Shape(s)
    BY <1>0, <1>6, StepShape
  <2>2. task'[t] = task[t]
    BY <1>0, <1>6, <2>1, EndType DEF Shape, GoesOn, Fixed
  <2> QED BY <2>2
<1> QED BY <1>2, <1>4, <1>5, <1>6 DEF Next, vars

\* However the calls of an install fail, and whatever the other tasks that it
\* did not meet have done before, its end is what it reports: the new units run,
\* or the files of before are back (InstallSettled).
THEOREM InstallsSettle == Spec => InstallSettled
<1>1. LifecycleInv /\ [Next]_vars =>
        [\A t \in Tasks :
           task[t].op = "install" /\ task'[t].op = "none" /\ task[t].alone =>
             /\ report' = "ok" =>
                  /\ \A u \in UnitsOf : file'[u] = task[t].new /\ loaded'[u] = task[t].new
                  /\ kind = "offline" => ~enabled'["timer"] /\ ~active'["timer"]
             /\ report' \in {"foreign", "write", "rolledBack"} => file' = task[t].before]_vars
  <2> SUFFICES ASSUME LifecycleInv, [Next]_vars, NEW t \in Tasks, task[t].op = "install",
                      task'[t].op = "none", task[t].alone
               PROVE  Settled(t)
    BY DEF Settled
  <2>1. TaskStep(t) /\ Alone(t)
    BY OnlyTaskEnds DEF Alone
  <2> QED BY <2>1, TaskSettles
<1> QED BY <1>1, LifecycleInvariance, PTL DEF Spec, InstallSettled

================================================================================
