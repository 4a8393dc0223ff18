---------------------- MODULE BisyncCoordinatorProofs ----------------------
(***************************************************************************)
(* Proofs about BisyncCoordinator for every set of callers, every set of   *)
(* bindings and every provider.  IndInv is shown inductive part by part;   *)
(* the safety properties follow from it.                                   *)
(***************************************************************************)
EXTENDS BisyncCoordinator, TLAPS

USE ConstantsAssumption, ProviderAssumption

\* Every step keeps the variables in their types.
LEMMA TypeStep == TypeOK /\ RunTyped /\ [Next]_vars => TypeOK'
<1> SUFFICES ASSUME TypeOK, RunTyped, [Next]_vars PROVE TypeOK'
  OBVIOUS
<1>1. ASSUME NEW r \in Manual, NEW q \in {"PreviewInitialSync", "SyncNow"},
             RequestManual(r, q)
      PROVE  TypeOK'
  BY <1>1
  DEF TypeOK, RunTyped, Runs, Modes, States, Stages, Dirs, WorkDir,
      RequestManual, Free, ManualMode, Go, At, vars, files, saved, local,
      fault, unlocked, history
<1>2. ASSUME NEW r \in Scheduled, StartWorker(r) PROVE TypeOK'
  BY <1>2
  DEF TypeOK, RunTyped, Runs, Modes, States, Stages, Dirs, WorkDir,
      StartWorker, Free, Go, At, vars, files, saved, local, fault, unlocked,
      history
<1>3. ASSUME NEW r \in Runs, Progress(r) PROVE TypeOK'
  <2>1. CASE LoadSaved(r)
    BY <2>1
    DEF TypeOK, RunTyped, Runs, Modes, States, Stages, Dirs, WorkDir,
        LoadSaved, Go, At, vars, files, saved, local, fault, unlocked, history
  <2>2. CASE Acquire(r)
    BY <2>2
    DEF TypeOK, RunTyped, Runs, Modes, States, Stages, Dirs, WorkDir, Acquire,
        Go, At, vars, files, saved, local, fault, unlocked, history
  <2>3. CASE Guard(r)
    BY <2>3
    DEF TypeOK, RunTyped, Runs, Modes, States, Stages, Dirs, WorkDir, Guard,
        Go, At, vars, files, saved, local, fault, unlocked, history
  <2>4. CASE CheckState(r)
    BY <2>4
    DEF TypeOK, RunTyped, Runs, Modes, States, Stages, Dirs, WorkDir,
        CheckState, Go, At, vars, files, saved, local, fault, unlocked,
        history
  <2>5. CASE PublishRunning(r)
    BY <2>5
    DEF TypeOK, RunTyped, Runs, Modes, States, Stages, Dirs, WorkDir,
        PublishRunning, Go, At, vars, files, saved, local, fault, unlocked,
        history
  <2>6. CASE EarlyReturn(r)
    BY <2>6
    DEF TypeOK, RunTyped, Runs, Modes, States, Stages, Dirs, WorkDir,
        EarlyReturn, Drop, Forget, vars, files, saved, local, fault, unlocked,
        history
  <2>7. CASE PrepareAccess(r)
    BY <2>7
    DEF TypeOK, RunTyped, Runs, Modes, States, Stages, Dirs, WorkDir,
        PrepareAccess, Go, At, vars, files, saved, local, fault, unlocked,
        history
  <2>8. CASE RunBisync(r)
    BY <2>8
    DEF TypeOK, RunTyped, Runs, Modes, States, Stages, Dirs, WorkDir,
        RunBisync, Go, At, AfterEngine, IsInitial, vars, files, saved, local,
        fault, unlocked, history
  <2>9. CASE Verify(r)
    BY <2>9
    DEF TypeOK, RunTyped, Runs, Modes, States, Stages, Dirs, WorkDir, Verify,
        Go, At, AfterEngine, IsInitial, vars, files, saved, local, fault,
        unlocked, history
  <2>10. CASE WriteMarker(r)
    BY <2>10
    DEF TypeOK, RunTyped, Runs, Modes, States, Stages, Dirs, WorkDir,
        WriteMarker, Go, At, vars, files, saved, local, fault, unlocked,
        history
  <2>11. CASE RemovePreviewMarker(r)
    BY <2>11
    DEF TypeOK, RunTyped, Runs, Modes, States, Stages, Dirs, WorkDir,
        RemovePreviewMarker, Go, At, vars, files, saved, local, fault,
        unlocked, history
  <2>12. CASE FailTransaction(r)
    BY <2>12
    DEF TypeOK, RunTyped, Runs, Modes, States, Stages, Dirs, WorkDir,
        FailTransaction, Go, Open, vars, files, saved, local, fault, unlocked,
        history
  <2>13. CASE PublishResult(r)
    BY <2>13
    DEF TypeOK, RunTyped, Runs, Modes, States, Stages, Dirs, WorkDir,
        PublishResult, Go, At, FinalState, vars, files, saved, local, fault,
        unlocked, history
  <2>14. CASE ResultNotWritten(r)
    BY <2>14
    DEF TypeOK, RunTyped, Runs, Modes, States, Stages, Dirs, WorkDir,
        ResultNotWritten, Go, At, vars, files, saved, local, fault, unlocked,
        history
  <2>15. CASE Release(r)
    BY <2>15
    DEF TypeOK, RunTyped, Runs, Modes, States, Stages, Dirs, WorkDir, Release,
        Drop, Forget, At, vars, files, saved, local, fault, unlocked, history
  <2> QED
    BY <1>3, <2>1, <2>2, <2>3, <2>4, <2>5, <2>6, <2>7, <2>8, <2>9, <2>10,
        <2>11, <2>12, <2>13, <2>14, <2>15
    DEF Progress
<1>4. ASSUME NEW r \in Manual, Cancel(r) PROVE TypeOK'
  BY <1>4
  DEF TypeOK, RunTyped, Runs, Modes, States, Stages, Dirs, WorkDir, Cancel,
      At, vars, files, saved, local, fault, unlocked, history
<1>5. ASSUME NEW dead \in SUBSET Runs, NEW left \in SUBSET others,
             Kill(dead, left)
      PROVE  TypeOK'
  <2>1. lock' \in Runs \cup {NoRun}
    BY <1>5 DEF TypeOK, Kill, Drop
  <2>2. /\ stage' \in [Runs -> Stages]
        /\ mode' \in [Runs -> Modes \cup {"None"}]
        /\ tgt' \in [Runs -> Targets \cup {NoTarget}]
    BY <1>5 DEF TypeOK, Kill, Forget, Stages
  <2>3. ok' \in [Runs -> BOOLEAN] /\ cancelled' \in [Runs -> BOOLEAN]
    BY <1>5 DEF TypeOK, Kill, Forget
  <2>4. orphans' \subseteq Runs /\ faults' \in 0 .. MaxFaults
    BY <1>5 DEF TypeOK, Kill
  <2> QED
    BY <1>5, <2>1, <2>2, <2>3, <2>4 DEF TypeOK, Kill, saved, unlocked, history
<1>6. ASSUME NEW r \in Runs, OrphanExit(r) PROVE TypeOK'
  BY <1>6
  DEF TypeOK, RunTyped, Runs, Modes, States, Stages, Dirs, WorkDir,
      OrphanExit, vars, files, saved, local, fault, unlocked, history
<1>7. ASSUME NEW t \in Targets, Save(t) PROVE TypeOK'
  BY <1>7
  DEF TypeOK, RunTyped, Runs, Modes, States, Stages, Dirs, WorkDir, Save,
      Invalidated, vars, files, saved, local, fault, unlocked, history
<1>8. CASE Disable
  BY <1>8
  DEF TypeOK, RunTyped, Runs, Modes, States, Stages, Dirs, WorkDir, Disable,
      vars, files, saved, local, fault, unlocked, history
<1>11. CASE Others
  <2>1. CASE TrackedBegin
    <3>1. "Tracked" \in Unlocked /\ "Running" \in States
      BY <2>1 DEF TrackedBegin, States
    <3>2. others' \subseteq Unlocked
      BY <2>1, <3>1 DEF TrackedBegin, TypeOK
    <3>3. /\ coord' \in [op : Modes \cup Unlocked \cup {"None"}, st : States]
          /\ uncovered' \subseteq Runs /\ lost' \in BOOLEAN
      <4>1. CASE Overwrite("Tracked", "Running")
        BY <4>1, <3>1 DEF TypeOK, Overwrite
      <4>2. CASE UNCHANGED <<files, saved, local, fault, uncovered, lost, history>>
        BY <4>2 DEF TypeOK, files
      <4> QED BY <2>1, <4>1, <4>2 DEF TrackedBegin
    <3>4. UNCHANGED <<lock, previewMarker, syncMarker, saved, local, fault, history>>
      BY <2>1 DEF TrackedBegin, Overwrite, files
    <3> QED
      BY <3>2, <3>3, <3>4 DEF TypeOK, saved, local, fault, history
  <2>2. CASE TrackedEnd
    <3>1. "Tracked" \in Unlocked
      BY <2>2 DEF TrackedEnd, TypeOK
    <3>2. {"Succeeded", "Failed", "Cancelled"} \subseteq States
      BY DEF States
    <3>3. PICK st \in States : Overwrite("Tracked", st)
      BY <2>2, <3>2 DEF TrackedEnd
    <3>4. others' \subseteq Unlocked
      BY <2>2 DEF TrackedEnd, TypeOK
    <3> QED
      BY <3>1, <3>3, <3>4
      DEF TypeOK, Overwrite, saved, local, fault, history
  <2>3. CASE RepairClaim
    BY <2>3
    DEF TypeOK, RunTyped, Runs, Modes, States, Stages, Dirs, WorkDir,
        RepairClaim, Overwrite, vars, files, saved, local, fault, unlocked,
        history
  <2>4. CASE RepairResult
    BY <2>4
    DEF TypeOK, RunTyped, Runs, Modes, States, Stages, Dirs, WorkDir,
        RepairResult, Overwrite, vars, files, saved, local, fault, unlocked,
        history
  <2>5. ASSUME NEW o \in Unlocked, OtherUnwritten(o) PROVE TypeOK'
    BY <2>5
    DEF TypeOK, RunTyped, Runs, Modes, States, Stages, Dirs, WorkDir,
        OtherUnwritten, vars, files, saved, local, fault, unlocked, history
  <2> QED BY <1>11, <2>1, <2>2, <2>3, <2>4, <2>5 DEF Others
<1>9. CASE UNCHANGED vars
  BY <1>9
  DEF TypeOK, RunTyped, Runs, Modes, States, Stages, Dirs, WorkDir, vars,
      files, saved, local, fault, unlocked, history
<1>10. /\ Manual \in SUBSET Runs /\ \A r \in Scheduled : {r} \in SUBSET Runs
       /\ {} \in SUBSET others /\ others \in SUBSET others
  BY DEF Runs
<1> QED
  BY <1>1, <1>2, <1>3, <1>4, <1>5, <1>6, <1>7, <1>8, <1>9, <1>10, <1>11
  DEF Next, Start, Environment, AppletDies, WorkerDies

\* A run keeps its mode and its binding until it returns.
LEMMA RunTypedStep == TypeOK /\ RunTyped /\ [Next]_vars => RunTyped'
<1> SUFFICES ASSUME TypeOK, RunTyped, [Next]_vars PROVE RunTyped'
  OBVIOUS
<1>1. ASSUME NEW r \in Manual, NEW q \in {"PreviewInitialSync", "SyncNow"},
             RequestManual(r, q)
      PROVE  RunTyped'
  BY <1>1
  DEF TypeOK, RunTyped, Runs, Modes, Stages, RequestManual, Free, ManualMode,
      Go, At, vars, files, saved, local, fault, unlocked, history
<1>2. ASSUME NEW r \in Scheduled, StartWorker(r) PROVE RunTyped'
  BY <1>2
  DEF TypeOK, RunTyped, Runs, Modes, Stages, StartWorker, Free, Go, At, vars,
      files, saved, local, fault, unlocked, history
<1>3. ASSUME NEW r \in Runs, Progress(r) PROVE RunTyped'
  <2>1. CASE LoadSaved(r)
    BY <2>1
    DEF TypeOK, RunTyped, Runs, Modes, Stages, LoadSaved, Go, At, vars, files,
        saved, local, fault, unlocked, history
  <2>2. CASE Acquire(r)
    BY <2>2
    DEF TypeOK, RunTyped, Runs, Modes, Stages, Acquire, Go, At, vars, files,
        saved, local, fault, unlocked, history
  <2>3. CASE Guard(r)
    BY <2>3
    DEF TypeOK, RunTyped, Runs, Modes, Stages, Guard, Go, At, vars, files,
        saved, local, fault, unlocked, history
  <2>4. CASE CheckState(r)
    BY <2>4
    DEF TypeOK, RunTyped, Runs, Modes, Stages, CheckState, Go, At, vars,
        files, saved, local, fault, unlocked, history
  <2>5. CASE PublishRunning(r)
    BY <2>5
    DEF TypeOK, RunTyped, Runs, Modes, Stages, PublishRunning, Go, At, vars,
        files, saved, local, fault, unlocked, history
  <2>6. CASE EarlyReturn(r)
    BY <2>6
    DEF TypeOK, RunTyped, Runs, Modes, Stages, EarlyReturn, Drop, Forget,
        vars, files, saved, local, fault, unlocked, history
  <2>7. CASE PrepareAccess(r)
    BY <2>7
    DEF TypeOK, RunTyped, Runs, Modes, Stages, PrepareAccess, Go, At, vars,
        files, saved, local, fault, unlocked, history
  <2>8. CASE RunBisync(r)
    BY <2>8
    DEF TypeOK, RunTyped, Runs, Modes, Stages, RunBisync, Go, At, AfterEngine,
        IsInitial, vars, files, saved, local, fault, unlocked, history
  <2>9. CASE Verify(r)
    BY <2>9
    DEF TypeOK, RunTyped, Runs, Modes, Stages, Verify, Go, At, AfterEngine,
        IsInitial, vars, files, saved, local, fault, unlocked, history
  <2>10. CASE WriteMarker(r)
    BY <2>10
    DEF TypeOK, RunTyped, Runs, Modes, Stages, WriteMarker, Go, At, vars,
        files, saved, local, fault, unlocked, history
  <2>11. CASE RemovePreviewMarker(r)
    BY <2>11
    DEF TypeOK, RunTyped, Runs, Modes, Stages, RemovePreviewMarker, Go, At,
        vars, files, saved, local, fault, unlocked, history
  <2>12. CASE FailTransaction(r)
    BY <2>12
    DEF TypeOK, RunTyped, Runs, Modes, Stages, FailTransaction, Go, Open,
        vars, files, saved, local, fault, unlocked, history
  <2>13. CASE PublishResult(r)
    BY <2>13
    DEF TypeOK, RunTyped, Runs, Modes, Stages, PublishResult, Go, At,
        FinalState, vars, files, saved, local, fault, unlocked, history
  <2>14. CASE ResultNotWritten(r)
    BY <2>14
    DEF TypeOK, RunTyped, Runs, Modes, Stages, ResultNotWritten, Go, At, vars,
        files, saved, local, fault, unlocked, history
  <2>15. CASE Release(r)
    BY <2>15
    DEF TypeOK, RunTyped, Runs, Modes, Stages, Release, Drop, Forget, At,
        vars, files, saved, local, fault, unlocked, history
  <2> QED
    BY <1>3, <2>1, <2>2, <2>3, <2>4, <2>5, <2>6, <2>7, <2>8, <2>9, <2>10,
        <2>11, <2>12, <2>13, <2>14, <2>15
    DEF Progress
<1>4. ASSUME NEW r \in Manual, Cancel(r) PROVE RunTyped'
  BY <1>4
  DEF TypeOK, RunTyped, Runs, Modes, Stages, Cancel, At, vars, files, saved,
      local, fault, unlocked, history
<1>5. ASSUME NEW dead \in SUBSET Runs, NEW left \in SUBSET others,
             Kill(dead, left)
      PROVE  RunTyped'
  BY <1>5
  DEF TypeOK, RunTyped, Runs, Modes, Stages, Kill, Drop, Forget, At, vars,
      files, saved, local, fault, unlocked, history
<1>6. ASSUME NEW r \in Runs, OrphanExit(r) PROVE RunTyped'
  BY <1>6
  DEF TypeOK, RunTyped, Runs, Modes, Stages, OrphanExit, vars, files, saved,
      local, fault, unlocked, history
<1>7. ASSUME NEW t \in Targets, Save(t) PROVE RunTyped'
  BY <1>7
  DEF TypeOK, RunTyped, Runs, Modes, Stages, Save, Invalidated, vars, files,
      saved, local, fault, unlocked, history
<1>8. CASE Disable
  BY <1>8
  DEF TypeOK, RunTyped, Runs, Modes, Stages, Disable, vars, files, saved,
      local, fault, unlocked, history
<1>11. CASE Others
  <2>1. CASE TrackedBegin
    BY <2>1
    DEF TypeOK, RunTyped, Runs, Modes, Stages, TrackedBegin, Overwrite, vars,
        files, saved, local, fault, unlocked, history
  <2>2. CASE TrackedEnd
    BY <2>2
    DEF TypeOK, RunTyped, Runs, Modes, Stages, TrackedEnd, Overwrite, vars,
        files, saved, local, fault, unlocked, history
  <2>3. CASE RepairClaim
    BY <2>3
    DEF TypeOK, RunTyped, Runs, Modes, Stages, RepairClaim, Overwrite, vars,
        files, saved, local, fault, unlocked, history
  <2>4. CASE RepairResult
    BY <2>4
    DEF TypeOK, RunTyped, Runs, Modes, Stages, RepairResult, Overwrite, vars,
        files, saved, local, fault, unlocked, history
  <2>5. ASSUME NEW o \in Unlocked, OtherUnwritten(o) PROVE RunTyped'
    BY <2>5
    DEF TypeOK, RunTyped, Runs, Modes, Stages, OtherUnwritten, vars, files,
        saved, local, fault, unlocked, history
  <2> QED BY <1>11, <2>1, <2>2, <2>3, <2>4, <2>5 DEF Others
<1>9. CASE UNCHANGED vars
  BY <1>9
  DEF TypeOK, RunTyped, Runs, Modes, Stages, vars, files, saved, local, fault,
      unlocked, history
<1>10. /\ Manual \in SUBSET Runs /\ \A r \in Scheduled : {r} \in SUBSET Runs
       /\ {} \in SUBSET others /\ others \in SUBSET others
  BY DEF Runs
<1> QED
  BY <1>1, <1>2, <1>3, <1>4, <1>5, <1>6, <1>7, <1>8, <1>9, <1>10, <1>11
  DEF Next, Start, Environment, AppletDies, WorkerDies

\* The lock follows its holder through acquisition, drop and death.
LEMMA LockStep == TypeOK /\ LockInv /\ [Next]_vars => LockInv'
<1> SUFFICES ASSUME TypeOK, LockInv, [Next]_vars PROVE LockInv'
  OBVIOUS
<1>1. ASSUME NEW r \in Manual, NEW q \in {"PreviewInitialSync", "SyncNow"},
             RequestManual(r, q)
      PROVE  LockInv'
  BY <1>1
  DEF TypeOK, LockInv, Locked, Runs, Stages, RequestManual, Free, ManualMode,
      Go, At, vars, files, saved, local, fault, unlocked, history
<1>2. ASSUME NEW r \in Scheduled, StartWorker(r) PROVE LockInv'
  BY <1>2
  DEF TypeOK, LockInv, Locked, Runs, Stages, StartWorker, Free, Go, At, vars,
      files, saved, local, fault, unlocked, history
<1>3. ASSUME NEW r \in Runs, Progress(r) PROVE LockInv'
  <2>1. CASE LoadSaved(r)
    BY <2>1
    DEF TypeOK, LockInv, Locked, Runs, Stages, LoadSaved, Go, At, vars, files,
        saved, local, fault, unlocked, history
  <2>2. CASE Acquire(r)
    BY <2>2
    DEF TypeOK, LockInv, Locked, Runs, Stages, Acquire, Go, At, vars, files,
        saved, local, fault, unlocked, history
  <2>3. CASE Guard(r)
    BY <2>3
    DEF TypeOK, LockInv, Locked, Runs, Stages, Guard, Go, At, vars, files,
        saved, local, fault, unlocked, history
  <2>4. CASE CheckState(r)
    BY <2>4
    DEF TypeOK, LockInv, Locked, Runs, Stages, CheckState, Go, At, vars,
        files, saved, local, fault, unlocked, history
  <2>5. CASE PublishRunning(r)
    BY <2>5
    DEF TypeOK, LockInv, Locked, Runs, Stages, PublishRunning, Go, At, vars,
        files, saved, local, fault, unlocked, history
  <2>6. CASE EarlyReturn(r)
    BY <2>6
    DEF TypeOK, LockInv, Locked, Runs, Stages, EarlyReturn, Drop, Forget,
        vars, files, saved, local, fault, unlocked, history
  <2>7. CASE PrepareAccess(r)
    BY <2>7
    DEF TypeOK, LockInv, Locked, Runs, Stages, PrepareAccess, Go, At, vars,
        files, saved, local, fault, unlocked, history
  <2>8. CASE RunBisync(r)
    BY <2>8
    DEF TypeOK, LockInv, Locked, Runs, Stages, RunBisync, Go, At, AfterEngine,
        IsInitial, vars, files, saved, local, fault, unlocked, history
  <2>9. CASE Verify(r)
    BY <2>9
    DEF TypeOK, LockInv, Locked, Runs, Stages, Verify, Go, At, AfterEngine,
        IsInitial, vars, files, saved, local, fault, unlocked, history
  <2>10. CASE WriteMarker(r)
    BY <2>10
    DEF TypeOK, LockInv, Locked, Runs, Stages, WriteMarker, Go, At, vars,
        files, saved, local, fault, unlocked, history
  <2>11. CASE RemovePreviewMarker(r)
    BY <2>11
    DEF TypeOK, LockInv, Locked, Runs, Stages, RemovePreviewMarker, Go, At,
        vars, files, saved, local, fault, unlocked, history
  <2>12. CASE FailTransaction(r)
    BY <2>12
    DEF TypeOK, LockInv, Locked, Runs, Stages, FailTransaction, Go, Open,
        vars, files, saved, local, fault, unlocked, history
  <2>13. CASE PublishResult(r)
    BY <2>13
    DEF TypeOK, LockInv, Locked, Runs, Stages, PublishResult, Go, At,
        FinalState, vars, files, saved, local, fault, unlocked, history
  <2>14. CASE ResultNotWritten(r)
    BY <2>14
    DEF TypeOK, LockInv, Locked, Runs, Stages, ResultNotWritten, Go, At, vars,
        files, saved, local, fault, unlocked, history
  <2>15. CASE Release(r)
    BY <2>15
    DEF TypeOK, LockInv, Locked, Runs, Stages, Release, Drop, Forget, At,
        vars, files, saved, local, fault, unlocked, history
  <2> QED
    BY <1>3, <2>1, <2>2, <2>3, <2>4, <2>5, <2>6, <2>7, <2>8, <2>9, <2>10,
        <2>11, <2>12, <2>13, <2>14, <2>15
    DEF Progress
<1>4. ASSUME NEW r \in Manual, Cancel(r) PROVE LockInv'
  BY <1>4
  DEF TypeOK, LockInv, Locked, Runs, Stages, Cancel, At, vars, files, saved,
      local, fault, unlocked, history
<1>5. ASSUME NEW dead \in SUBSET Runs, NEW left \in SUBSET others,
             Kill(dead, left)
      PROVE  LockInv'
  BY <1>5
  DEF TypeOK, LockInv, Locked, Runs, Stages, Kill, Drop, Forget, At, vars,
      files, saved, local, fault, unlocked, history
<1>6. ASSUME NEW r \in Runs, OrphanExit(r) PROVE LockInv'
  BY <1>6
  DEF TypeOK, LockInv, Locked, Runs, Stages, OrphanExit, vars, files, saved,
      local, fault, unlocked, history
<1>7. ASSUME NEW t \in Targets, Save(t) PROVE LockInv'
  BY <1>7
  DEF TypeOK, LockInv, Locked, Runs, Stages, Save, Invalidated, vars, files,
      saved, local, fault, unlocked, history
<1>8. CASE Disable
  BY <1>8
  DEF TypeOK, LockInv, Locked, Runs, Stages, Disable, vars, files, saved,
      local, fault, unlocked, history
<1>11. CASE Others
  <2>1. CASE TrackedBegin
    BY <2>1
    DEF TypeOK, LockInv, Locked, Runs, Stages, TrackedBegin, Overwrite, vars,
        files, saved, local, fault, unlocked, history
  <2>2. CASE TrackedEnd
    BY <2>2
    DEF TypeOK, LockInv, Locked, Runs, Stages, TrackedEnd, Overwrite, vars,
        files, saved, local, fault, unlocked, history
  <2>3. CASE RepairClaim
    BY <2>3
    DEF TypeOK, LockInv, Locked, Runs, Stages, RepairClaim, Overwrite, vars,
        files, saved, local, fault, unlocked, history
  <2>4. CASE RepairResult
    BY <2>4
    DEF TypeOK, LockInv, Locked, Runs, Stages, RepairResult, Overwrite, vars,
        files, saved, local, fault, unlocked, history
  <2>5. ASSUME NEW o \in Unlocked, OtherUnwritten(o) PROVE LockInv'
    BY <2>5
    DEF TypeOK, LockInv, Locked, Runs, Stages, OtherUnwritten, vars, files,
        saved, local, fault, unlocked, history
  <2> QED BY <1>11, <2>1, <2>2, <2>3, <2>4, <2>5 DEF Others
<1>9. CASE UNCHANGED vars
  BY <1>9
  DEF TypeOK, LockInv, Locked, Runs, Stages, vars, files, saved, local, fault,
      unlocked, history
<1>10. /\ Manual \in SUBSET Runs /\ \A r \in Scheduled : {r} \in SUBSET Runs
       /\ {} \in SUBSET others /\ others \in SUBSET others
  BY DEF Runs
<1> QED
  BY <1>1, <1>2, <1>3, <1>4, <1>5, <1>6, <1>7, <1>8, <1>9, <1>10, <1>11
  DEF Next, Start, Environment, AppletDies, WorkerDies

\* A slot with an orphan stays out of use until its engine is gone.
LEMMA SlotStep == TypeOK /\ SlotInv /\ [Next]_vars => SlotInv'
<1> SUFFICES ASSUME TypeOK, SlotInv, [Next]_vars PROVE SlotInv'
  OBVIOUS
<1>1. ASSUME NEW r \in Manual, NEW q \in {"PreviewInitialSync", "SyncNow"},
             RequestManual(r, q)
      PROVE  SlotInv'
  BY <1>1
  DEF TypeOK, SlotInv, Open, Engine, Runs, Stages, RequestManual, Free,
      ManualMode, Go, At, vars, files, saved, local, fault, unlocked, history
<1>2. ASSUME NEW r \in Scheduled, StartWorker(r) PROVE SlotInv'
  BY <1>2
  DEF TypeOK, SlotInv, Open, Engine, Runs, Stages, StartWorker, Free, Go, At,
      vars, files, saved, local, fault, unlocked, history
<1>3. ASSUME NEW r \in Runs, Progress(r) PROVE SlotInv'
  <2>1. CASE LoadSaved(r)
    BY <2>1
    DEF TypeOK, SlotInv, Open, Engine, Runs, Stages, LoadSaved, Go, At, vars,
        files, saved, local, fault, unlocked, history
  <2>2. CASE Acquire(r)
    BY <2>2
    DEF TypeOK, SlotInv, Open, Engine, Runs, Stages, Acquire, Go, At, vars,
        files, saved, local, fault, unlocked, history
  <2>3. CASE Guard(r)
    BY <2>3
    DEF TypeOK, SlotInv, Open, Engine, Runs, Stages, Guard, Go, At, vars,
        files, saved, local, fault, unlocked, history
  <2>4. CASE CheckState(r)
    BY <2>4
    DEF TypeOK, SlotInv, Open, Engine, Runs, Stages, CheckState, Go, At, vars,
        files, saved, local, fault, unlocked, history
  <2>5. CASE PublishRunning(r)
    BY <2>5
    DEF TypeOK, SlotInv, Open, Engine, Runs, Stages, PublishRunning, Go, At,
        vars, files, saved, local, fault, unlocked, history
  <2>6. CASE EarlyReturn(r)
    BY <2>6
    DEF TypeOK, SlotInv, Open, Engine, Runs, Stages, EarlyReturn, Drop,
        Forget, At, vars, files, saved, local, fault, unlocked, history
  <2>7. CASE PrepareAccess(r)
    BY <2>7
    DEF TypeOK, SlotInv, Open, Engine, Runs, Stages, PrepareAccess, Go, At,
        vars, files, saved, local, fault, unlocked, history
  <2>8. CASE RunBisync(r)
    BY <2>8
    DEF TypeOK, SlotInv, Open, Engine, Runs, Stages, RunBisync, Go, At,
        AfterEngine, IsInitial, vars, files, saved, local, fault, unlocked,
        history
  <2>9. CASE Verify(r)
    BY <2>9
    DEF TypeOK, SlotInv, Open, Engine, Runs, Stages, Verify, Go, At,
        AfterEngine, IsInitial, vars, files, saved, local, fault, unlocked,
        history
  <2>10. CASE WriteMarker(r)
    BY <2>10
    DEF TypeOK, SlotInv, Open, Engine, Runs, Stages, WriteMarker, Go, At,
        vars, files, saved, local, fault, unlocked, history
  <2>11. CASE RemovePreviewMarker(r)
    BY <2>11
    DEF TypeOK, SlotInv, Open, Engine, Runs, Stages, RemovePreviewMarker, Go,
        At, vars, files, saved, local, fault, unlocked, history
  <2>12. CASE FailTransaction(r)
    BY <2>12
    DEF TypeOK, SlotInv, Open, Engine, Runs, Stages, FailTransaction, Go,
        Open, At, vars, files, saved, local, fault, unlocked, history
  <2>13. CASE PublishResult(r)
    BY <2>13
    DEF TypeOK, SlotInv, Open, Engine, Runs, Stages, PublishResult, Go, At,
        FinalState, vars, files, saved, local, fault, unlocked, history
  <2>14. CASE ResultNotWritten(r)
    BY <2>14
    DEF TypeOK, SlotInv, Open, Engine, Runs, Stages, ResultNotWritten, Go, At,
        vars, files, saved, local, fault, unlocked, history
  <2>15. CASE Release(r)
    BY <2>15
    DEF TypeOK, SlotInv, Open, Engine, Runs, Stages, Release, Drop, Forget,
        At, vars, files, saved, local, fault, unlocked, history
  <2> QED
    BY <1>3, <2>1, <2>2, <2>3, <2>4, <2>5, <2>6, <2>7, <2>8, <2>9, <2>10,
        <2>11, <2>12, <2>13, <2>14, <2>15
    DEF Progress
<1>4. ASSUME NEW r \in Manual, Cancel(r) PROVE SlotInv'
  BY <1>4
  DEF TypeOK, SlotInv, Open, Engine, Runs, Stages, Cancel, At, vars, files,
      saved, local, fault, unlocked, history
<1>5. ASSUME NEW dead \in SUBSET Runs, NEW left \in SUBSET others,
             Kill(dead, left)
      PROVE  SlotInv'
  BY <1>5
  DEF TypeOK, SlotInv, Open, Engine, Runs, Stages, Kill, Drop, Forget, At,
      vars, files, saved, local, fault, unlocked, history
<1>6. ASSUME NEW r \in Runs, OrphanExit(r) PROVE SlotInv'
  BY <1>6
  DEF TypeOK, SlotInv, Open, Engine, Runs, Stages, OrphanExit, At, vars,
      files, saved, local, fault, unlocked, history
<1>7. ASSUME NEW t \in Targets, Save(t) PROVE SlotInv'
  BY <1>7
  DEF TypeOK, SlotInv, Open, Engine, Runs, Stages, Save, Invalidated, At,
      vars, files, saved, local, fault, unlocked, history
<1>8. CASE Disable
  BY <1>8
  DEF TypeOK, SlotInv, Open, Engine, Runs, Stages, Disable, At, vars, files,
      saved, local, fault, unlocked, history
<1>11. CASE Others
  <2>1. CASE TrackedBegin
    BY <2>1
    DEF TypeOK, SlotInv, Open, Engine, Runs, Stages, TrackedBegin, Overwrite,
        At, vars, files, saved, local, fault, unlocked, history
  <2>2. CASE TrackedEnd
    BY <2>2
    DEF TypeOK, SlotInv, Open, Engine, Runs, Stages, TrackedEnd, Overwrite,
        At, vars, files, saved, local, fault, unlocked, history
  <2>3. CASE RepairClaim
    BY <2>3
    DEF TypeOK, SlotInv, Open, Engine, Runs, Stages, RepairClaim, Overwrite,
        At, vars, files, saved, local, fault, unlocked, history
  <2>4. CASE RepairResult
    BY <2>4
    DEF TypeOK, SlotInv, Open, Engine, Runs, Stages, RepairResult, Overwrite,
        At, vars, files, saved, local, fault, unlocked, history
  <2>5. ASSUME NEW o \in Unlocked, OtherUnwritten(o) PROVE SlotInv'
    BY <2>5
    DEF TypeOK, SlotInv, Open, Engine, Runs, Stages, OtherUnwritten, At, vars,
        files, saved, local, fault, unlocked, history
  <2> QED BY <1>11, <2>1, <2>2, <2>3, <2>4, <2>5 DEF Others
<1>9. CASE UNCHANGED vars
  BY <1>9
  DEF TypeOK, SlotInv, Open, Engine, Runs, Stages, At, vars, files, saved,
      local, fault, unlocked, history
<1>10. /\ Manual \in SUBSET Runs /\ \A r \in Scheduled : {r} \in SUBSET Runs
       /\ {} \in SUBSET others /\ others \in SUBSET others
  BY DEF Runs
<1> QED
  BY <1>1, <1>2, <1>3, <1>4, <1>5, <1>6, <1>7, <1>8, <1>9, <1>10, <1>11
  DEF Next, Start, Environment, AppletDies, WorkerDies

\* Among the runs the state file belongs to the holder of the lock; the writes of
\* the other operations are remembered in uncovered.
LEMMA StateStep ==
  TypeOK /\ LockInv /\ SlotInv /\ StateInv /\ [Next]_vars => StateInv'
<1> SUFFICES ASSUME TypeOK, LockInv, SlotInv, StateInv, [Next]_vars
             PROVE  StateInv'
  OBVIOUS
<1>1. ASSUME NEW r \in Manual, NEW q \in {"PreviewInitialSync", "SyncNow"},
             RequestManual(r, q)
      PROVE  StateInv'
  BY <1>1
  DEF TypeOK, LockInv, StateInv, Locked, Open, Runs, Stages, RequestManual,
      ManualMode, Go, At, vars, files, saved, local, fault, unlocked, history
<1>2. ASSUME NEW r \in Scheduled, StartWorker(r) PROVE StateInv'
  BY <1>2
  DEF TypeOK, LockInv, StateInv, Locked, Open, Runs, Stages, StartWorker,
      Free, Go, At, vars, files, saved, local, fault, unlocked, history
<1>3. ASSUME NEW r \in Runs, Progress(r) PROVE StateInv'
  <2>1. CASE LoadSaved(r)
    BY <2>1
    DEF TypeOK, LockInv, StateInv, Locked, Open, Runs, Stages, LoadSaved, Go,
        At, vars, files, saved, local, fault, unlocked, history
  <2>2. CASE Acquire(r)
    BY <2>2
    DEF TypeOK, LockInv, StateInv, Locked, Open, Runs, Stages, Acquire, Go,
        At, vars, files, saved, local, fault, unlocked, history
  <2>3. CASE Guard(r)
    BY <2>3
    DEF TypeOK, LockInv, StateInv, Locked, Open, Runs, Stages, Guard, Go, At,
        vars, files, saved, local, fault, unlocked, history
  <2>4. CASE CheckState(r)
    BY <2>4
    DEF TypeOK, LockInv, StateInv, Locked, Open, Runs, Stages, CheckState, Go,
        At, vars, files, saved, local, fault, unlocked, history
  <2>5. CASE PublishRunning(r)
    BY <2>5
    DEF TypeOK, LockInv, StateInv, Locked, Open, Runs, Stages, PublishRunning,
        Go, At, vars, files, saved, local, fault, unlocked, history
  <2>6. CASE EarlyReturn(r)
    BY <2>6
    DEF TypeOK, LockInv, StateInv, Locked, Open, Runs, Stages, EarlyReturn,
        Drop, Forget, vars, files, saved, local, fault, unlocked, history
  <2>7. CASE PrepareAccess(r)
    BY <2>7
    DEF TypeOK, LockInv, StateInv, Locked, Open, Runs, Stages, PrepareAccess,
        Go, At, vars, files, saved, local, fault, unlocked, history
  <2>8. CASE RunBisync(r)
    BY <2>8
    DEF TypeOK, LockInv, StateInv, Locked, Open, Runs, Stages, RunBisync, Go,
        At, AfterEngine, IsInitial, vars, files, saved, local, fault,
        unlocked, history
  <2>9. CASE Verify(r)
    BY <2>9
    DEF TypeOK, LockInv, StateInv, Locked, Open, Runs, Stages, Verify, Go, At,
        AfterEngine, IsInitial, vars, files, saved, local, fault, unlocked,
        history
  <2>10. CASE WriteMarker(r)
    BY <2>10
    DEF TypeOK, LockInv, StateInv, Locked, Open, Runs, Stages, WriteMarker,
        Go, At, vars, files, saved, local, fault, unlocked, history
  <2>11. CASE RemovePreviewMarker(r)
    BY <2>11
    DEF TypeOK, LockInv, StateInv, Locked, Open, Runs, Stages,
        RemovePreviewMarker, Go, At, vars, files, saved, local, fault,
        unlocked, history
  <2>12. CASE FailTransaction(r)
    BY <2>12
    DEF TypeOK, LockInv, StateInv, Locked, Open, Runs, Stages,
        FailTransaction, Go, vars, files, saved, local, fault, unlocked,
        history
  <2>13. CASE PublishResult(r)
    BY <2>13
    DEF TypeOK, LockInv, StateInv, Locked, Open, Runs, Stages, PublishResult,
        Go, At, FinalState, vars, files, saved, local, fault, unlocked,
        history
  <2>14. CASE ResultNotWritten(r)
    BY <2>14
    DEF TypeOK, LockInv, StateInv, Locked, Open, Runs, Stages,
        ResultNotWritten, Go, At, vars, files, saved, local, fault, unlocked,
        history
  <2>15. CASE Release(r)
    BY <2>15
    DEF TypeOK, LockInv, StateInv, Locked, Open, Runs, Stages, Release, Drop,
        Forget, At, vars, files, saved, local, fault, unlocked, history
  <2> QED
    BY <1>3, <2>1, <2>2, <2>3, <2>4, <2>5, <2>6, <2>7, <2>8, <2>9, <2>10,
        <2>11, <2>12, <2>13, <2>14, <2>15
    DEF Progress
<1>4. ASSUME NEW r \in Manual, Cancel(r) PROVE StateInv'
  BY <1>4
  DEF TypeOK, LockInv, StateInv, Locked, Open, Runs, Stages, Cancel, At, vars,
      files, saved, local, fault, unlocked, history
<1>5. ASSUME NEW dead \in SUBSET Runs, NEW left \in SUBSET others,
             Kill(dead, left)
      PROVE  StateInv'
  BY <1>5
  DEF TypeOK, LockInv, StateInv, Locked, Open, Runs, Stages, Kill, Drop,
      Forget, At, vars, files, saved, local, fault, unlocked, history
<1>6. ASSUME NEW r \in Runs, OrphanExit(r) PROVE StateInv'
  BY <1>6
  DEF TypeOK, LockInv, StateInv, SlotInv, At, Locked, Open, Runs, Stages,
      OrphanExit, vars, files, saved, local, fault, unlocked, history
<1>7. ASSUME NEW t \in Targets, Save(t) PROVE StateInv'
  BY <1>7
  DEF TypeOK, LockInv, StateInv, Locked, Open, Runs, Stages, Save,
      Invalidated, vars, files, saved, local, fault, unlocked, history
<1>8. CASE Disable
  BY <1>8
  DEF TypeOK, LockInv, StateInv, Locked, Open, Runs, Stages, Disable, vars,
      files, saved, local, fault, unlocked, history
<1>11. CASE Others
  <2>1. CASE TrackedBegin
    BY <2>1
    DEF TypeOK, LockInv, StateInv, Locked, Open, Runs, Stages, TrackedBegin,
        Overwrite, vars, files, saved, local, fault, unlocked, history
  <2>2. CASE TrackedEnd
    BY <2>2
    DEF TypeOK, LockInv, StateInv, Locked, Open, Runs, Stages, TrackedEnd,
        Overwrite, vars, files, saved, local, fault, unlocked, history
  <2>3. CASE RepairClaim
    BY <2>3
    DEF TypeOK, LockInv, StateInv, Locked, Open, Runs, Stages, RepairClaim,
        Overwrite, vars, files, saved, local, fault, unlocked, history
  <2>4. CASE RepairResult
    BY <2>4
    DEF TypeOK, LockInv, StateInv, Locked, Open, Runs, Stages, RepairResult,
        Overwrite, vars, files, saved, local, fault, unlocked, history
  <2>5. ASSUME NEW o \in Unlocked, OtherUnwritten(o) PROVE StateInv'
    BY <2>5
    DEF TypeOK, LockInv, StateInv, Locked, Open, Runs, Stages, OtherUnwritten,
        vars, files, saved, local, fault, unlocked, history
  <2> QED BY <1>11, <2>1, <2>2, <2>3, <2>4, <2>5 DEF Others
<1>9. CASE UNCHANGED vars
  BY <1>9
  DEF TypeOK, LockInv, StateInv, Locked, Open, Runs, Stages, vars, files,
      saved, local, fault, unlocked, history
<1>10. /\ Manual \in SUBSET Runs /\ \A r \in Scheduled : {r} \in SUBSET Runs
       /\ {} \in SUBSET others /\ others \in SUBSET others
  BY DEF Runs
<1> QED
  BY <1>1, <1>2, <1>3, <1>4, <1>5, <1>6, <1>7, <1>8, <1>9, <1>10, <1>11
  DEF Next, Start, Environment, AppletDies, WorkerDies

\* An orphaned engine stays alone while the Running of its dead run stands, as no
\* run passes the check of the state file meanwhile.
LEMMA OrphanStep ==
  TypeOK /\ RunTyped /\ LockInv /\ SlotInv /\ StateInv /\ OrphanInv /\ [Next]_vars
  => OrphanInv'
<1> SUFFICES ASSUME TypeOK, RunTyped, LockInv, SlotInv, StateInv, OrphanInv,
                    [Next]_vars
             PROVE  OrphanInv'
  OBVIOUS
<1>1. ASSUME NEW r \in Manual, NEW q \in {"PreviewInitialSync", "SyncNow"},
             RequestManual(r, q)
      PROVE  OrphanInv'
  BY <1>1
  DEF TypeOK, LockInv, StateInv, OrphanInv, Locked, Open, Engine, Runs,
      Stages, RequestManual, Free, ManualMode, Go, At, vars, files, saved,
      local, fault, unlocked, history
<1>2. ASSUME NEW r \in Scheduled, StartWorker(r) PROVE OrphanInv'
  BY <1>2
  DEF TypeOK, LockInv, StateInv, OrphanInv, Locked, Open, Engine, Runs,
      Stages, StartWorker, Free, Go, At, vars, files, saved, local, fault,
      unlocked, history
<1>3. ASSUME NEW r \in Runs, Progress(r) PROVE OrphanInv'
  <2>1. CASE LoadSaved(r)
    BY <2>1
    DEF TypeOK, LockInv, StateInv, OrphanInv, Locked, Open, Engine, Runs,
        Stages, LoadSaved, Go, At, vars, files, saved, local, fault, unlocked,
        history
  <2>2. CASE Acquire(r)
    BY <2>2
    DEF TypeOK, LockInv, StateInv, OrphanInv, Locked, Open, Engine, Runs,
        Stages, Acquire, Go, At, vars, files, saved, local, fault, unlocked,
        history
  <2>3. CASE Guard(r)
    BY <2>3
    DEF TypeOK, LockInv, StateInv, OrphanInv, Locked, Open, Engine, Runs,
        Stages, Guard, Go, At, vars, files, saved, local, fault, unlocked,
        history
  <2>4. CASE CheckState(r)
    BY <2>4
    DEF TypeOK, LockInv, StateInv, OrphanInv, Locked, Open, Engine, Runs,
        Stages, CheckState, Go, At, vars, files, saved, local, fault,
        unlocked, history
  <2>5. CASE PublishRunning(r)
    BY <2>5
    DEF Modes, TypeOK, LockInv, StateInv, OrphanInv, Locked, Open, Engine,
        Runs, Stages, PublishRunning, Go, At, vars, files, saved, local,
        fault, unlocked, history
  <2>6. CASE EarlyReturn(r)
    BY <2>6
    DEF TypeOK, LockInv, StateInv, OrphanInv, Locked, Open, Engine, Runs,
        Stages, EarlyReturn, Drop, Forget, vars, files, saved, local, fault,
        unlocked, history
  <2>7. CASE PrepareAccess(r)
    BY <2>7
    DEF TypeOK, LockInv, StateInv, OrphanInv, Locked, Open, Engine, Runs,
        Stages, PrepareAccess, Go, At, vars, files, saved, local, fault,
        unlocked, history
  <2>8. CASE RunBisync(r)
    BY <2>8
    DEF TypeOK, LockInv, StateInv, OrphanInv, Locked, Open, Engine, Runs,
        Stages, RunBisync, Go, At, AfterEngine, IsInitial, vars, files, saved,
        local, fault, unlocked, history
  <2>9. CASE Verify(r)
    BY <2>9
    DEF TypeOK, LockInv, StateInv, OrphanInv, Locked, Open, Engine, Runs,
        Stages, Verify, Go, At, AfterEngine, IsInitial, vars, files, saved,
        local, fault, unlocked, history
  <2>10. CASE WriteMarker(r)
    BY <2>10
    DEF TypeOK, LockInv, StateInv, OrphanInv, Locked, Open, Engine, Runs,
        Stages, WriteMarker, Go, At, vars, files, saved, local, fault,
        unlocked, history
  <2>11. CASE RemovePreviewMarker(r)
    BY <2>11
    DEF TypeOK, LockInv, StateInv, OrphanInv, Locked, Open, Engine, Runs,
        Stages, RemovePreviewMarker, Go, At, vars, files, saved, local, fault,
        unlocked, history
  <2>12. CASE FailTransaction(r)
    BY <2>12
    DEF TypeOK, LockInv, StateInv, OrphanInv, Locked, Open, Engine, Runs,
        Stages, FailTransaction, Go, vars, files, saved, local, fault,
        unlocked, history
  <2>13. CASE PublishResult(r)
    BY <2>13
    DEF TypeOK, LockInv, StateInv, OrphanInv, Locked, Open, Engine, Runs,
        Stages, PublishResult, Go, At, FinalState, vars, files, saved, local,
        fault, unlocked, history
  <2>14. CASE ResultNotWritten(r)
    BY <2>14
    DEF TypeOK, LockInv, StateInv, OrphanInv, Locked, Open, Engine, Runs,
        Stages, ResultNotWritten, Go, At, vars, files, saved, local, fault,
        unlocked, history
  <2>15. CASE Release(r)
    <3>1. r \notin orphans /\ uncovered' = uncovered \ {r} /\ UNCHANGED <<orphans, coord>>
      BY <2>15 DEF Release, SlotInv, At, fault
    <3>2. orphans' \ uncovered' = orphans \ uncovered
      BY <3>1
    <3>3. \A s \in Runs : stage'[s] \in Open => stage[s] \in Open
      BY <2>15 DEF Release, Forget, Open
    <3> QED BY <3>1, <3>2, <3>3 DEF OrphanInv
  <2> QED
    BY <1>3, <2>1, <2>2, <2>3, <2>4, <2>5, <2>6, <2>7, <2>8, <2>9, <2>10,
        <2>11, <2>12, <2>13, <2>14, <2>15
    DEF Progress
<1>4. ASSUME NEW r \in Manual, Cancel(r) PROVE OrphanInv'
  BY <1>4
  DEF TypeOK, LockInv, StateInv, OrphanInv, Locked, Open, Engine, Runs,
      Stages, Cancel, At, vars, files, saved, local, fault, unlocked, history
<1>5. ASSUME NEW dead \in SUBSET Runs, NEW left \in SUBSET others,
             Kill(dead, left)
      PROVE  OrphanInv'
  <2>1. coord' = coord /\ \A s \in Runs : stage'[s] \in Open => stage[s] \in Open
    BY <1>5 DEF Kill, Forget, Open
  <2>2. CASE orphans \ uncovered # {}
    <3>1. \A s \in Runs : stage[s] \notin Open
      BY <2>2 DEF OrphanInv
    <3>2. orphans' = orphans
      BY <1>5, <3>1 DEF Kill, Engine, Open
    <3>3. orphans' \ uncovered' = orphans \ uncovered
      BY <1>5, <3>2 DEF Kill
    <3> QED BY <2>1, <3>1, <3>3 DEF OrphanInv
  <2>3. CASE orphans \subseteq uncovered
    <3>1. \A s \in orphans' \ uncovered' :
             s \in dead /\ stage[s] \in Engine /\ s \notin uncovered
      BY <1>5, <2>3 DEF Kill
    <3>2. \A s \in Runs : stage[s] \in Engine => stage[s] \in Open /\ lock = s
      BY DEF LockInv, Engine, Locked, Open
    <3>3. \A r, s \in orphans' \ uncovered' : r = s
      BY <1>5, <3>1, <3>2
    <3>4. ASSUME NEW s \in orphans' \ uncovered'
          PROVE  /\ coord.st = "Running" /\ coord.op \in Modes
                 /\ \A t \in Runs : stage'[t] \notin Open
      <4>1. s \in dead /\ lock = s /\ stage[s] \in Open /\ s \notin uncovered
        BY <1>5, <3>1, <3>2
      <4>2. coord = [op |-> mode[s], st |-> "Running"] /\ mode[s] \in Modes
        BY <1>5, <4>1 DEF StateInv, RunTyped, Open
      <4>3. \A t \in Runs : stage[t] \in Open => t = s
        BY <4>1 DEF LockInv, Locked, Open
      <4>4. stage'[s] = "idle"
        BY <1>5, <4>1 DEF Kill, Forget
      <4> QED BY <2>1, <4>2, <4>3, <4>4 DEF Open
    <3> QED BY <2>1, <3>3, <3>4 DEF OrphanInv
  <2> QED BY <2>2, <2>3
<1>6. ASSUME NEW r \in Runs, OrphanExit(r) PROVE OrphanInv'
  BY <1>6
  DEF TypeOK, LockInv, StateInv, OrphanInv, Locked, Open, Engine, Runs,
      Stages, OrphanExit, vars, files, saved, local, fault, unlocked, history
<1>7. ASSUME NEW t \in Targets, Save(t) PROVE OrphanInv'
  BY <1>7
  DEF TypeOK, LockInv, StateInv, OrphanInv, Locked, Open, Engine, Runs,
      Stages, Save, Invalidated, vars, files, saved, local, fault, unlocked,
      history
<1>8. CASE Disable
  BY <1>8
  DEF TypeOK, LockInv, StateInv, OrphanInv, Locked, Open, Engine, Runs,
      Stages, Disable, vars, files, saved, local, fault, unlocked, history
<1>11. CASE Others
  <2>1. CASE TrackedBegin
    BY <2>1
    DEF TypeOK, LockInv, StateInv, OrphanInv, Locked, Open, Engine, Runs,
        Stages, TrackedBegin, Overwrite, vars, files, saved, local, fault,
        unlocked, history
  <2>2. CASE TrackedEnd
    BY <2>2
    DEF TypeOK, LockInv, StateInv, OrphanInv, Locked, Open, Engine, Runs,
        Stages, TrackedEnd, Overwrite, vars, files, saved, local, fault,
        unlocked, history
  <2>3. CASE RepairClaim
    BY <2>3
    DEF TypeOK, LockInv, StateInv, OrphanInv, Locked, Open, Engine, Runs,
        Stages, RepairClaim, Overwrite, vars, files, saved, local, fault,
        unlocked, history
  <2>4. CASE RepairResult
    BY <2>4
    DEF TypeOK, LockInv, StateInv, OrphanInv, Locked, Open, Engine, Runs,
        Stages, RepairResult, Overwrite, vars, files, saved, local, fault,
        unlocked, history
  <2>5. ASSUME NEW o \in Unlocked, OtherUnwritten(o) PROVE OrphanInv'
    BY <2>5
    DEF TypeOK, LockInv, StateInv, OrphanInv, Locked, Open, Engine, Runs,
        Stages, OtherUnwritten, vars, files, saved, local, fault, unlocked,
        history
  <2> QED BY <1>11, <2>1, <2>2, <2>3, <2>4, <2>5 DEF Others
<1>9. CASE UNCHANGED vars
  BY <1>9
  DEF TypeOK, LockInv, StateInv, OrphanInv, Locked, Open, Engine, Runs,
      Stages, vars, files, saved, local, fault, unlocked, history
<1>10. /\ Manual \in SUBSET Runs /\ \A r \in Scheduled : {r} \in SUBSET Runs
       /\ {} \in SUBSET others /\ others \in SUBSET others
  BY DEF Runs
<1> QED
  BY <1>1, <1>2, <1>3, <1>4, <1>5, <1>6, <1>7, <1>8, <1>9, <1>10, <1>11
  DEF Next, Start, Environment, AppletDies, WorkerDies

\* Only a fault leaves Running behind.
LEMMA StaleStep == TypeOK /\ LockInv /\ StateInv /\ StaleRunningOnlyByFault /\ [Next]_vars => StaleRunningOnlyByFault'
<1> SUFFICES ASSUME TypeOK, LockInv, StateInv, StaleRunningOnlyByFault, [Next]_vars PROVE StaleRunningOnlyByFault'
  OBVIOUS
<1>1. ASSUME NEW r \in Manual, NEW q \in {"PreviewInitialSync", "SyncNow"},
             RequestManual(r, q)
      PROVE  StaleRunningOnlyByFault'
  BY <1>1
  DEF TypeOK, LockInv, StateInv, StaleRunningOnlyByFault, Locked, Open, Runs,
      Stages, RequestManual, Free, ManualMode, Go, At, vars, files, saved,
      local, fault, unlocked, history
<1>2. ASSUME NEW r \in Scheduled, StartWorker(r) PROVE StaleRunningOnlyByFault'
  BY <1>2
  DEF TypeOK, LockInv, StateInv, StaleRunningOnlyByFault, Locked, Open, Runs,
      Stages, StartWorker, Free, Go, At, vars, files, saved, local, fault,
      unlocked, history
<1>3. ASSUME NEW r \in Runs, Progress(r) PROVE StaleRunningOnlyByFault'
  <2>1. CASE LoadSaved(r)
    BY <2>1
    DEF TypeOK, LockInv, StateInv, StaleRunningOnlyByFault, Locked, Open,
        Runs, Stages, LoadSaved, Go, At, vars, files, saved, local, fault,
        unlocked, history
  <2>2. CASE Acquire(r)
    BY <2>2
    DEF TypeOK, LockInv, StateInv, StaleRunningOnlyByFault, Locked, Open,
        Runs, Stages, Acquire, Go, At, vars, files, saved, local, fault,
        unlocked, history
  <2>3. CASE Guard(r)
    BY <2>3
    DEF TypeOK, LockInv, StateInv, StaleRunningOnlyByFault, Locked, Open,
        Runs, Stages, Guard, Go, At, vars, files, saved, local, fault,
        unlocked, history
  <2>4. CASE CheckState(r)
    BY <2>4
    DEF TypeOK, LockInv, StateInv, StaleRunningOnlyByFault, Locked, Open,
        Runs, Stages, CheckState, Go, At, vars, files, saved, local, fault,
        unlocked, history
  <2>5. CASE PublishRunning(r)
    BY <2>5
    DEF TypeOK, LockInv, StateInv, StaleRunningOnlyByFault, Locked, Open,
        Runs, Stages, PublishRunning, Go, At, vars, files, saved, local,
        fault, unlocked, history
  <2>6. CASE EarlyReturn(r)
    BY <2>6
    DEF TypeOK, LockInv, StateInv, StaleRunningOnlyByFault, Locked, Open,
        Runs, Stages, EarlyReturn, Drop, Forget, vars, files, saved, local,
        fault, unlocked, history
  <2>7. CASE PrepareAccess(r)
    BY <2>7
    DEF TypeOK, LockInv, StateInv, StaleRunningOnlyByFault, Locked, Open,
        Runs, Stages, PrepareAccess, Go, At, vars, files, saved, local, fault,
        unlocked, history
  <2>8. CASE RunBisync(r)
    BY <2>8
    DEF TypeOK, LockInv, StateInv, StaleRunningOnlyByFault, Locked, Open,
        Runs, Stages, RunBisync, Go, At, AfterEngine, IsInitial, vars, files,
        saved, local, fault, unlocked, history
  <2>9. CASE Verify(r)
    BY <2>9
    DEF TypeOK, LockInv, StateInv, StaleRunningOnlyByFault, Locked, Open,
        Runs, Stages, Verify, Go, At, AfterEngine, IsInitial, vars, files,
        saved, local, fault, unlocked, history
  <2>10. CASE WriteMarker(r)
    BY <2>10
    DEF TypeOK, LockInv, StateInv, StaleRunningOnlyByFault, Locked, Open,
        Runs, Stages, WriteMarker, Go, At, vars, files, saved, local, fault,
        unlocked, history
  <2>11. CASE RemovePreviewMarker(r)
    BY <2>11
    DEF TypeOK, LockInv, StateInv, StaleRunningOnlyByFault, Locked, Open,
        Runs, Stages, RemovePreviewMarker, Go, At, vars, files, saved, local,
        fault, unlocked, history
  <2>12. CASE FailTransaction(r)
    BY <2>12
    DEF TypeOK, LockInv, StateInv, StaleRunningOnlyByFault, Locked, Open,
        Runs, Stages, FailTransaction, Go, vars, files, saved, local, fault,
        unlocked, history
  <2>13. CASE PublishResult(r)
    BY <2>13
    DEF TypeOK, LockInv, StateInv, StaleRunningOnlyByFault, Locked, Open,
        Runs, Stages, PublishResult, Go, At, FinalState, vars, files, saved,
        local, fault, unlocked, history
  <2>14. CASE ResultNotWritten(r)
    BY <2>14
    DEF TypeOK, LockInv, StateInv, StaleRunningOnlyByFault, Locked, Open,
        Runs, Stages, ResultNotWritten, Go, At, vars, files, saved, local,
        fault, unlocked, history
  <2>15. CASE Release(r)
    BY <2>15
    DEF TypeOK, LockInv, StateInv, StaleRunningOnlyByFault, Locked, Open,
        Runs, Stages, Release, Drop, Forget, At, vars, files, saved, local,
        fault, unlocked, history
  <2> QED
    BY <1>3, <2>1, <2>2, <2>3, <2>4, <2>5, <2>6, <2>7, <2>8, <2>9, <2>10,
        <2>11, <2>12, <2>13, <2>14, <2>15
    DEF Progress
<1>4. ASSUME NEW r \in Manual, Cancel(r) PROVE StaleRunningOnlyByFault'
  BY <1>4
  DEF TypeOK, LockInv, StateInv, StaleRunningOnlyByFault, Locked, Open, Runs,
      Stages, Cancel, At, vars, files, saved, local, fault, unlocked, history
<1>5. ASSUME NEW dead \in SUBSET Runs, NEW left \in SUBSET others,
             Kill(dead, left)
      PROVE  StaleRunningOnlyByFault'
  BY <1>5
  DEF TypeOK, LockInv, StateInv, StaleRunningOnlyByFault, Locked, Open, Runs,
      Stages, Kill, Drop, Forget, At, vars, files, saved, local, fault,
      unlocked, history
<1>6. ASSUME NEW r \in Runs, OrphanExit(r) PROVE StaleRunningOnlyByFault'
  BY <1>6
  DEF TypeOK, LockInv, StateInv, StaleRunningOnlyByFault, Locked, Open, Runs,
      Stages, OrphanExit, vars, files, saved, local, fault, unlocked, history
<1>7. ASSUME NEW t \in Targets, Save(t) PROVE StaleRunningOnlyByFault'
  BY <1>7
  DEF TypeOK, LockInv, StateInv, StaleRunningOnlyByFault, Locked, Open, Runs,
      Stages, Save, Invalidated, vars, files, saved, local, fault, unlocked,
      history
<1>8. CASE Disable
  BY <1>8
  DEF TypeOK, LockInv, StateInv, StaleRunningOnlyByFault, Locked, Open, Runs,
      Stages, Disable, vars, files, saved, local, fault, unlocked, history
<1>11. CASE Others
  <2>1. CASE TrackedBegin
    BY <2>1
    DEF TypeOK, LockInv, StateInv, StaleRunningOnlyByFault, Locked, Open,
        Runs, Stages, TrackedBegin, Overwrite, vars, files, saved, local,
        fault, unlocked, history
  <2>2. CASE TrackedEnd
    BY <2>2
    DEF TypeOK, LockInv, StateInv, StaleRunningOnlyByFault, Locked, Open,
        Runs, Stages, TrackedEnd, Overwrite, vars, files, saved, local, fault,
        unlocked, history
  <2>3. CASE RepairClaim
    BY <2>3
    DEF TypeOK, LockInv, StateInv, StaleRunningOnlyByFault, Locked, Open,
        Runs, Stages, RepairClaim, Overwrite, vars, files, saved, local,
        fault, unlocked, history
  <2>4. CASE RepairResult
    BY <2>4
    DEF TypeOK, LockInv, StateInv, StaleRunningOnlyByFault, Locked, Open,
        Runs, Stages, RepairResult, Overwrite, vars, files, saved, local,
        fault, unlocked, history
  <2>5. ASSUME NEW o \in Unlocked, OtherUnwritten(o) PROVE StaleRunningOnlyByFault'
    BY <2>5
    DEF TypeOK, LockInv, StateInv, StaleRunningOnlyByFault, Locked, Open,
        Runs, Stages, OtherUnwritten, vars, files, saved, local, fault,
        unlocked, history
  <2> QED BY <1>11, <2>1, <2>2, <2>3, <2>4, <2>5 DEF Others
<1>9. CASE UNCHANGED vars
  BY <1>9
  DEF TypeOK, LockInv, StateInv, StaleRunningOnlyByFault, Locked, Open, Runs,
      Stages, vars, files, saved, local, fault, unlocked, history
<1>10. /\ Manual \in SUBSET Runs /\ \A r \in Scheduled : {r} \in SUBSET Runs
       /\ {} \in SUBSET others /\ others \in SUBSET others
  BY DEF Runs
<1> QED
  BY <1>1, <1>2, <1>3, <1>4, <1>5, <1>6, <1>7, <1>8, <1>9, <1>10, <1>11
  DEF Next, Start, Environment, AppletDies, WorkerDies

\* Markers keep vouching for the binding of their directory.
LEMMA MarkerStep == TypeOK /\ RunTyped /\ LockInv /\ MarkerInv /\ [Next]_vars => MarkerInv'
<1> SUFFICES ASSUME TypeOK, RunTyped, LockInv, MarkerInv, [Next]_vars PROVE MarkerInv'
  OBVIOUS
<1>1. ASSUME NEW r \in Manual, NEW q \in {"PreviewInitialSync", "SyncNow"},
             RequestManual(r, q)
      PROVE  MarkerInv'
  BY <1>1
  DEF TypeOK, RunTyped, LockInv, MarkerInv, Locked, Open, Runs, Stages, Modes,
      WorkDir, IsInitial, IsPreview, RequestManual, Free, ManualMode, Go, At,
      vars, files, saved, local, fault, unlocked, history
<1>2. ASSUME NEW r \in Scheduled, StartWorker(r) PROVE MarkerInv'
  BY <1>2
  DEF TypeOK, RunTyped, LockInv, MarkerInv, Locked, Open, Runs, Stages, Modes,
      WorkDir, IsInitial, IsPreview, StartWorker, Free, Go, At, vars, files,
      saved, local, fault, unlocked, history
<1>3. ASSUME NEW r \in Runs, Progress(r) PROVE MarkerInv'
  <2>1. CASE LoadSaved(r)
    BY <2>1
    DEF TypeOK, RunTyped, LockInv, MarkerInv, Locked, Open, Runs, Stages,
        Modes, WorkDir, IsInitial, IsPreview, LoadSaved, Go, At, vars, files,
        saved, local, fault, unlocked, history
  <2>2. CASE Acquire(r)
    BY <2>2
    DEF TypeOK, RunTyped, LockInv, MarkerInv, Locked, Open, Runs, Stages,
        Modes, WorkDir, IsInitial, IsPreview, Acquire, Go, At, vars, files,
        saved, local, fault, unlocked, history
  <2>3. CASE Guard(r)
    BY <2>3
    DEF TypeOK, RunTyped, LockInv, MarkerInv, Locked, Open, Runs, Stages,
        Modes, WorkDir, IsInitial, IsPreview, Guard, Go, At, vars, files,
        saved, local, fault, unlocked, history, ModeAllowed
  <2>4. CASE CheckState(r)
    BY <2>4
    DEF TypeOK, RunTyped, LockInv, MarkerInv, Locked, Open, Runs, Stages,
        Modes, WorkDir, IsInitial, IsPreview, CheckState, Go, At, vars, files,
        saved, local, fault, unlocked, history
  <2>5. CASE PublishRunning(r)
    BY <2>5
    DEF TypeOK, RunTyped, LockInv, MarkerInv, Locked, Open, Runs, Stages,
        Modes, WorkDir, IsInitial, IsPreview, PublishRunning, Go, At, vars,
        files, saved, local, fault, unlocked, history
  <2>6. CASE EarlyReturn(r)
    BY <2>6
    DEF TypeOK, RunTyped, LockInv, MarkerInv, Locked, Open, Runs, Stages,
        Modes, WorkDir, IsInitial, IsPreview, EarlyReturn, Drop, Forget, vars,
        files, saved, local, fault, unlocked, history
  <2>7. CASE PrepareAccess(r)
    BY <2>7
    DEF TypeOK, RunTyped, LockInv, MarkerInv, Locked, Open, Runs, Stages,
        Modes, WorkDir, IsInitial, IsPreview, PrepareAccess, Go, At, vars,
        files, saved, local, fault, unlocked, history
  <2>8. CASE RunBisync(r)
    <3> SUFFICES ASSUME BoundDir PROVE MarkerInv'
      BY DEF MarkerInv
    <3>1. tgt[r] \in Targets /\ mode[r] \in Modes /\ WorkDir(tgt[r]) = tgt[r]
      BY <2>8 DEF RunTyped, RunBisync, At, WorkDir
    <3>2. /\ UNCHANGED <<mode, tgt, previewMarker, syncMarker, verified>>
          /\ previewed \subseteq previewed'
          /\ mode[r] = "InitialPreview" => tgt[r] \in previewed'
      BY <2>8 DEF RunBisync, files
    <3>3. /\ \A t \in Targets : based[t] = t => based'[t] = t
          /\ mode[r] = "InitialSync" => based'[tgt[r]] = tgt[r]
      BY <2>8, <3>1 DEF RunBisync, TypeOK, Dirs
    <3>4. \A s \in Runs : s # r => stage'[s] = stage[s]
      BY <2>8 DEF RunBisync, Go, TypeOK
    <3>5. /\ stage'[r] \in {"verify", "mark", "final"}
          /\ stage'[r] = "verify" => NeedsVerify(mode[r])
          /\ stage'[r] = "mark" => ~NeedsVerify(mode[r]) /\ IsInitial(mode[r])
      BY <2>8 DEF RunBisync, Go, TypeOK, AfterEngine
    <3>6. NeedsVerify("InitialSync") /\ (NeedsVerify(mode[r]) => ~IsPreview(mode[r]))
      BY DEF NeedsVerify, IsPreview, BoundDir
    <3>7. \A s \in Runs : stage[s] \notin {"idle", "load"} => tgt[s] \in Targets
      BY DEF RunTyped
    <3> QED
      BY <2>8, <3>1, <3>2, <3>3, <3>4, <3>5, <3>6, <3>7
      DEF MarkerInv, RunBisync, At, Locked, IsInitial
  <2>9. CASE Verify(r)
    BY <2>9
    DEF TypeOK, RunTyped, LockInv, MarkerInv, Locked, Open, Runs, Stages,
        Modes, WorkDir, IsInitial, IsPreview, Verify, Go, At, AfterEngine,
        vars, files, saved, local, fault, unlocked, history
  <2>10. CASE WriteMarker(r)
    BY <2>10
    DEF TypeOK, RunTyped, LockInv, MarkerInv, Locked, Open, Runs, Stages,
        Modes, WorkDir, IsInitial, IsPreview, WriteMarker, Go, At, vars,
        files, saved, local, fault, unlocked, history
  <2>11. CASE RemovePreviewMarker(r)
    BY <2>11
    DEF TypeOK, RunTyped, LockInv, MarkerInv, Locked, Open, Runs, Stages,
        Modes, WorkDir, IsInitial, IsPreview, RemovePreviewMarker, Go, At,
        vars, files, saved, local, fault, unlocked, history
  <2>12. CASE FailTransaction(r)
    BY <2>12
    DEF TypeOK, RunTyped, LockInv, MarkerInv, Locked, Open, Runs, Stages,
        Modes, WorkDir, IsInitial, IsPreview, FailTransaction, Go, vars,
        files, saved, local, fault, unlocked, history
  <2>13. CASE PublishResult(r)
    BY <2>13
    DEF TypeOK, RunTyped, LockInv, MarkerInv, Locked, Open, Runs, Stages,
        Modes, WorkDir, IsInitial, IsPreview, PublishResult, Go, At,
        FinalState, vars, files, saved, local, fault, unlocked, history
  <2>14. CASE ResultNotWritten(r)
    BY <2>14
    DEF TypeOK, RunTyped, LockInv, MarkerInv, Locked, Open, Runs, Stages,
        Modes, WorkDir, IsInitial, IsPreview, ResultNotWritten, Go, At, vars,
        files, saved, local, fault, unlocked, history
  <2>15. CASE Release(r)
    BY <2>15
    DEF TypeOK, RunTyped, LockInv, MarkerInv, Locked, Open, Runs, Stages,
        Modes, WorkDir, IsInitial, IsPreview, Release, Drop, Forget, At, vars,
        files, saved, local, fault, unlocked, history
  <2> QED
    BY <1>3, <2>1, <2>2, <2>3, <2>4, <2>5, <2>6, <2>7, <2>8, <2>9, <2>10,
        <2>11, <2>12, <2>13, <2>14, <2>15
    DEF Progress
<1>4. ASSUME NEW r \in Manual, Cancel(r) PROVE MarkerInv'
  BY <1>4
  DEF TypeOK, RunTyped, LockInv, MarkerInv, Locked, Open, Runs, Stages, Modes,
      WorkDir, IsInitial, IsPreview, Cancel, At, vars, files, saved, local,
      fault, unlocked, history
<1>5. ASSUME NEW dead \in SUBSET Runs, NEW left \in SUBSET others,
             Kill(dead, left)
      PROVE  MarkerInv'
  BY <1>5
  DEF TypeOK, RunTyped, LockInv, MarkerInv, Locked, Open, Runs, Stages, Modes,
      WorkDir, IsInitial, IsPreview, Kill, Drop, Forget, At, vars, files,
      saved, local, fault, unlocked, history
<1>6. ASSUME NEW r \in Runs, OrphanExit(r) PROVE MarkerInv'
  BY <1>6
  DEF TypeOK, RunTyped, LockInv, MarkerInv, Locked, Open, Runs, Stages, Modes,
      WorkDir, IsInitial, IsPreview, OrphanExit, vars, files, saved, local,
      fault, unlocked, history
<1>7. ASSUME NEW t \in Targets, Save(t) PROVE MarkerInv'
  BY <1>7
  DEF TypeOK, RunTyped, LockInv, MarkerInv, Locked, Open, Runs, Stages, Modes,
      WorkDir, IsInitial, IsPreview, Save, Invalidated, vars, files, saved,
      local, fault, unlocked, history
<1>8. CASE Disable
  BY <1>8
  DEF TypeOK, RunTyped, LockInv, MarkerInv, Locked, Open, Runs, Stages, Modes,
      WorkDir, IsInitial, IsPreview, Disable, vars, files, saved, local,
      fault, unlocked, history
<1>11. CASE Others
  <2>1. CASE TrackedBegin
    BY <2>1
    DEF TypeOK, RunTyped, LockInv, MarkerInv, Locked, Open, Runs, Stages,
        Modes, WorkDir, IsInitial, IsPreview, TrackedBegin, Overwrite, vars,
        files, saved, local, fault, unlocked, history
  <2>2. CASE TrackedEnd
    BY <2>2
    DEF TypeOK, RunTyped, LockInv, MarkerInv, Locked, Open, Runs, Stages,
        Modes, WorkDir, IsInitial, IsPreview, TrackedEnd, Overwrite, vars,
        files, saved, local, fault, unlocked, history
  <2>3. CASE RepairClaim
    BY <2>3
    DEF TypeOK, RunTyped, LockInv, MarkerInv, Locked, Open, Runs, Stages,
        Modes, WorkDir, IsInitial, IsPreview, RepairClaim, Overwrite, vars,
        files, saved, local, fault, unlocked, history
  <2>4. CASE RepairResult
    BY <2>4
    DEF TypeOK, RunTyped, LockInv, MarkerInv, Locked, Open, Runs, Stages,
        Modes, WorkDir, IsInitial, IsPreview, RepairResult, Overwrite, vars,
        files, saved, local, fault, unlocked, history
  <2>5. ASSUME NEW o \in Unlocked, OtherUnwritten(o) PROVE MarkerInv'
    BY <2>5
    DEF TypeOK, RunTyped, LockInv, MarkerInv, Locked, Open, Runs, Stages,
        Modes, WorkDir, IsInitial, IsPreview, OtherUnwritten, vars, files,
        saved, local, fault, unlocked, history
  <2> QED BY <1>11, <2>1, <2>2, <2>3, <2>4, <2>5 DEF Others
<1>9. CASE UNCHANGED vars
  BY <1>9
  DEF TypeOK, RunTyped, LockInv, MarkerInv, Locked, Open, Runs, Stages, Modes,
      WorkDir, IsInitial, IsPreview, vars, files, saved, local, fault,
      unlocked, history
<1>10. /\ Manual \in SUBSET Runs /\ \A r \in Scheduled : {r} \in SUBSET Runs
       /\ {} \in SUBSET others /\ others \in SUBSET others
  BY DEF Runs
<1> QED
  BY <1>1, <1>2, <1>3, <1>4, <1>5, <1>6, <1>7, <1>8, <1>9, <1>10, <1>11
  DEF Next, Start, Environment, AppletDies, WorkerDies

\* A new connection satisfies the inductive invariant.
LEMMA IndInvInit == Init => IndInv
<1> SUFFICES ASSUME Init PROVE IndInv
  OBVIOUS
<1>1. TypeOK
  <2>1. coord \in [op : Modes \cup Unlocked \cup {"None"}, st : States]
    BY DEF Init, States
  <2>2. others \subseteq Unlocked /\ uncovered \subseteq Runs /\ lost \in BOOLEAN
    BY DEF Init
  <2> QED BY <2>1, <2>2 DEF Init, TypeOK, Stages
<1>2. RunTyped /\ LockInv /\ StateInv /\ OrphanInv /\ SlotInv
  BY DEF Init, RunTyped, LockInv, StateInv, OrphanInv, SlotInv, Locked, Open
<1>3. StaleRunningOnlyByFault /\ MarkerInv
  BY DEF Init, StaleRunningOnlyByFault, MarkerInv, Locked
<1> QED BY <1>1, <1>2, <1>3 DEF IndInv

\* IndInv holds in every state the coordinator, its callers, kills and edits
\* of the saved connection can reach.
THEOREM Invariance == Spec => []IndInv
<1>1. IndInv /\ [Next]_vars => IndInv'
  BY TypeStep, RunTypedStep, LockStep, SlotStep, StateStep, OrphanStep,
     StaleStep, MarkerStep
  DEF IndInv
<1> QED BY IndInvInit, <1>1, PTL DEF Spec

\* TypeOK holds: every variable keeps its type under every operation.
THEOREM TypeCorrect == Spec => []TypeOK
<1>1. IndInv => TypeOK BY DEF IndInv
<1> QED BY Invariance, <1>1, PTL

\* Two engines of live runs never work on one connection at once, and the engine
\* of a killed run is alone until an unlocked write replaces the Running it left
\* (EngineExclusion), for any number of callers and kills.
THEOREM EnginesExclusive == Spec => []EngineExclusion
<1>1. IndInv => EngineExclusion
  BY DEF IndInv, LockInv, OrphanInv, EngineExclusion, Engine, Locked, Open
<1> QED BY Invariance, <1>1, PTL

\* A Running left without an open run is explained by a fault
\* (StaleRunningOnlyByFault).
THEOREM StaleRunningExplained == Spec => []StaleRunningOnlyByFault
<1>1. IndInv => StaleRunningOnlyByFault BY DEF IndInv
<1> QED BY Invariance, <1>1, PTL

\* With a work directory per binding (Teams and rclone OneDrive) a resync only
\* runs on a binding whose dry run completed, for any number of bindings.
THEOREM ResyncNeedsPreview ==
  ASSUME BoundDir PROVE Spec => []ResyncOnlyAfterPreview
<1>1. IndInv => ResyncOnlyAfterPreview
  BY DEF IndInv, MarkerInv, ResyncOnlyAfterPreview, Locked
<1> QED BY Invariance, <1>1, PTL

\* The completion marker of a binding is backed by a verified baseline of that
\* binding (InitializedIsVerified).
THEOREM InitializedVerified == Spec => []InitializedIsVerified
<1>1. IndInv => InitializedIsVerified
  BY DEF IndInv, MarkerInv, InitializedIsVerified, WorkDir
<1> QED BY Invariance, <1>1, PTL

\* With a work directory per binding, ordinary runs work on their baseline.
THEOREM OrdinaryRunsOnBaseline ==
  ASSUME BoundDir PROVE Spec => []OrdinaryRunHasBaseline
<1>1. IndInv => OrdinaryRunHasBaseline
  BY DEF IndInv, MarkerInv, OrdinaryRunHasBaseline, Engine, Locked, WorkDir
<1> QED BY Invariance, <1>1, PTL

\* A step that changes the state file while a run is open is that run writing
\* its own result, or one of the unlocked writes, never the claim of Repair
\* (OpenRunOwnsState).
THEOREM StateOwnership == Spec => OpenRunOwnsState
<1> DEFINE Owned == \A r \in Runs :
             stage[r] \in Open /\ coord' # coord =>
               \/ At(r, "final") /\ coord'.op = mode[r]
               \/ coord'.op \in Unlocked
                  /\ coord' # [op |-> "Repair", st |-> "Running"]
<1>1. IndInv /\ [Next]_vars => [Owned]_vars
  <2> SUFFICES ASSUME IndInv, [Next]_vars, NEW r \in Runs,
                      stage[r] \in Open, coord' # coord
               PROVE  \/ At(r, "final") /\ coord'.op = mode[r]
                      \/ coord'.op \in Unlocked
                         /\ coord' # [op |-> "Repair", st |-> "Running"]
    OBVIOUS
  <2>1. CASE \E s \in Runs : PublishRunning(s) \/ PublishResult(s)
    <3>1. PICK s \in Runs : PublishRunning(s) \/ PublishResult(s)
      BY <2>1
    <3>2. stage[r] \in Locked /\ stage[s] \in Locked
      BY <3>1 DEF PublishRunning, PublishResult, At, Open, Locked
    <3>3. s = r
      BY <3>2 DEF IndInv, LockInv
    <3> QED
      BY <3>1, <3>3 DEF PublishRunning, PublishResult, At, Open
  <2>2. CASE TrackedBegin
    BY <2>2 DEF TrackedBegin, Overwrite, files
  <2>3. CASE TrackedEnd
    <3>1. "Tracked" \in Unlocked
      BY <2>3 DEF TrackedEnd, IndInv, TypeOK
    <3> QED BY <2>3, <3>1 DEF TrackedEnd, Overwrite
  <2>4. CASE RepairClaim
    <3>1. stage[r] \in Locked /\ lock = NoRun
      BY <2>4 DEF RepairClaim, Open, Locked
    <3> QED BY <3>1 DEF IndInv, LockInv
  <2>5. CASE RepairResult
    BY <2>5 DEF RepairResult, Overwrite
  <2> QED
    BY <2>1, <2>2, <2>3, <2>4, <2>5
    DEF Next, Start, Environment, Others, Progress, RequestManual,
        StartWorker, LoadSaved, Acquire, Guard, CheckState, EarlyReturn,
        PrepareAccess, RunBisync, Verify, WriteMarker, RemovePreviewMarker,
        FailTransaction, ResultNotWritten, Release, Cancel, AppletDies,
        WorkerDies, Kill, OrphanExit, Save, Disable, OtherUnwritten, vars,
        files
<1> QED BY Invariance, <1>1, PTL DEF Spec, OpenRunOwnsState
=============================================================================
