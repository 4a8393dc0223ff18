---------------------------- MODULE AppletProofs ----------------------------
(***************************************************************************)
(* Proofs about the applet that owns the runtime.                          *)
(* OnlineMount, for any finite number of tasks, warm-up jobs, sleeps and   *)
(* failures: clean-up works alone, its report stays true until the host    *)
(* wakes up, and warm-ups stay counted and within reach.                   *)
(* AppletRuntime, for any finite number of connections and any queue of    *)
(* waiting requests: what starts was decided on a fresh view of the units, *)
(* a Repair was asked for twice, and no routed operation is forgotten.     *)
(***************************************************************************)
EXTENDS OnlineMount, AppletRuntime, FiniteSetTheorems, WellFoundedInduction, TLAPS

-----------------------------------------------------------------------------
(* Online mounts: the inductive invariant                                   *)

\* What the other parts need of the types.
JobShape ==
  /\ jobStage \in [Jobs -> JobStages]
  /\ jobCancelled \in [Jobs -> BOOLEAN]
  /\ registered \in 0..MaxJobs
  /\ jobs \in 0..MaxJobs

ShapeInv ==
  /\ op \in [Tasks -> TaskOps]
  /\ stage \in [Tasks -> TaskStages]
  /\ JobShape

MountStages == {"prepare", "check", "start", "observe", "on"}
UnmountStages == {"off", "preload", "detach", "stop", "gone"}
RepairStages == {"rOff", "rPreload", "rStop", "rDetach", "rGone", "rReset"}

\* The stage of task t belongs to its operation.
OpOf(t) ==
  /\ stage[t] \in MountStages => op[t] \in {"Mount", "Restore"}
  /\ stage[t] \in UnmountStages => op[t] = "Unmount"
  /\ stage[t] \in RepairStages => op[t] = "Repair"
  /\ stage[t] = "network" => op[t] = "Restore"

OpInv == \A t \in Tasks : OpOf(t)

\* Nobody holds an OnlineOperation.
NobodyAtGate == (\A t \in Tasks : ~AtGate(t)) /\ (\A j \in Jobs : ~JobAtGate(j))

\* A clean-up that found everything gone or made it so.
Clean == listener \in {"cleaning", "released"} /\ cleaned \in {"ok", "idle"}

\* The gate is closed from the announcement of sleep to the wake-up, and from
\* the start of a clean-up that succeeds nobody is at it.
GateInv ==
  /\ listener \in {"waiting", "cleaning", "released"} => preparing
  /\ listener = "subscribed" => cleaned = "none"
  /\ listener = "cleaning" \/ Clean => NobodyAtGate

\* The clean-up has seen the service stopped.
Quiet == Clean \/ (listener = "cleaning" /\ cleaned = "settled")

\* What a clean-up has seen stays so until the wake-up.
CleanInv ==
  /\ Quiet => unit \in {"inactive", "failed"}
  /\ Clean /\ cleaned = "ok" => mount = "none"

\* The warm-ups are counted and within reach.
WarmInv == JobsTracked /\ PreloadReachable

SleepInv == ShapeInv /\ OpInv /\ GateInv /\ CleanInv /\ WarmInv

-----------------------------------------------------------------------------
(* The gate's count *)

\* The count is zero exactly when nobody is at the gate.
LEMMA CountZero == activeOperations = 0 <=> NobodyAtGate
<1> DEFINE T == {t \in Tasks : AtGate(t)}
           J == {j \in Jobs : JobAtGate(j)}
<1>1. IsFiniteSet(T) /\ IsFiniteSet(J)
  <2>1. IsFiniteSet(Jobs)
    BY OnlineAssumption, FS_Interval DEF Jobs
  <2> QED BY <2>1, OnlineAssumption, FS_Subset
<1>2. Cardinality(T) \in Nat /\ Cardinality(J) \in Nat
  BY <1>1, FS_CardinalityType
<1>3. (Cardinality(T) = 0 <=> T = {}) /\ (Cardinality(J) = 0 <=> J = {})
  BY <1>1, FS_EmptySet
<1>4. activeOperations = Cardinality(T) + Cardinality(J)
  BY DEF activeOperations
<1>5. activeOperations = 0 <=> T = {} /\ J = {}
  <2> HIDE DEF T, J
  <2> QED BY <1>2, <1>3, <1>4
<1> QED BY <1>5 DEF NobodyAtGate

-----------------------------------------------------------------------------
(* Steps of the tasks *)

\* A task that is not at the gate does not get there while the gate is closed.
StaysOut(t) == preparing /\ ~AtGate(t) => ~AtGate(t)'

\* A step of task t between its request and its report.
Moves(t) ==
  /\ op' = op
  /\ stage' \in [Tasks -> TaskStages]
  /\ \A x \in Tasks \ {t} : stage'[x] = stage[x]
  /\ OpOf(t)'
  /\ StaysOut(t)

\* To and Fail are such steps when the stage stays with the operation.
LEMMA MountMoves ==
  ASSUME ShapeInv, OpInv, NEW t \in Tasks, stage[t] \in MountStages,
         NEW s \in MountStages \cup {"report"}, To(t, s)
  PROVE  Moves(t)
BY DEF ShapeInv, OpInv, OpOf, To, Moves, StaysOut, AtGate, MountStages, UnmountStages,
       RepairStages, TaskStages, TaskOps

LEMMA UnmountMoves ==
  ASSUME ShapeInv, OpInv, NEW t \in Tasks, stage[t] \in UnmountStages,
         NEW s \in UnmountStages \cup {"report"}, To(t, s)
  PROVE  Moves(t)
BY DEF ShapeInv, OpInv, OpOf, To, Moves, StaysOut, AtGate, MountStages, UnmountStages,
       RepairStages, TaskStages, TaskOps

LEMMA RepairMoves ==
  ASSUME ShapeInv, OpInv, NEW t \in Tasks, stage[t] \in RepairStages,
         NEW s \in RepairStages \cup {"report"}, To(t, s)
  PROVE  Moves(t)
BY DEF ShapeInv, OpInv, OpOf, To, Moves, StaysOut, AtGate, MountStages, UnmountStages,
       RepairStages, TaskStages, TaskOps

LEMMA FailMoves ==
  ASSUME ShapeInv, NEW t \in Tasks, Fail(t)
  PROVE  Moves(t)
BY DEF ShapeInv, OpOf, Fail, Moves, StaysOut, AtGate, MountStages, UnmountStages,
       RepairStages, TaskStages, TaskOps

LEMMA SameMoves ==
  ASSUME ShapeInv, OpInv, NEW t \in Tasks, op' = op, stage' = stage
  PROVE  Moves(t)
BY DEF ShapeInv, OpInv, OpOf, Moves, StaysOut, AtGate

\* The steps of Mount, and of a restore that becomes one.
LEMMA MountTaskMoves ==
  ASSUME ShapeInv, OpInv, NEW t \in Tasks,
         \/ CheckEmptyMountpoint(t) \/ StillSaved(t) \/ StartService(t)
         \/ ObserveStart(t) \/ PersistOn(t) \/ RestoreReady(t)
  PROVE  Moves(t)
<1>1. CASE CheckEmptyMountpoint(t)
  <2>1. stage[t] = "prepare" /\ (To(t, "check") \/ Fail(t))
    BY <1>1 DEF CheckEmptyMountpoint, At
  <2> QED BY <2>1, MountMoves, FailMoves DEF MountStages
<1>2. CASE StillSaved(t)
  <2>1. stage[t] = "check" /\ (To(t, "start") \/ Fail(t))
    BY <1>2 DEF StillSaved, At
  <2> QED BY <2>1, MountMoves, FailMoves DEF MountStages
<1>3. CASE StartService(t)
  <2>1. stage[t] = "start" /\ (To(t, "observe") \/ Fail(t))
    BY <1>3 DEF StartService, At
  <2> QED BY <2>1, MountMoves, FailMoves DEF MountStages
<1>4. CASE ObserveStart(t)
  <2>1. stage[t] = "observe" /\ (To(t, "on") \/ Fail(t))
    BY <1>4 DEF ObserveStart, At
  <2> QED BY <2>1, MountMoves, FailMoves DEF MountStages
<1>5. CASE PersistOn(t)
  <2>1. stage[t] = "on" /\ (To(t, "report") \/ Fail(t))
    BY <1>5 DEF PersistOn, At
  <2> QED BY <2>1, MountMoves, FailMoves DEF MountStages
<1>6. CASE RestoreReady(t)
  <2>1. stage[t] = "network" /\ ((~preparing /\ To(t, "prepare")) \/ Fail(t))
    BY <1>6 DEF RestoreReady, At, BeginAllowed
  <2>2. CASE ~preparing /\ To(t, "prepare")
    BY <2>1, <2>2 DEF ShapeInv, OpInv, OpOf, To, Moves, StaysOut, MountStages, UnmountStages,
                      RepairStages, TaskStages
  <2> QED BY <2>1, <2>2, FailMoves
<1> QED BY <1>1, <1>2, <1>3, <1>4, <1>5, <1>6

\* The steps of Unmount and Repair.
LEMMA UnmountTaskMoves ==
  ASSUME ShapeInv, OpInv, NEW t \in Tasks,
         \/ PersistOff(t) \/ CancelWarmup(t) \/ WarmupCancelled(t)
         \/ CleanDetach(t) \/ StopService(t) \/ RequireGone(t)
         \/ RepairDetach(t) \/ RepairGone(t) \/ RepairReset(t)
  PROVE  Moves(t)
<1>1. CASE PersistOff(t)
  <2>1. \/ stage[t] = "off" /\ To(t, "preload")
        \/ stage[t] = "rOff" /\ To(t, "rPreload")
        \/ Fail(t)
    BY <1>1 DEF PersistOff, At
  <2> QED BY <2>1, UnmountMoves, RepairMoves, FailMoves DEF UnmountStages, RepairStages
<1>2. ASSUME stage[t] \in {"preload", "rPreload"},
             To(t, IF op[t] = "Repair" THEN "rStop" ELSE "detach")
      PROVE  Moves(t)
  <2>1. stage[t] = "preload" => op[t] = "Unmount"
    BY DEF OpInv, OpOf, UnmountStages
  <2>2. stage[t] = "rPreload" => op[t] = "Repair"
    BY DEF OpInv, OpOf, RepairStages
  <2>3. CASE stage[t] = "preload"
    <3>1. To(t, "detach")
      BY <1>2, <2>1, <2>3 DEF To
    <3> QED BY <2>3, <3>1, UnmountMoves DEF UnmountStages
  <2>4. CASE stage[t] = "rPreload"
    <3>1. To(t, "rStop")
      BY <1>2, <2>2, <2>4 DEF To
    <3> QED BY <2>4, <3>1, RepairMoves DEF RepairStages
  <2> QED BY <1>2, <2>3, <2>4
<1>3. CASE CancelWarmup(t)
  <2>1. \/ op' = op /\ stage' = stage
        \/ /\ stage[t] \in {"preload", "rPreload"}
           /\ To(t, IF op[t] = "Repair" THEN "rStop" ELSE "detach")
    BY <1>3 DEF CancelWarmup, At
  <2> QED BY <2>1, <1>2, SameMoves
<1>4. CASE WarmupCancelled(t)
  <2>1. stage[t] \in {"preload", "rPreload"}
    BY <1>4 DEF WarmupCancelled, At
  <2>2. CASE op[t] = "Repair"
    <3>1. To(t, "rStop")
      BY <1>4, <2>2 DEF WarmupCancelled
    <3> QED BY <2>1, <2>2, <3>1, <1>2
  <2>3. CASE op[t] /= "Repair"
    <3>1. To(t, "detach") \/ Fail(t)
      BY <1>4, <2>3 DEF WarmupCancelled
    <3> QED BY <2>1, <2>3, <3>1, <1>2, FailMoves
  <2> QED BY <2>2, <2>3
<1>5. CASE CleanDetach(t)
  <2>1. stage[t] = "detach" /\ (To(t, "stop") \/ Fail(t))
    BY <1>5 DEF CleanDetach, At
  <2> QED BY <2>1, UnmountMoves, FailMoves DEF UnmountStages
<1>6. CASE StopService(t)
  <2>1. \/ stage[t] = "stop" /\ To(t, "gone")
        \/ stage[t] = "rStop" /\ To(t, "rDetach")
        \/ Fail(t)
    BY <1>6 DEF StopService, At
  <2> QED BY <2>1, UnmountMoves, RepairMoves, FailMoves DEF UnmountStages, RepairStages
<1>7. CASE RequireGone(t)
  <2>1. stage[t] = "gone" /\ (To(t, "report") \/ Fail(t))
    BY <1>7 DEF RequireGone, At
  <2> QED BY <2>1, UnmountMoves, FailMoves DEF UnmountStages
<1>8. CASE RepairDetach(t)
  <2>1. stage[t] = "rDetach" /\ (To(t, "rGone") \/ Fail(t))
    BY <1>8 DEF RepairDetach, At
  <2> QED BY <2>1, RepairMoves, FailMoves DEF RepairStages
<1>9. CASE RepairGone(t)
  <2>1. stage[t] = "rGone" /\ (To(t, "rReset") \/ Fail(t))
    BY <1>9 DEF RepairGone, At
  <2> QED BY <2>1, RepairMoves, FailMoves DEF RepairStages
<1>10. CASE RepairReset(t)
  <2>1. stage[t] = "rReset" /\ (To(t, "report") \/ Fail(t))
    BY <1>10 DEF RepairReset, At
  <2> QED BY <2>1, RepairMoves, FailMoves DEF RepairStages
<1> QED BY <1>1, <1>3, <1>4, <1>5, <1>6, <1>7, <1>8, <1>9, <1>10

LEMMA TaskMoves ==
  ASSUME ShapeInv, OpInv, NEW t \in Tasks, TaskStep(t)
  PROVE  Moves(t)
BY MountTaskMoves, UnmountTaskMoves DEF TaskStep

-----------------------------------------------------------------------------
(* Steps of the warm-up jobs *)

\* No job gets to the gate while it is closed.
JobsStayOut == preparing => \A i \in Jobs : JobAtGate(i)' => JobAtGate(i)

\* A step that keeps what the warm-ups owe.
JobsKept == JobShape' /\ WarmInv' /\ JobsStayOut

\* cancel_with marks the registered job and nobody else.
LEMMA CancelMarks ==
  ASSUME CancelRegistered
  PROVE  /\ jobCancelled' \in [Jobs -> BOOLEAN]
         /\ \A i \in Jobs : jobCancelled[i] \/ i = registered => jobCancelled'[i]
BY Zenon DEF CancelRegistered

LEMMA StartKeeps ==
  ASSUME JobShape, WarmInv, NEW j \in Jobs,
         StartPreload(j) \/ StartRefresh(j, preparing, epoch)
  PROVE  JobsKept
<1> USE DEF JobShape, WarmInv, JobsTracked, PreloadReachable, Walking, JobAtGate, JobsKept,
            JobsStayOut, Jobs, JobStages, CancelRegistered
<1>1. MaxJobs \in Nat
  BY OnlineAssumption
<1>2. jobStage[j] = "unused" /\ j /= 0 /\ j \in 0..MaxJobs
  BY <1>1 DEF StartPreload, StartRefresh, Fresh
<1>3. CASE StartPreload(j)
  BY <1>1, <1>2, <1>3 DEF StartPreload
<1>4. CASE StartRefresh(j, preparing, epoch)
  <2>1. CASE preparing
    BY <1>1, <1>2, <1>4, <2>1 DEF StartRefresh
  <2>2. CASE ~preparing
    BY <1>1, <1>2, <1>4, <2>2 DEF StartRefresh
  <2> QED BY <2>1, <2>2
<1> QED BY <1>3, <1>4

LEMMA RefreshKeeps ==
  ASSUME JobShape, WarmInv, NEW j \in Jobs, NEW c, NEW u,
         SubmitRefresh(j, c) \/ RefreshStarted(j, u) \/ MonitorDeepen(j, c)
  PROVE  JobsKept
<1> USE DEF JobShape, WarmInv, JobsTracked, PreloadReachable, Walking, JobAtGate, JobsKept,
            JobsStayOut, Jobs, JobStages
<1>1. MaxJobs \in Nat /\ j /= 0 /\ j \in 0..MaxJobs
  BY OnlineAssumption
<1>2. CASE SubmitRefresh(j, c)
  BY <1>1, <1>2 DEF SubmitRefresh, Unregister
<1>3. CASE RefreshStarted(j, u)
  <2>1. CASE jobStage[j] = "started" /\ ~u
    BY <1>1, <1>3, <2>1 DEF RefreshStarted
  <2>2. CASE jobStage[j] = "started" /\ u
    <3>1. /\ UNCHANGED <<refresh, jobs>> /\ registered' = 0
          /\ jobStage' = [jobStage EXCEPT ![j] = "seen"]
          /\ CancelRegistered
      BY <1>3, <2>2 DEF RefreshStarted
    <3>2. JobShape' /\ JobsTracked' /\ JobsStayOut
      BY <1>1, <2>2, <3>1, CancelMarks
    <3>3. PreloadReachable'
      BY <1>1, <2>2, <3>1, CancelMarks
    <3> QED BY <3>2, <3>3
  <2>3. CASE jobStage[j] = "refused"
    BY <1>1, <1>3, <2>3 DEF RefreshStarted
  <2> QED BY <1>3, <2>1, <2>2, <2>3 DEF RefreshStarted
<1>4. CASE MonitorDeepen(j, c)
  BY <1>1, <1>4 DEF MonitorDeepen
<1> QED BY <1>2, <1>3, <1>4

LEMMA MonitorKeeps ==
  ASSUME JobShape, WarmInv, NEW j \in Jobs,
         MonitorBegin(j, ~BeginAllowed, epoch) \/ MonitorEnd(j) \/ JobCompleted(j)
  PROVE  JobsKept
<1> USE DEF JobShape, WarmInv, JobsTracked, PreloadReachable, Walking, JobAtGate, JobsKept,
            JobsStayOut, Jobs, JobStages, Unregister
<1>1. MaxJobs \in Nat /\ j /= 0 /\ j \in 0..MaxJobs
  BY OnlineAssumption
<1>2. CASE MonitorBegin(j, ~BeginAllowed, epoch)
  <2>1. CASE registered = j /\ ~preparing
    BY <1>1, <1>2, <2>1 DEF MonitorBegin, BeginAllowed
  <2>2. CASE ~(registered = j /\ ~preparing)
    BY <1>1, <1>2, <2>2 DEF MonitorBegin, BeginAllowed
  <2> QED BY <2>1, <2>2
<1>3. CASE MonitorEnd(j)
  BY <1>1, <1>3 DEF MonitorEnd
<1>4. CASE JobCompleted(j)
  BY <1>1, <1>4 DEF JobCompleted
<1> QED BY <1>2, <1>3, <1>4

\* A step that leaves the warm-ups alone.
LEMMA IdleKeeps ==
  ASSUME JobShape, WarmInv, UNCHANGED warmup
  PROVE  JobsKept
BY DEF warmup, JobShape, WarmInv, JobsTracked, PreloadReachable, Walking, JobAtGate, JobsKept,
       JobsStayOut

\* Unmount and Repair cancel the registered job before they let go of it.
LEMMA CancelKeeps ==
  ASSUME JobShape, WarmInv, NEW t \in Tasks, CancelWarmup(t) \/ WarmupCancelled(t)
  PROVE  JobsKept
<1> USE DEF JobShape, WarmInv, JobsTracked, PreloadReachable, Walking, JobAtGate, JobsKept,
            JobsStayOut
<1>1. MaxJobs \in Nat
  BY OnlineAssumption
<1>2. CASE CancelWarmup(t)
  <2>1. UNCHANGED <<refresh, jobStage, jobs>> /\ registered' \in {registered, 0}
        /\ CancelRegistered
    BY <1>2 DEF CancelWarmup, To
  <2>2. JobShape' /\ JobsTracked' /\ JobsStayOut
    BY <1>1, <2>1, CancelMarks
  <2>3. PreloadReachable'
    BY <1>1, <2>1, CancelMarks
  <2> QED BY <2>2, <2>3
<1>3. CASE WarmupCancelled(t)
  <2>1. UNCHANGED <<refresh, jobStage, jobCancelled, jobs>>
    BY <1>3 DEF WarmupCancelled
  <2>2. \/ registered' = registered
        \/ /\ registered' = 0
           /\ registered \in Jobs => jobStage[registered] \in {"ended", "seen"}
    BY <1>3 DEF WarmupCancelled, Unregister
  <2> QED BY <1>1, <2>1, <2>2
<1> QED BY <1>2, <1>3

LEMMA TaskKeeps ==
  ASSUME JobShape, WarmInv, NEW t \in Tasks, TaskStep(t)
  PROVE  JobsKept
BY CancelKeeps, IdleKeeps DEF TaskStep, CheckEmptyMountpoint, StillSaved, StartService,
   ObserveStart, PersistOn, RestoreReady, PersistOff, CleanDetach, StopService, RequireGone,
   RepairDetach, RepairGone, RepairReset

LEMMA CompletedKeeps ==
  ASSUME JobShape, WarmInv, NEW t \in Tasks, Completed(t)
  PROVE  JobsKept
<1>1. \/ \E j \in Jobs : StartPreload(j) \/ StartRefresh(j, preparing, epoch)
      \/ jobs' = 0 /\ UNCHANGED <<refresh, jobStage, jobCancelled, jobTok, registered>>
      \/ UNCHANGED warmup
  BY DEF Completed
<1>2. CASE jobs' = 0 /\ UNCHANGED <<refresh, jobStage, jobCancelled, jobTok, registered>>
  <2>1. MaxJobs \in Nat
    BY OnlineAssumption
  <2> QED BY <1>2, <2>1 DEF JobShape, WarmInv, JobsTracked, PreloadReachable, Walking, JobAtGate,
                            JobsKept, JobsStayOut
<1> QED BY <1>1, <1>2, StartKeeps, IdleKeeps

LEMMA WarmupStepKeeps ==
  ASSUME JobShape, WarmInv, WarmupStep \/ WarmupActive
  PROVE  JobsKept
<1>1. CASE WarmupActive
  BY <1>1, StartKeeps DEF WarmupActive
<1>2. CASE WarmupStep
  <2>1. PICK j \in Jobs : \/ SubmitRefresh(j, Cancelled(jobTok[j]))
                          \/ RefreshStarted(j, unmounting)
                          \/ MonitorBegin(j, ~BeginAllowed, epoch)
                          \/ MonitorDeepen(j, Cancelled(jobTok[j]))
                          \/ MonitorEnd(j)
                          \/ JobCompleted(j)
    BY <1>2 DEF WarmupStep
  <2> QED BY <2>1, RefreshKeeps, MonitorKeeps
<1> QED BY <1>1, <1>2

-----------------------------------------------------------------------------
(* Requests, completions and polls *)

\* Any step of task t.
Changes(t) ==
  /\ op' \in [Tasks -> TaskOps]
  /\ stage' \in [Tasks -> TaskStages]
  /\ \A x \in Tasks \ {t} : op'[x] = op[x] /\ stage'[x] = stage[x]
  /\ OpOf(t)'
  /\ StaysOut(t)

LEMMA RequestChanges ==
  ASSUME ShapeInv, NEW t \in Tasks, NEW o \in {"Mount", "Unmount", "Repair"}, Request(t, o)
  PROVE  Changes(t)
<1> DEFINE first == CASE o = "Mount" -> "prepare" [] o = "Unmount" -> "off" [] OTHER -> "rOff"
           s == IF o /= "Repair" /\ preparing THEN "report" ELSE first
<1>1. op' = [op EXCEPT ![t] = o] /\ stage' = [stage EXCEPT ![t] = s]
  BY DEF Request, BeginAllowed
<1>2. /\ s \in TaskStages
      /\ s \in MountStages => o = "Mount" /\ ~preparing
      /\ s \in UnmountStages => o = "Unmount" /\ ~preparing
      /\ s \in RepairStages => o = "Repair"
      /\ s /= "network" /\ s /= "idle"
      /\ o \in {"Mount", "Unmount"} /\ preparing => s = "report"
  BY DEF TaskStages, MountStages, UnmountStages, RepairStages
<1> HIDE DEF s
<1> QED BY <1>1, <1>2 DEF ShapeInv, TaskOps, Changes, OpOf, StaysOut, AtGate

LEMMA RestoreChanges ==
  ASSUME ShapeInv, OpInv, NEW t \in Tasks, StartRestore(t)
  PROVE  Changes(t)
<1>1. CASE saved
  <2>1. op' = [op EXCEPT ![t] = "Restore"] /\ stage' \in {[stage EXCEPT ![t] = "report"],
                                                         [stage EXCEPT ![t] = "network"]}
    BY <1>1 DEF StartRestore
  <2> QED BY <2>1 DEF ShapeInv, TaskOps, TaskStages, Changes, OpOf, StaysOut, AtGate, MountStages,
                      UnmountStages, RepairStages
<1>2. CASE ~saved
  BY <1>2 DEF StartRestore, ShapeInv, OpInv, OpOf, Changes, StaysOut, AtGate
<1> QED BY <1>1, <1>2

LEMMA TurnChanges ==
  ASSUME ShapeInv, OpInv, NEW t \in Tasks, Poll(t) \/ CancelForSleep(t) \/ Completed(t)
  PROVE  Changes(t)
<1>1. CASE Poll(t)
  BY <1>1 DEF Poll, ShapeInv, OpInv, OpOf, Changes, StaysOut, AtGate
<1>2. CASE CancelForSleep(t)
  <2>1. op' = op /\ stage' = [stage EXCEPT ![t] = "report"]
    BY <1>2 DEF CancelForSleep
  <2> QED BY <2>1 DEF ShapeInv, TaskStages, Changes, OpOf, StaysOut, AtGate, MountStages,
                      UnmountStages, RepairStages
<1>3. CASE Completed(t)
  <2>1. op' = [op EXCEPT ![t] = "None"] /\ stage' = [stage EXCEPT ![t] = "idle"]
    BY <1>3 DEF Completed
  <2> QED BY <2>1 DEF ShapeInv, TaskOps, TaskStages, Changes, OpOf, StaysOut, AtGate, MountStages,
                      UnmountStages, RepairStages
<1> QED BY <1>1, <1>2, <1>3

\* What a step of one task and of the jobs leaves of the invariant's parts.
LEMMA ChangesKeep ==
  ASSUME ShapeInv, OpInv, NEW t \in Tasks, Changes(t), JobsKept
  PROVE  /\ ShapeInv' /\ OpInv' /\ WarmInv'
         /\ preparing /\ NobodyAtGate => NobodyAtGate'
<1>1. ShapeInv' /\ WarmInv'
  BY DEF Changes, JobsKept, ShapeInv
<1>2. OpInv'
  BY DEF Changes, OpInv, OpOf
<1>3. ASSUME preparing, NobodyAtGate PROVE NobodyAtGate'
  <2>1. \A x \in Tasks : ~AtGate(x)'
    BY <1>3 DEF Changes, StaysOut, NobodyAtGate, AtGate
  <2>2. \A j \in Jobs : ~JobAtGate(j)'
    BY <1>3 DEF JobsKept, JobsStayOut, NobodyAtGate
  <2> QED BY <2>1, <2>2 DEF NobodyAtGate
<1> QED BY <1>1, <1>2, <1>3

\* No service starts and nothing mounts.
StaysQuiet ==
  /\ unit' \in {"inactive", "failed"}
  /\ mount = "none" => mount' = "none"

\* A step that is not the listener's.
LEMMA AsideKeeps ==
  ASSUME GateInv, CleanInv, UNCHANGED <<listener, cleaned, preparing>>,
         preparing /\ NobodyAtGate => NobodyAtGate',
         Quiet => StaysQuiet
  PROVE  GateInv' /\ CleanInv'
BY DEF GateInv, CleanInv, Clean, Quiet, StaysQuiet

\* Nothing starts or mounts once the clean-up has seen the service stopped.
LEMMA TaskLeavesClean ==
  ASSUME SleepInv, NEW t \in Tasks, TaskStep(t), Quiet
  PROVE  StaysQuiet
<1> USE DEF StaysQuiet
<1>1. unit \in {"inactive", "failed"} /\ ~AtGate(t)
  BY DEF SleepInv, CleanInv, GateInv, NobodyAtGate, Quiet
<1>2. ~StartService(t)
  BY <1>1 DEF SleepInv, OpInv, OpOf, StartService, At, AtGate, MountStages
<1>3. CASE CleanDetach(t) \/ StopService(t) \/ RepairDetach(t) \/ RepairReset(t)
  BY <1>1, <1>3 DEF CleanDetach, Detach, StopService, StopUnit, RepairDetach, RepairReset
<1>4. CASE CheckEmptyMountpoint(t) \/ StillSaved(t) \/ ObserveStart(t) \/ PersistOn(t)
             \/ RestoreReady(t) \/ PersistOff(t) \/ CancelWarmup(t) \/ WarmupCancelled(t)
             \/ RequireGone(t) \/ RepairGone(t)
  BY <1>1, <1>4 DEF CheckEmptyMountpoint, StillSaved, ObserveStart, PersistOn, RestoreReady,
     PersistOff, CancelWarmup, WarmupCancelled, RequireGone, RepairGone, service
<1> QED BY <1>2, <1>3, <1>4 DEF TaskStep

\* Every step of a task keeps the invariant.
LEMMA TaskPart ==
  ASSUME SleepInv, NEW t \in Tasks,
         \/ Poll(t) \/ CancelForSleep(t) \/ TaskStep(t) \/ StartRestore(t) \/ Completed(t)
         \/ \E o \in {"Mount", "Unmount", "Repair"} : Request(t, o)
  PROVE  SleepInv'
<1> USE DEF SleepInv
<1>1. JobShape
  BY DEF ShapeInv
<1>2. CASE TaskStep(t)
  <2>1. Changes(t)
    BY <1>2, TaskMoves DEF Moves, Changes, ShapeInv
  <2>2. JobsKept
    BY <1>1, <1>2, TaskKeeps
  <2>3. UNCHANGED <<listener, cleaned, preparing>>
    BY <1>2 DEF TaskStep, CheckEmptyMountpoint, StillSaved, StartService,
       ObserveStart, PersistOn, RestoreReady, PersistOff, CancelWarmup, WarmupCancelled, CleanDetach,
       StopService, RequireGone, RepairDetach, RepairGone, RepairReset, Others, sleepvars, gate
  <2> QED BY <1>2, <2>1, <2>2, <2>3, ChangesKeep, AsideKeeps, TaskLeavesClean
<1>3. CASE Completed(t)
  <2>1. UNCHANGED <<listener, cleaned, preparing, mount, unit>>
    BY <1>3 DEF Completed, sleepvars, gate, service
  <2> QED BY <1>1, <1>3, <2>1, TurnChanges, CompletedKeeps, ChangesKeep, AsideKeeps
         DEF CleanInv, Quiet, StaysQuiet
<1>4. CASE \/ Poll(t) \/ CancelForSleep(t) \/ StartRestore(t)
           \/ \E o \in {"Mount", "Unmount", "Repair"} : Request(t, o)
  <2>1. UNCHANGED <<listener, cleaned, preparing, mount, unit>> /\ UNCHANGED warmup
    BY <1>4 DEF Poll, CancelForSleep, StartRestore, Request, sleepvars, gate, service
  <2>2. Changes(t)
    BY <1>4, TurnChanges, RestoreChanges, RequestChanges
  <2> QED BY <1>1, <2>1, <2>2, IdleKeeps, ChangesKeep, AsideKeeps
         DEF CleanInv, Quiet, StaysQuiet
<1> QED BY <1>2, <1>3, <1>4

-----------------------------------------------------------------------------
(* Steps of the listener and of the environment *)

\* The listener leaves tasks and warm-ups alone.
LEMMA ListeningKeeps ==
  ASSUME ShapeInv, OpInv, WarmInv, UNCHANGED <<taskvars, warmup>>
  PROVE  ShapeInv' /\ OpInv' /\ WarmInv' /\ (NobodyAtGate <=> NobodyAtGate')
<1>1. ShapeInv'
  BY DEF ShapeInv, JobShape, taskvars, warmup
<1>2. OpInv'
  BY DEF OpInv, OpOf, taskvars
<1>3. WarmInv'
  BY DEF WarmInv, JobsTracked, PreloadReachable, Walking, warmup
<1>4. NobodyAtGate <=> NobodyAtGate'
  BY DEF NobodyAtGate, AtGate, JobAtGate, taskvars, warmup
<1> QED BY <1>1, <1>2, <1>3, <1>4

\* From the subscription to the start of a clean-up, and its end.
LEMMA GatePart ==
  ASSUME SleepInv,
         \/ Subscribe \/ ReadPreparing \/ GoingToSleep \/ IdleReached \/ IdleTimeout
         \/ CleanupReport \/ Wake \/ ListenFails \/ ListenerDropped
  PROVE  SleepInv'
<1> USE DEF SleepInv, Preparing, Awake, gate, service
<1>1. UNCHANGED <<taskvars, warmup>>
  BY DEF Subscribe, ReadPreparing, GoingToSleep, IdleReached, IdleTimeout, CleanupReport, Wake,
         ListenFails, ListenerDropped, Listening
<1>2. ShapeInv' /\ OpInv' /\ WarmInv' /\ (NobodyAtGate <=> NobodyAtGate')
  BY <1>1, ListeningKeeps
<1> USE DEF GateInv, CleanInv, Clean, Quiet
<1>3. CASE Subscribe \/ ReadPreparing \/ GoingToSleep
  BY <1>2, <1>3 DEF Subscribe, ReadPreparing, GoingToSleep
<1>4. CASE IdleReached
  <2>1. NobodyAtGate
    BY <1>4, CountZero DEF IdleReached
  <2> QED BY <1>2, <1>4, <2>1 DEF IdleReached
<1>5. CASE IdleTimeout \/ CleanupReport \/ Wake
  BY <1>2, <1>5 DEF IdleTimeout, CleanupReport, Wake
<1>6. CASE ListenFails \/ ListenerDropped
  BY <1>2, <1>6 DEF ListenFails, ListenerDropped
<1> QED BY <1>3, <1>4, <1>5, <1>6

\* The clean-up of the mount.
LEMMA CleanPart ==
  ASSUME SleepInv,
         \/ CleanInspect \/ CleanLook \/ CleanDetachFirst \/ CleanStop
         \/ CleanSettle \/ CleanSettled \/ CleanDeadline
  PROVE  SleepInv'
<1> USE DEF SleepInv, gate, service, CleanTo, Cleaning
<1>1. UNCHANGED <<taskvars, warmup>>
  BY DEF CleanInspect, CleanLook, CleanDetachFirst, CleanStop, CleanSettle,
         CleanSettled, CleanDeadline, Listening
<1>2. ShapeInv' /\ OpInv' /\ WarmInv' /\ (NobodyAtGate <=> NobodyAtGate')
  BY <1>1, ListeningKeeps
<1>3. listener = "cleaning" /\ listener' = listener /\ preparing' = preparing
  BY DEF CleanInspect, CleanLook, CleanDetachFirst, CleanStop, CleanSettle,
         CleanSettled, CleanDeadline
<1>4. GateInv'
  BY <1>2, <1>3 DEF GateInv
<1>5. CleanInv'
  BY <1>3 DEF CleanInspect, CleanLook, CleanDetachFirst, CleanStop, CleanSettle,
         CleanSettled, CleanDeadline, CleanInv, Clean, Quiet
<1> QED BY <1>2, <1>4, <1>5

\* logind, systemd and the user.
LEMMA EnvironmentPart ==
  ASSUME SleepInv,
         HostPrepare \/ HostSuspend \/ HostResume \/ ServiceStep \/ UserEdits \/ UserUses
  PROVE  SleepInv'
<1> USE DEF SleepInv
<1>1. UNCHANGED <<taskvars, warmup, listener, cleaned, preparing>>
  BY DEF HostPrepare, HostSuspend, HostResume, ServiceStep, UserEdits, UserUses, sleepvars, gate
<1>2. ShapeInv' /\ OpInv' /\ WarmInv' /\ (NobodyAtGate <=> NobodyAtGate')
  BY <1>1, ListeningKeeps
<1>3. ASSUME Quiet PROVE StaysQuiet
  <2>1. unit \in {"inactive", "failed"}
    BY <1>3 DEF CleanInv
  <2> QED BY <2>1
         DEF StaysQuiet, HostPrepare, HostSuspend, HostResume, ServiceStep, UserEdits, UserUses,
             service
<1> QED BY <1>1, <1>2, <1>3, AsideKeeps

-----------------------------------------------------------------------------
(* The theorems *)

\* Every step keeps the invariant.
LEMMA SleepStep == SleepInv /\ [Next]_vars => SleepInv'
<1> SUFFICES ASSUME SleepInv, [Next]_vars PROVE SleepInv'
  OBVIOUS
<1>1. CASE \E t \in Tasks : \/ Poll(t) \/ CancelForSleep(t) \/ TaskStep(t)
                            \/ StartRestore(t) \/ Completed(t)
                            \/ \E o \in {"Mount", "Unmount", "Repair"} : Request(t, o)
  BY <1>1, TaskPart
<1>2. CASE WarmupActive \/ WarmupStep
  <2>1. UNCHANGED <<taskvars, listener, cleaned, preparing, mount, unit>>
    BY <1>2 DEF WarmupActive, WarmupStep, sleepvars, gate, service
  <2>2. JobsKept
    BY <1>2, WarmupStepKeeps DEF SleepInv, ShapeInv
  <2>3. ShapeInv' /\ WarmInv'
    BY <2>1, <2>2 DEF SleepInv, JobsKept, ShapeInv, taskvars
  <2>4. OpInv'
    BY <2>1 DEF SleepInv, OpInv, OpOf, taskvars
  <2>5. preparing /\ NobodyAtGate => NobodyAtGate'
    BY <2>1, <2>2 DEF NobodyAtGate, AtGate, JobsKept, JobsStayOut, taskvars
  <2>6. GateInv' /\ CleanInv'
    BY <2>1, <2>5, AsideKeeps DEF SleepInv, CleanInv, StaysQuiet
  <2> QED BY <2>3, <2>4, <2>6 DEF SleepInv
<1>3. CASE ListenerStep \/ ListenFails \/ ListenerDropped
  BY <1>3, GatePart, CleanPart DEF ListenerStep
<1>4. CASE HostPrepare \/ HostSuspend \/ HostResume \/ ServiceStep \/ UserEdits \/ UserUses
  BY <1>4, EnvironmentPart
<1>5. CASE UNCHANGED vars
  <2>1. UNCHANGED <<taskvars, warmup, listener, cleaned, preparing, mount, unit>>
    BY <1>5 DEF vars, sleepvars, gate, service
  <2>2. ShapeInv' /\ OpInv' /\ WarmInv' /\ (NobodyAtGate <=> NobodyAtGate')
    BY <2>1, ListeningKeeps DEF SleepInv
  <2> QED BY <2>1, <2>2, AsideKeeps DEF SleepInv, CleanInv, StaysQuiet
<1> QED BY <1>1, <1>2, <1>3, <1>4, <1>5 DEF Next

\* The gate, the tasks, the warm-ups and the clean-up keep together under every
\* interleaving of operations, sleeps and failures.
THEOREM SleepInvariance == Spec => []SleepInv
<1>1. Init => SleepInv
  <2> SUFFICES ASSUME Init PROVE SleepInv
    OBVIOUS
  <2>1. MaxJobs \in Nat
    BY OnlineAssumption
  <2>2. ShapeInv
    BY <2>1 DEF Init, WarmupInit, ShapeInv, JobShape, TaskOps, TaskStages, JobStages
  <2>3. OpInv
    BY DEF Init, OpInv, OpOf, MountStages, UnmountStages, RepairStages
  <2>4. GateInv /\ CleanInv
    BY DEF Init, GateInv, CleanInv, Clean, Quiet
  <2>5. WarmInv
    BY DEF Init, WarmupInit, WarmInv, JobsTracked, PreloadReachable, Walking
  <2> QED BY <2>2, <2>3, <2>4, <2>5 DEF SleepInv
<1> QED BY <1>1, SleepStep, PTL DEF Spec

\* A clean-up never overtakes an operation or a warm-up at the gate
\* (CleanupAlone).
THEOREM CleansAlone == Spec => []CleanupAlone
<1>1. SleepInv => CleanupAlone
  BY CountZero DEF SleepInv, GateInv, CleanupAlone
<1> QED BY <1>1, SleepInvariance, PTL

\* What a clean-up reports without a failure, read in two awaited looks, is true
\* from the report to the wake-up (CleanSuspend).
THEOREM SuspendsClean == Spec => []CleanSuspend
<1>1. SleepInv => CleanSuspend
  BY DEF SleepInv, CleanInv, Clean, Quiet, CleanSuspend
<1> QED BY <1>1, SleepInvariance, PTL

\* No entry of the job maps is left without a job that will remove it
\* (JobsTracked).
THEOREM EntriesTracked == Spec => []JobsTracked
<1>1. SleepInv => JobsTracked
  BY DEF SleepInv, WarmInv
<1> QED BY <1>1, SleepInvariance, PTL

\* A child that walks the mount can be reached by Unmount, or is being
\* cancelled already (PreloadReachable).
THEOREM PreloadsReachable == Spec => []PreloadReachable
<1>1. SleepInv => PreloadReachable
  BY DEF SleepInv, WarmInv
<1> QED BY <1>1, SleepInvariance, PTL

-----------------------------------------------------------------------------
(* Requests to the owner of the runtime: the inductive invariant            *)

\* The states that record_operation_request works on
Decisions ==
  [armed : Armed \cup {None}, mirror : SUBSET Conns, repair : SUBSET Conns,
   tasks : [Conns -> [Ops -> Nat]], routed : [Conns -> (Ops \ {"Repair"}) \cup {None}],
   news : SUBSET Conns, streak : Series \cup {None}, displaced : SUBSET Conns]

\* An armed Repair that can still be confirmed is part of the series of presses.
Linked(s) ==
  s.armed # None /\ s.armed.age <= ConfirmMax =>
    s.streak # None /\ s.streak.conn = s.armed.conn /\ s.armed.age \in s.streak.ages

\* The second press comes in time.
Confirms(s, c) ==
  s.armed # None /\ s.armed.conn = c /\ s.armed.age \in ConfirmMin .. ConfirmMax

\* A routed request has been answered, runs, or waits among those not done yet.
Tracked(s, c, done) ==
  s.routed[c] # None /\ c \notin s.displaced =>
    \/ \E act \in Ops \ {"Repair"} : s.tasks[c][act] > 0
    \/ c \notin done /\ waiting[c] # None /\ waiting[c].op = s.routed[c]

\* The document and the processes around the owner
DocumentInv ==
  /\ stored \in [Conns -> Records] /\ config \in [Conns -> Records]
  /\ edits \in 0 .. MaxEdits
  /\ notify \in BOOLEAN /\ reloading \in BOOLEAN
  /\ client \in [Conns -> {"idle", "asked", "accepted"}]

\* The observation: no completion is missing from the latest one.
ViewInv ==
  /\ obs \in Observation \cup {None} /\ late \in Observation \cup {None}
  /\ cache \in Caches \cup {None}
  /\ obs # None => obs.behind = {}
  /\ cache # None => cache.behind = {}

\* The requests: one that waits finds room when it is decided.
RequestInv ==
  /\ waiting \in [Conns -> Requests \cup {None}]
  /\ tasks \in [Conns -> [Ops -> 0 .. MaxTasks + 1]]
  /\ State \in Decisions /\ Linked(State)
  /\ \A c \in Conns : Tracked(State, c, {})
  /\ \A c \in Conns, act \in Ops : waiting[c] # None => tasks[c][act] <= MaxTasks

RuntimeInv == DocumentInv /\ ViewInv /\ RequestInv

-----------------------------------------------------------------------------
(* One decision                                                             *)

\* What the decision on one request of c may do to the state it reads.
Decided(s, r, c, act) ==
  /\ r \in Decisions
  /\ \A d \in Conns, o \in Ops : r.tasks[d][o] \in {s.tasks[d][o], s.tasks[d][o] + 1}
  /\ \A d \in Conns \ {c} : r.tasks[d] = s.tasks[d] /\ r.routed[d] = s.routed[d]
  /\ \A d \in Conns \ {c} : d \in r.displaced <=> d \in s.displaced
  /\ r.routed[c] # None => r.routed[c] = s.routed[c] /\ r.displaced = s.displaced
  /\ r.routed[c] = act => r.tasks[c][act] > 0
  /\ r.tasks[c]["Repair"] > s.tasks[c]["Repair"] => Confirms(s, c)
  /\ r.armed = s.armed \/ r.armed = None \/ r.armed.age = 0
  /\ Linked(s) => Linked(r)

LEMMA NoneIsApart ==
  /\ None \notin Ops /\ None \notin Observation /\ None \notin Caches
  /\ None \notin Requests /\ None \notin Armed /\ None \notin Series
BY RuntimeAssumption

LEMMA Completes ==
  ASSUME NEW s \in Decisions, NEW c \in Conns, NEW act \in Ops
  PROVE  LET r == Complete(s, c, act)
         IN  /\ r \in Decisions
             /\ r.armed = s.armed /\ r.tasks = s.tasks /\ r.streak = s.streak
             /\ \A d \in Conns \ {c} : r.routed[d] = s.routed[d]
             /\ \A d \in Conns \ {c} : d \in r.displaced <=> d \in s.displaced
             /\ r.routed[c] # None => r.routed[c] = s.routed[c] /\ r.displaced = s.displaced
             /\ r.routed[c] # act
<1>1. CASE s.routed[c] # act
  BY <1>1 DEF Complete
<1>2. CASE s.routed[c] = act
  <2> DEFINE r == [s EXCEPT !.routed[c] = None, !.news = @ \cup {c}, !.displaced = @ \ {c}]
  <2>1. r \in Decisions
    BY DEF Decisions
  <2>2. /\ r.armed = s.armed /\ r.tasks = s.tasks /\ r.streak = s.streak
        /\ r.routed = [s.routed EXCEPT ![c] = None] /\ r.displaced = s.displaced \ {c}
    BY DEF Decisions
  <2>3. Complete(s, c, act) = r
    BY <1>2 DEF Complete
  <2> HIDE DEF r
  <2>4. s.routed \in [Conns -> (Ops \ {"Repair"}) \cup {None}]
    BY DEF Decisions
  <2>5. r.routed[c] = None /\ \A d \in Conns \ {c} : r.routed[d] = s.routed[d]
    BY <2>2, <2>4
  <2> QED BY <2>1, <2>2, <2>3, <2>5, NoneIsApart
<1> QED BY <1>1, <1>2

LEMMA Starting ==
  ASSUME NEW s \in Decisions, NEW c \in Conns, NEW act \in Ops
  PROVE  LET r == Start(s, c, act)
         IN  /\ r \in Decisions /\ r.armed = None /\ r.streak = None
             /\ r.tasks = [s.tasks EXCEPT ![c] = [s.tasks[c] EXCEPT ![act] = s.tasks[c][act] + 1]]
             /\ r.mirror = s.mirror /\ r.repair = s.repair /\ r.routed = s.routed
             /\ r.displaced = s.displaced
<1>1. s.tasks[c][act] + 1 \in Nat
  <2>1. s.tasks[c] \in [Ops -> Nat]
    BY DEF Decisions
  <2> QED BY <2>1
<1>2. ASSUME NEW n \in Nat
      PROVE  [s EXCEPT !.tasks[c][act] = n, !.armed = None, !.streak = None] \in Decisions
  BY DEF Decisions
<1>3. Start(s, c, act) \in Decisions
  BY <1>1, <1>2 DEF Start
<1>4. LET r == Start(s, c, act)
      IN  /\ r.armed = None /\ r.streak = None
          /\ r.tasks = [s.tasks EXCEPT ![c] = [s.tasks[c] EXCEPT ![act] = s.tasks[c][act] + 1]]
          /\ r.mirror = s.mirror /\ r.repair = s.repair /\ r.routed = s.routed
          /\ r.displaced = s.displaced
  BY DEF Start, Decisions
<1> QED BY <1>3, <1>4

\* What an operation that starts leaves of the state, whichever set of pending
\* operations it is added to.
LEMMA Started ==
  ASSUME NEW s \in Decisions, NEW c \in Conns, NEW act \in Ops, NEW r \in Decisions,
         r.armed = None,
         r.tasks = [s.tasks EXCEPT ![c] = [s.tasks[c] EXCEPT ![act] = s.tasks[c][act] + 1]],
         r.routed = s.routed, r.displaced = s.displaced,
         act = "Repair" => Confirms(s, c)
  PROVE  Decided(s, r, c, act)
<1>1. /\ s.tasks \in [Conns -> [Ops -> Nat]] /\ r.tasks \in [Conns -> [Ops -> Nat]]
      /\ r.routed \in [Conns -> (Ops \ {"Repair"}) \cup {None}]
  BY DEF Decisions
<1>2. \A d \in Conns \ {c} : r.tasks[d] = s.tasks[d]
  BY <1>1
<1>3. \A o \in Ops : r.tasks[c][o] = IF o = act THEN s.tasks[c][o] + 1 ELSE s.tasks[c][o]
  BY <1>1
<1>4. \A d \in Conns, o \in Ops : s.tasks[d][o] \in Nat /\ r.tasks[d][o] \in Nat
  BY <1>1
<1>5. \A d \in Conns, o \in Ops : r.tasks[d][o] \in {s.tasks[d][o], s.tasks[d][o] + 1}
  BY <1>2, <1>3
<1>6. r.tasks[c][act] > 0
  BY <1>3, <1>4
<1>7. r.tasks[c]["Repair"] > s.tasks[c]["Repair"] => Confirms(s, c)
  BY <1>3, <1>4, RuntimeAssumption
<1>8. Linked(r)
  BY DEF Linked
<1> QED BY <1>2, <1>5, <1>6, <1>7, <1>8 DEF Decided

\* What a decision that starts nothing leaves of the state.
LEMMA Unstarted ==
  ASSUME NEW s \in Decisions, NEW c \in Conns, NEW act \in Ops, NEW r \in Decisions,
         r.armed = s.armed \/ r.armed.age = 0, r.tasks = s.tasks,
         Linked(s) => Linked(r),
         \A d \in Conns \ {c} : r.routed[d] = s.routed[d],
         \A d \in Conns \ {c} : d \in r.displaced <=> d \in s.displaced,
         r.routed[c] # None => r.routed[c] = s.routed[c] /\ r.displaced = s.displaced,
         r.routed[c] # act
  PROVE  Decided(s, r, c, act)
<1>1. \A d \in Conns, o \in Ops : s.tasks[d][o] \in Nat
  <2>1. s.tasks \in [Conns -> [Ops -> Nat]]
    BY DEF Decisions
  <2> QED BY <2>1
<1>2. \A d \in Conns, o \in Ops : r.tasks[d][o] \in {s.tasks[d][o], s.tasks[d][o] + 1}
  OBVIOUS
<1>3. ~ (r.tasks[c]["Repair"] > s.tasks[c]["Repair"])
  BY <1>1, RuntimeAssumption
<1> QED BY <1>2, <1>3 DEF Decided

LEMMA DecidesRepair ==
  ASSUME NEW s \in Decisions, NEW c \in Conns
  PROVE  Decided(s, DecideRepair(s, c), c, "Repair")
<1>0. "Repair" \in Ops
  BY RuntimeAssumption
<1>1. CASE Confirmation(s.armed, c) = "Confirm"
  <2> DEFINE q == Start(s, c, "Repair")
             r == [q EXCEPT !.repair = @ \cup {c}]
  <2>1. /\ q \in Decisions /\ q.armed = None
        /\ q.tasks = [s.tasks EXCEPT ![c] =
                        [s.tasks[c] EXCEPT !["Repair"] = s.tasks[c]["Repair"] + 1]]
        /\ q.routed = s.routed /\ q.displaced = s.displaced
    BY <1>0, Starting
  <2> HIDE DEF q
  <2>2. /\ r \in Decisions /\ r.armed = q.armed /\ r.tasks = q.tasks
        /\ r.routed = q.routed /\ r.displaced = q.displaced
    BY <2>1 DEF Decisions
  <2>3. DecideRepair(s, c) = r
    BY <1>1 DEF DecideRepair, q
  <2>4. Confirms(s, c)
    BY <1>1 DEF Confirmation, Confirms
  <2> HIDE DEF r
  <2> QED BY <1>0, <2>1, <2>2, <2>3, <2>4, Started
<1>2. CASE Confirmation(s.armed, c) # "Confirm"
  <2> DEFINE a == IF Confirmation(s.armed, c) = "Arm" THEN [conn |-> c, age |-> 0]
                  ELSE s.armed
             q == [s EXCEPT !.streak = Pressed(s.streak, c), !.armed = a]
             r == Complete(q, c, "Repair")
  <2>1. Pressed(s.streak, c) \in Series /\ a \in Armed \cup {None}
    BY RuntimeAssumption DEF Pressed, Series, Armed, Decisions
  <2>3. /\ q \in Decisions /\ q.streak = Pressed(s.streak, c) /\ q.armed = a
        /\ q.tasks = s.tasks /\ q.routed = s.routed /\ q.displaced = s.displaced
    <3> DEFINE x == Pressed(s.streak, c)
    <3>1. x \in Series /\ a \in Armed \cup {None}
      BY <2>1
    <3>2. q = [s EXCEPT !.streak = x, !.armed = a]
      OBVIOUS
    <3> HIDE DEF a, q, x
    <3>3. /\ q \in Decisions /\ q.streak = x /\ q.armed = a
          /\ q.tasks = s.tasks /\ q.routed = s.routed /\ q.displaced = s.displaced
      BY <3>1, <3>2 DEF Decisions
    <3> QED BY <3>3 DEF x
  <2>4. DecideRepair(s, c) = r
    BY <1>2 DEF DecideRepair
  <2>5. Linked(s) => Linked(q)
    <3>1. CASE Confirmation(s.armed, c) = "Arm"
      <4>1. a = [conn |-> c, age |-> 0]
        BY <3>1
      <4> HIDE DEF a, q
      <4> QED BY <2>1, <2>3, <4>1, NoneIsApart DEF Linked, Pressed
    <3>2. CASE Confirmation(s.armed, c) # "Arm"
      <4>1. a = s.armed /\ s.armed # None /\ s.armed.conn = c
        BY <3>2 DEF Confirmation
      <4> HIDE DEF a, q
      <4> SUFFICES ASSUME Linked(s), s.armed.age <= ConfirmMax
                   PROVE  q.streak.conn = c /\ s.armed.age \in q.streak.ages /\ q.streak # None
        BY <2>3, <4>1 DEF Linked
      <4>2. s.streak # None /\ s.streak.conn = c /\ s.armed.age \in s.streak.ages
        BY <4>1 DEF Linked
      <4> QED BY <2>1, <2>3, <4>2, NoneIsApart DEF Pressed
    <3> QED BY <3>1, <3>2
  <2>6. a = s.armed \/ a.age = 0
    OBVIOUS
  <2> HIDE DEF q, a
  <2>7. /\ r \in Decisions
        /\ r.armed = q.armed /\ r.tasks = q.tasks /\ r.streak = q.streak
        /\ \A d \in Conns \ {c} : r.routed[d] = q.routed[d]
        /\ \A d \in Conns \ {c} : d \in r.displaced <=> d \in q.displaced
        /\ r.routed[c] # None => r.routed[c] = q.routed[c] /\ r.displaced = q.displaced
        /\ r.routed[c] # "Repair"
    BY <1>0, <2>3, Completes
  <2> HIDE DEF r
  <2>8. Linked(s) => Linked(r)
    BY <2>5, <2>7 DEF Linked
  <2>9. /\ r.armed = s.armed \/ r.armed.age = 0
        /\ r.tasks = s.tasks
        /\ \A d \in Conns \ {c} : r.routed[d] = s.routed[d]
        /\ \A d \in Conns \ {c} : d \in r.displaced <=> d \in s.displaced
        /\ r.routed[c] # None => r.routed[c] = s.routed[c] /\ r.displaced = s.displaced
    BY <2>3, <2>6, <2>7
  <2> QED BY <1>0, <2>4, <2>7, <2>8, <2>9, Unstarted
<1> QED BY <1>1, <1>2

\* record_operation_request, whatever the cache and the document say
LEMMA Decides ==
  ASSUME NEW s \in Decisions, NEW k, NEW doc, NEW c \in Conns, NEW act \in Ops
  PROVE  LET r == Decide(s, k, doc, c, act)
         IN  /\ Decided(s, r, c, act)
             /\ doc[c] = Gone => r.tasks = s.tasks
<1> DEFINE admitted == Allowed(s, k, doc, c, act)
<1>1. CASE ~admitted \/ c \in s.repair
  <2> DEFINE r == Complete(s, c, act)
  <2>1. Decide(s, k, doc, c, act) = r
    BY <1>1 DEF Decide
  <2>2. /\ r \in Decisions
        /\ r.armed = s.armed /\ r.tasks = s.tasks /\ r.streak = s.streak
        /\ \A d \in Conns \ {c} : r.routed[d] = s.routed[d]
        /\ \A d \in Conns \ {c} : d \in r.displaced <=> d \in s.displaced
        /\ r.routed[c] # None => r.routed[c] = s.routed[c] /\ r.displaced = s.displaced
        /\ r.routed[c] # act
    BY Completes
  <2> HIDE DEF r
  <2>3. Linked(s) => Linked(r)
    BY <2>2 DEF Linked
  <2>4. Decided(s, r, c, act)
    BY <2>2, <2>3, Unstarted
  <2> QED BY <2>1, <2>2, <2>4
<1>2. CASE admitted /\ c \notin s.repair /\ act = "Repair"
  <2>1. Decide(s, k, doc, c, act) = DecideRepair(s, c)
    BY <1>2 DEF Decide
  <2>2. doc[c] # Gone
    BY <1>2 DEF Allowed
  <2> QED BY <1>2, <2>1, <2>2, DecidesRepair
<1>3. CASE admitted /\ c \notin s.repair /\ act # "Repair"
  <2> DEFINE q == Start(s, c, act)
             r == [q EXCEPT !.mirror = @ \cup {c}]
  <2>1. /\ q \in Decisions /\ q.armed = None
        /\ q.tasks = [s.tasks EXCEPT ![c] = [s.tasks[c] EXCEPT ![act] = s.tasks[c][act] + 1]]
        /\ q.routed = s.routed /\ q.displaced = s.displaced
    BY Starting
  <2>2. Decide(s, k, doc, c, act) = r
    BY <1>3 DEF Decide
  <2> HIDE DEF q
  <2>3. /\ r \in Decisions /\ r.armed = q.armed /\ r.tasks = q.tasks
        /\ r.routed = q.routed /\ r.displaced = q.displaced
    BY <2>1 DEF Decisions
  <2>4. doc[c] # Gone
    BY <1>3 DEF Allowed
  <2> HIDE DEF r
  <2>5. Decided(s, r, c, act)
    BY <1>3, <2>1, <2>3, Started
  <2> QED BY <2>2, <2>4, <2>5
<1> QED BY <1>1, <1>2, <1>3

LEMMA Answers ==
  ASSUME NEW s \in Decisions, NEW k, NEW c \in Conns, waiting[c].op \in Ops
  PROVE  Decided(s, Answer(s, k, c), c, waiting[c].op)
<1>1. CASE UnitStatusFresh(k, config, c) /\ config[c] = waiting[c].rec
  BY <1>1, Decides DEF Answer
<1>2. CASE ~ (UnitStatusFresh(k, config, c) /\ config[c] = waiting[c].rec)
  <2> DEFINE r == Complete(s, c, waiting[c].op)
  <2>1. Answer(s, k, c) = r
    BY <1>2 DEF Answer
  <2>2. /\ r \in Decisions
        /\ r.armed = s.armed /\ r.tasks = s.tasks /\ r.streak = s.streak
        /\ \A d \in Conns \ {c} : r.routed[d] = s.routed[d]
        /\ \A d \in Conns \ {c} : d \in r.displaced <=> d \in s.displaced
        /\ r.routed[c] # None => r.routed[c] = s.routed[c] /\ r.displaced = s.displaced
        /\ r.routed[c] # waiting[c].op
    BY Completes
  <2> HIDE DEF r
  <2>3. Linked(s) => Linked(r)
    BY <2>2 DEF Linked
  <2> QED BY <2>1, <2>2, <2>3, Unstarted
<1> QED BY <1>1, <1>2

-----------------------------------------------------------------------------
(* The replay of the waiting requests                                       *)

LEMMA Least ==
  ASSUME NEW T, T \subseteq Nat, T # {}
  PROVE  \E m \in T : \A n \in T : m <= n
<1>1. \E m \in T : \A n \in T : ~ (<<n, m>> \in OpToRel(<, Nat))
  BY NatLessThanWellFounded, WFMin
<1>2. ASSUME NEW m \in T, NEW n \in T, n < m
      PROVE  <<n, m>> \in OpToRel(<, Nat)
  BY <1>2 DEF OpToRel
<1>3. \E m \in T : \A n \in T : ~ (n < m)
  BY <1>1, <1>2
<1> QED BY <1>3

\* The replay is a chain of answers, one for each request of the queue.
LEMMA ReplayIsAChain ==
  ASSUME NEW s, NEW k, NEW q, Len(q) \in Nat
  PROVE  \E f : /\ f[0] = s
                /\ \A i \in 1 .. Len(q) : f[i] = Answer(f[i - 1], k, q[i])
                /\ Replay(s, k, q) = f[Len(q)]
<1> DEFINE IsChain(f, n) ==
             f = [i \in 0 .. n |-> IF i = 0 THEN s ELSE Answer(f[i - 1], k, q[i])]
           Bad == {n \in Nat : ~ \E f : IsChain(f, n)}
<1>1. \E f : IsChain(f, 0)
  <2> DEFINE g == [i \in 0 .. 0 |-> s]
  <2>1. IsChain(g, 0)
    OBVIOUS
  <2> QED BY <2>1
<1>2. ASSUME NEW n \in Nat, NEW f, IsChain(f, n)
      PROVE  \E g : IsChain(g, n + 1)
  <2> DEFINE g == [i \in 0 .. (n + 1) |-> IF i = n + 1 THEN Answer(f[n], k, q[n + 1])
                                          ELSE f[i]]
  <2>1. \A i \in 0 .. (n + 1) : g[i] = IF i = 0 THEN s ELSE Answer(g[i - 1], k, q[i])
    <3> SUFFICES ASSUME NEW i \in 0 .. (n + 1)
                 PROVE  g[i] = IF i = 0 THEN s ELSE Answer(g[i - 1], k, q[i])
      OBVIOUS
    <3>1. CASE i = n + 1
      BY <3>1
    <3>2. CASE i # n + 1
      <4>1. i \in 0 .. n /\ g[i] = f[i] /\ (i # 0 => g[i - 1] = f[i - 1])
        BY <3>2
      <4>2. f[i] = IF i = 0 THEN s ELSE Answer(f[i - 1], k, q[i])
        BY <1>2, <4>1
      <4> QED BY <4>1, <4>2
    <3> QED BY <3>1, <3>2
  <2>2. g = [i \in 0 .. (n + 1) |-> g[i]]
    OBVIOUS
  <2>3. IsChain(g, n + 1)
    <3> HIDE DEF g
    <3> QED BY <2>1, <2>2
  <2> QED BY <2>3
<1>3. Bad = {}
  <2> HIDE DEF IsChain
  <2> SUFFICES ASSUME Bad # {} PROVE FALSE
    OBVIOUS
  <2>1. PICK m \in Bad : \A n \in Bad : m <= n
    BY Least
  <2>2. m # 0
    BY <1>1, <2>1
  <2>3. m - 1 \in Nat /\ m - 1 \notin Bad /\ m = (m - 1) + 1
    BY <2>1, <2>2
  <2>4. PICK f : IsChain(f, m - 1)
    BY <2>3
  <2> QED BY <1>2, <2>1, <2>3, <2>4
<1> DEFINE chain == CHOOSE f : IsChain(f, Len(q))
<1>4. IsChain(chain, Len(q))
  <2> HIDE DEF IsChain
  <2> QED BY <1>3
<1>5. Replay(s, k, q) = chain[Len(q)]
  BY DEF Replay
<1> HIDE DEF chain
<1>6. /\ chain[0] = s
      /\ \A i \in 1 .. Len(q) : chain[i] = Answer(chain[i - 1], k, q[i])
  BY <1>4
<1> QED BY <1>5, <1>6

\* What has become of the state s once the requests of done were answered.
Replayed(s, r, done) ==
  /\ r \in Decisions /\ Linked(r)
  /\ \A c \in Conns : Tracked(r, c, done)
  /\ \A c \in Conns, act \in Ops : r.tasks[c][act] \in {s.tasks[c][act], s.tasks[c][act] + 1}
  /\ \A c \in Conns \ done : r.tasks[c] = s.tasks[c]
  /\ \A c \in Conns : r.tasks[c]["Repair"] > s.tasks[c]["Repair"] => Confirms(s, c)
  /\ r.armed = s.armed \/ r.armed = None \/ r.armed.age = 0

LEMMA OneMoreAnswered ==
  ASSUME NEW s \in Decisions, NEW r, NEW done, NEW k, NEW c \in Conns \ done,
         Replayed(s, r, done), waiting[c].op \in Ops
  PROVE  Replayed(s, Answer(r, k, c), done \cup {c})
<1> DEFINE t == Answer(r, k, c)
           act == waiting[c].op
<1>1. r \in Decisions
  BY DEF Replayed
<1>2. Decided(r, t, c, act)
  BY <1>1, Answers
<1> HIDE DEF t
<1>3. t \in Decisions /\ Linked(t)
  BY <1>2 DEF Decided, Replayed
<1>4. /\ r.tasks \in [Conns -> [Ops -> Nat]] /\ t.tasks \in [Conns -> [Ops -> Nat]]
      /\ s.tasks \in [Conns -> [Ops -> Nat]]
      /\ r.routed \in [Conns -> (Ops \ {"Repair"}) \cup {None}]
      /\ t.routed \in [Conns -> (Ops \ {"Repair"}) \cup {None}]
  BY <1>1, <1>3 DEF Decisions
<1>5. ASSUME NEW d \in Conns PROVE Tracked(t, d, done \cup {c})
  <2> SUFFICES ASSUME t.routed[d] # None, d \notin t.displaced
               PROVE  \/ \E o \in Ops \ {"Repair"} : t.tasks[d][o] > 0
                      \/ /\ d \notin done \cup {c} /\ waiting[d] # None
                         /\ waiting[d].op = t.routed[d]
    BY DEF Tracked
  <2>1. \A o \in Ops : r.tasks[d][o] > 0 => t.tasks[d][o] > 0
    <3> SUFFICES ASSUME NEW o \in Ops, r.tasks[d][o] > 0 PROVE t.tasks[d][o] > 0
      OBVIOUS
    <3>1. t.tasks[d][o] \in {r.tasks[d][o], r.tasks[d][o] + 1} /\ r.tasks[d][o] \in Nat
      BY <1>2, <1>4 DEF Decided
    <3> QED BY <3>1
  <2>2. t.routed[d] = r.routed[d] /\ d \notin r.displaced
    BY <1>2 DEF Decided
  <2>3. \/ \E o \in Ops \ {"Repair"} : r.tasks[d][o] > 0
        \/ d \notin done /\ waiting[d] # None /\ waiting[d].op = r.routed[d]
    BY <2>2 DEF Replayed, Tracked
  <2>4. CASE d = c /\ waiting[d].op = r.routed[d]
    <3>1. t.tasks[c][act] > 0 /\ act \in Ops \ {"Repair"}
      BY <1>2, <1>4, <2>2, <2>4, NoneIsApart DEF Decided
    <3> QED BY <2>4, <3>1
  <2> QED BY <2>1, <2>2, <2>3, <2>4
<1>6. /\ \A d \in Conns \ {c} : t.tasks[d] = r.tasks[d]
      /\ r.tasks[c] = s.tasks[c]
  BY <1>2 DEF Decided, Replayed
<1>7. \A d \in Conns, o \in Ops : t.tasks[d][o] \in {s.tasks[d][o], s.tasks[d][o] + 1}
  <2> SUFFICES ASSUME NEW d \in Conns, NEW o \in Ops
               PROVE  t.tasks[d][o] \in {s.tasks[d][o], s.tasks[d][o] + 1}
    OBVIOUS
  <2>1. CASE d = c
    BY <1>2, <1>6, <2>1 DEF Decided
  <2>2. CASE d # c
    BY <1>6, <2>2 DEF Replayed
  <2> QED BY <2>1, <2>2
<1>8. ASSUME NEW d \in Conns, t.tasks[d]["Repair"] > s.tasks[d]["Repair"]
      PROVE  Confirms(s, d)
  <2>1. CASE d # c
    BY <1>6, <1>8, <2>1 DEF Replayed
  <2>2. CASE d = c
    <3>1. Confirms(r, c)
      BY <1>2, <1>6, <1>8, <2>2 DEF Decided
    <3>2. r.armed = s.armed
      BY <3>1, RuntimeAssumption DEF Confirms, Replayed
    <3> QED BY <2>2, <3>1, <3>2 DEF Confirms
  <2> QED BY <2>1, <2>2
<1>9. t.armed = s.armed \/ t.armed = None \/ t.armed.age = 0
  BY <1>2 DEF Decided, Replayed
<1>10. \A d \in Conns \ (done \cup {c}) : t.tasks[d] = s.tasks[d]
  BY <1>6 DEF Replayed
<1> QED BY <1>3, <1>5, <1>7, <1>8, <1>9, <1>10 DEF Replayed, t

\* A queue of the waiting connections holds each of them once.
LEMMA QueueIsAll ==
  ASSUME NEW q \in SetToSeqs(Queued)
  PROVE  /\ Len(q) \in Nat
         /\ \A i \in 1 .. Len(q) : q[i] \in Queued
         /\ \A i, j \in 1 .. Len(q) : i # j => q[i] # q[j]
         /\ \A c \in Queued : \E i \in 1 .. Len(q) : q[i] = c
<1> DEFINE n == Cardinality(Queued)
<1>1. IsFiniteSet(Queued)
  BY FS_Subset, RuntimeAssumption DEF Queued
<1>2. n \in Nat
  BY <1>1, FS_CardinalityType
<1>3. q \in [1 .. n -> Queued] /\ \A i, j \in 1 .. n : i # j => q[i] # q[j]
  BY DEF SetToSeqs
<1>4. q \in Injection(1 .. n, Queued)
  BY <1>3 DEF Injection, IsInjective
<1>5. Cardinality(1 .. n) = n
  BY <1>2, FS_Interval
<1>6. q \in Surjection(1 .. n, Queued)
  BY <1>1, <1>4, <1>5, FS_Injection
<1>7. \A c \in Queued : \E i \in 1 .. n : q[i] = c
  BY <1>6 DEF Surjection
<1>8. Len(q) = n
  BY <1>2, <1>3
<1> QED BY <1>2, <1>3, <1>7, <1>8

LEMMA Replays ==
  ASSUME RuntimeInv, NEW k, NEW q \in SetToSeqs(Queued)
  PROVE  Replayed(State, Replay(State, k, q), Queued)
<1> DEFINE done(i) == {q[j] : j \in 1 .. i}
<1>1. /\ Len(q) \in Nat
      /\ \A i \in 1 .. Len(q) : q[i] \in Queued
      /\ \A i, j \in 1 .. Len(q) : i # j => q[i] # q[j]
      /\ \A c \in Queued : \E i \in 1 .. Len(q) : q[i] = c
  BY QueueIsAll
<1>2. PICK f : /\ f[0] = State
               /\ \A i \in 1 .. Len(q) : f[i] = Answer(f[i - 1], k, q[i])
               /\ Replay(State, k, q) = f[Len(q)]
  BY <1>1, ReplayIsAChain
<1> DEFINE Bad == {i \in 0 .. Len(q) : ~ Replayed(State, f[i], done(i))}
<1>3. State \in Decisions
  BY DEF RuntimeInv, RequestInv
<1>4. Replayed(State, f[0], done(0))
  <2>1. done(0) = {}
    OBVIOUS
  <2>2. \A c \in Conns, act \in Ops : ~ (State.tasks[c][act] > State.tasks[c][act])
    <3>1. State.tasks \in [Conns -> [Ops -> Nat]]
      BY <1>3 DEF Decisions
    <3> QED BY <3>1
  <2>3. Linked(State) /\ \A c \in Conns : Tracked(State, c, {})
    BY DEF RuntimeInv, RequestInv
  <2> HIDE DEF done
  <2> QED BY <1>2, <1>3, <2>1, <2>2, <2>3, RuntimeAssumption DEF Replayed
<1>5. ASSUME NEW i \in 1 .. Len(q), Replayed(State, f[i - 1], done(i - 1))
      PROVE  Replayed(State, f[i], done(i))
  <2>1. q[i] \in Conns \ done(i - 1) /\ waiting[q[i]].op \in Ops
    <3>1. q[i] \in Conns /\ waiting[q[i]] # None
      BY <1>1 DEF Queued
    <3>2. waiting[q[i]].op \in Ops
      BY <3>1 DEF RuntimeInv, RequestInv, Requests
    <3>3. q[i] \notin done(i - 1)
      BY <1>1
    <3> QED BY <3>1, <3>2, <3>3
  <2>2. done(i) = done(i - 1) \cup {q[i]}
    BY <1>1
  <2>3. f[i] = Answer(f[i - 1], k, q[i])
    BY <1>2
  <2> HIDE DEF done
  <2> QED BY <1>3, <1>5, <2>1, <2>2, <2>3, OneMoreAnswered
<1>6. Bad = {}
  <2> HIDE DEF done
  <2> SUFFICES ASSUME Bad # {} PROVE FALSE
    OBVIOUS
  <2>1. Bad \subseteq Nat
    BY <1>1
  <2>2. PICK m \in Bad : \A i \in Bad : m <= i
    BY <2>1, Least
  <2>3. m # 0
    BY <1>4, <2>2
  <2>4. m \in 1 .. Len(q) /\ m - 1 \in 0 .. Len(q) /\ m - 1 \notin Bad
    BY <1>1, <2>2, <2>3
  <2>5. Replayed(State, f[m - 1], done(m - 1))
    BY <2>4
  <2>6. Replayed(State, f[m], done(m))
    BY <1>5, <2>4, <2>5
  <2> QED BY <2>2, <2>6
<1>7. Replayed(State, f[Len(q)], done(Len(q)))
  <2> HIDE DEF done
  <2> QED BY <1>1, <1>6
<1>8. done(Len(q)) = Queued
  BY <1>1
<1> HIDE DEF done
<1> QED BY <1>2, <1>7, <1>8

-----------------------------------------------------------------------------
(* Every step keeps the invariant and starts only what it may               *)

FreshStep ==
  \A c \in Conns, o \in Ops : Starts(c, o) =>
    cache' # None /\ c \notin cache'.behind /\ cache'.cfg = config'

ConfirmedStep ==
  \A c \in Conns : Starts(c, "Repair") =>
    /\ streak # None /\ streak.conn = c
    /\ streak.ages \cap (ConfirmMin .. ConfirmMax) # {}

LEMMA ConfirmsASeries ==
  ASSUME RequestInv, NEW c \in Conns, Confirms(State, c)
  PROVE  /\ streak # None /\ streak.conn = c
         /\ streak.ages \cap (ConfirmMin .. ConfirmMax) # {}
BY RuntimeAssumption DEF RequestInv, Linked, Confirms, State

LEMMA NothingStarts ==
  ASSUME RequestInv, tasks' = tasks
  PROVE  FreshStep /\ ConfirmedStep
<1>1. \A c \in Conns, act \in Ops : tasks[c][act] \in Nat
  <2>1. tasks \in [Conns -> [Ops -> 0 .. MaxTasks + 1]]
    BY DEF RequestInv
  <2> QED BY <2>1, RuntimeAssumption
<1>2. \A c \in Conns, act \in Ops : ~ Starts(c, act)
  BY <1>1 DEF Starts
<1> QED BY <1>2, RuntimeAssumption DEF FreshStep, ConfirmedStep

LEMMA NewObservationType ==
  ASSUME NEW doc \in [Conns -> Records]
  PROVE  /\ NewObservation(doc) \in Observation /\ NewObservation(doc) # None
         /\ NewObservation(doc).behind = {}
<1>1. NewObservation(doc) \in Observation /\ NewObservation(doc).behind = {}
  BY DEF NewObservation, Observation
<1> QED BY <1>1, NoneIsApart

LEMMA Refreshed ==
  ASSUME ViewInv, NEW doc \in [Conns -> Records], NEW force, Refresh(force, doc)
  PROVE  ViewInv'
<1>1. CASE obs # None /\ ~force
  BY <1>1 DEF ViewInv, Refresh, obsVars
<1>2. CASE ~ (obs # None /\ ~force)
  <2>1. obs' = NewObservation(doc) /\ late' \in Superseded /\ cache' \in {None, cache}
    BY <1>2 DEF Refresh
  <2>2. late' \in Observation \cup {None}
    BY <2>1 DEF ViewInv, Superseded
  <2>3. obs' \in Observation /\ obs'.behind = {}
    BY <2>1, NewObservationType
  <2>4. cache' \in Caches \cup {None} /\ (cache' # None => cache'.behind = {})
    BY <2>1 DEF ViewInv
  <2> QED BY <2>2, <2>3, <2>4 DEF ViewInv
<1> QED BY <1>1, <1>2

\* The state that a decision leaves is that of the next state.
LEMMA BecomesKept ==
  ASSUME NEW r \in Decisions, Becomes(r), Linked(r),
         waiting' \in [Conns -> Requests \cup {None}],
         \A c \in Conns, act \in Ops :
           /\ r.tasks[c][act] <= MaxTasks + 1
           /\ waiting'[c] # None => r.tasks[c][act] <= MaxTasks,
         \A c \in Conns : r.routed[c] # None /\ c \notin r.displaced =>
           \/ \E act \in Ops \ {"Repair"} : r.tasks[c][act] > 0
           \/ waiting'[c] # None /\ waiting'[c].op = r.routed[c]
  PROVE  RequestInv'
<1>1. State' \in Decisions
  BY DEF Becomes, Decisions, State
<1>2. Linked(State)'
  BY DEF Becomes, Linked, State
<1>3. \A c \in Conns : Tracked(State, c, {})'
  BY DEF Becomes, Tracked, State
<1>4. tasks' \in [Conns -> [Ops -> 0 .. MaxTasks + 1]]
  <2>1. tasks' = r.tasks /\ r.tasks \in [Conns -> [Ops -> Nat]]
    BY DEF Becomes, Decisions
  <2>2. ASSUME NEW c \in Conns, NEW act \in Ops PROVE tasks'[c][act] \in 0 .. MaxTasks + 1
    <3>1. r.tasks[c][act] \in Nat /\ r.tasks[c][act] <= MaxTasks + 1
      BY <2>1
    <3> QED BY <2>1, <3>1, RuntimeAssumption
  <2>3. \A c \in Conns : tasks'[c] \in [Ops -> 0 .. MaxTasks + 1]
    BY <2>1, <2>2
  <2> QED BY <2>1, <2>3
<1>5. \A c \in Conns, act \in Ops : waiting'[c] # None => tasks'[c][act] <= MaxTasks
  BY DEF Becomes
<1> QED BY <1>1, <1>2, <1>3, <1>4, <1>5 DEF RequestInv

LEMMA RequestsKept ==
  ASSUME RequestInv, UNCHANGED <<waiting, decideVars>>
  PROVE  RequestInv' /\ FreshStep /\ ConfirmedStep
<1>1. State' = State
  BY DEF State, decideVars
<1>2. tasks' = tasks /\ waiting' = waiting
  BY DEF decideVars
<1>3. Linked(State)' /\ \A c \in Conns : Tracked(State, c, {})'
  BY <1>1, <1>2 DEF RequestInv, Linked, Tracked
<1>4. RequestInv'
  BY <1>1, <1>2, <1>3 DEF RequestInv
<1> QED BY <1>2, <1>4, NothingStarts

LEMMA Accepted ==
  ASSUME RuntimeInv, NEW o \in Observation, o.behind = {}, Accept(o), config' = config,
         late' \in Observation \cup {None}
  PROVE  ViewInv' /\ RequestInv' /\ FreshStep /\ ConfirmedStep
<1>0. config \in [Conns -> Records] /\ ViewInv /\ RequestInv
  BY DEF RuntimeInv, DocumentInv
<1>1. CASE o.cfg # config
  <2>1. obs' = NewObservation(config) /\ cache' = None /\ UNCHANGED <<waiting, decideVars>>
    BY <1>1 DEF Accept
  <2>2. ViewInv'
    BY <1>0, <2>1, NewObservationType DEF ViewInv
  <2> QED BY <1>0, <2>1, <2>2, RequestsKept
<1>2. CASE o.cfg = config
  <2>1. PICK shown \in [Conns -> Statuses \cup {Unknown}] :
             /\ cache' = Cached(o, shown) /\ obs' = None
             /\ waiting' = [c \in Conns |-> None]
             /\ \E queue \in SetToSeqs(Queued) :
                  Becomes(Replay(State, Cached(o, shown), queue))
    BY <1>2 DEF Accept
  <2>2. PICK queue \in SetToSeqs(Queued) : Becomes(Replay(State, Cached(o, shown), queue))
    BY <2>1
  <2> DEFINE r == Replay(State, Cached(o, shown), queue)
  <2>3. Replayed(State, r, Queued)
    BY Replays
  <2>4. Becomes(r)
    BY <2>2
  <2> HIDE DEF r
  <2>5. /\ cache' \in Caches /\ cache'.behind = {} /\ cache'.cfg = config'
        /\ cache' # None
    <3>1. Cached(o, shown) \in Caches
      BY RuntimeAssumption DEF Cached, Caches, Observation
    <3>2. Cached(o, shown).behind = {} /\ Cached(o, shown).cfg = config
      BY <1>2 DEF Cached
    <3> QED BY <2>1, <3>1, <3>2, NoneIsApart
  <2>6. ViewInv'
    BY <2>1, <2>5 DEF ViewInv
  <2>7. r \in Decisions /\ Linked(r)
    BY <2>3 DEF Replayed
  <2>8. /\ tasks \in [Conns -> [Ops -> 0 .. MaxTasks + 1]] /\ State.tasks = tasks
        /\ r.tasks \in [Conns -> [Ops -> Nat]]
    BY <1>0, <2>7 DEF RequestInv, State, Decisions
  <2>9. ASSUME NEW c \in Conns, NEW act \in Ops PROVE r.tasks[c][act] <= MaxTasks + 1
    <3>1. tasks[c][act] \in 0 .. MaxTasks + 1
      BY <2>8
    <3>2. CASE c \in Queued
      <4>1. tasks[c][act] <= MaxTasks
        BY <1>0, <3>2 DEF RequestInv, Queued
      <4>2. r.tasks[c][act] \in {tasks[c][act], tasks[c][act] + 1}
        BY <2>3, <2>8 DEF Replayed
      <4> QED BY <3>1, <4>1, <4>2, RuntimeAssumption
    <3>3. CASE c \notin Queued
      BY <2>3, <2>8, <3>1, <3>3, RuntimeAssumption DEF Replayed
    <3> QED BY <3>2, <3>3
  <2>10. ASSUME NEW c \in Conns, r.routed[c] # None, c \notin r.displaced
         PROVE  \E act \in Ops \ {"Repair"} : r.tasks[c][act] > 0
    BY <2>3, <2>10 DEF Replayed, Tracked, Queued
  <2>11. waiting' \in [Conns -> Requests \cup {None}] /\ \A c \in Conns : waiting'[c] = None
    BY <2>1
  <2>12. RequestInv'
    BY <2>4, <2>7, <2>9, <2>10, <2>11, BecomesKept
  <2>13. FreshStep
    BY <2>5 DEF FreshStep
  <2>14. ConfirmedStep
    <3> SUFFICES ASSUME NEW c \in Conns, Starts(c, "Repair")
                 PROVE  /\ streak # None /\ streak.conn = c
                        /\ streak.ages \cap (ConfirmMin .. ConfirmMax) # {}
      BY DEF ConfirmedStep
    <3>1. Confirms(State, c)
      BY <2>3, <2>4, <2>8 DEF Starts, Becomes, Replayed
    <3> QED BY <1>0, <3>1, ConfirmsASeries
  <2> QED BY <2>6, <2>12, <2>13, <2>14
<1> QED BY <1>1, <1>2

\* The request of a connection that finds room is recorded: decided at once on a
\* fresh cache, kept waiting otherwise.
LEMMA Recorded ==
  ASSUME RuntimeInv, NEW s \in Decisions, NEW doc \in [Conns -> Records],
         NEW c \in Conns, NEW act \in Ops, Record(s, doc, c, act), Room(c), config' = doc,
         s.armed = armed, s.streak = streak, s.tasks = tasks,
         \A d \in Conns \ {c} : Tracked(s, d, {}),
         Tracked(s, c, {}) \/ s.routed[c] = act
  PROVE  ViewInv' /\ RequestInv' /\ FreshStep /\ ConfirmedStep
<1>0. ViewInv /\ RequestInv /\ Linked(State)
  BY DEF RuntimeInv, RequestInv
<1>1. Linked(s) /\ (Confirms(s, c) => Confirms(State, c))
  BY <1>0 DEF Linked, Confirms, State
<1>2. /\ tasks \in [Conns -> [Ops -> 0 .. MaxTasks + 1]]
      /\ waiting \in [Conns -> Requests \cup {None}]
      /\ s.routed \in [Conns -> (Ops \ {"Repair"}) \cup {None}]
  BY <1>0 DEF RequestInv, Decisions
<1>3. \A d \in Conns, o \in Ops :
        tasks[d][o] \in 0 .. MaxTasks + 1 /\ tasks[d][o] \in Nat /\ tasks[d][o] <= MaxTasks + 1
  BY <1>2, RuntimeAssumption
<1>4. \A o \in Ops : tasks[c][o] + 1 <= MaxTasks
  BY <1>3, RuntimeAssumption DEF Room
<1>5. CASE doc[c] # Gone /\ ~UnitStatusFresh(cache, doc, c)
  <2> DEFINE more == {d \in {c} : waiting[d] # None /\ waiting[d].op = s.routed[d]
                                   /\ act # s.routed[d]}
             r == [s EXCEPT !.displaced = @ \cup more]
             asked == [op |-> act, rec |-> doc[c]]
  <2>1. /\ waiting' = [waiting EXCEPT ![c] = asked]
        /\ Becomes(r) /\ Refresh(FALSE, doc)
    BY <1>5 DEF Record
  <2>2. more \subseteq {c} /\ (c \notin more => waiting[c] = None
                                  \/ waiting[c].op # s.routed[c] \/ act = s.routed[c])
    OBVIOUS
  <2> HIDE DEF more
  <2>3. /\ r \in Decisions /\ r.armed = s.armed /\ r.streak = s.streak /\ r.tasks = s.tasks
        /\ r.routed = s.routed /\ r.displaced = s.displaced \cup more
    BY <2>2 DEF Decisions
  <2> HIDE DEF r
  <2>4. asked \in Requests /\ asked # None /\ asked.op = act
    BY NoneIsApart DEF Requests
  <2> HIDE DEF asked
  <2>5. waiting' \in [Conns -> Requests \cup {None}]
    BY <1>2, <2>1, <2>4
  <2>6. waiting'[c] = asked /\ \A d \in Conns \ {c} : waiting'[d] = waiting[d]
    BY <1>2, <2>1
  <2>7. ASSUME NEW d \in Conns, NEW o \in Ops
        PROVE  /\ r.tasks[d][o] <= MaxTasks + 1
               /\ waiting'[d] # None => r.tasks[d][o] <= MaxTasks
    <3>1. CASE d = c
      BY <1>3, <1>4, <2>3, <3>1, RuntimeAssumption
    <3>2. CASE d # c
      BY <1>0, <1>3, <2>3, <2>6, <3>2 DEF RequestInv
    <3> QED BY <3>1, <3>2
  <2>8. ASSUME NEW d \in Conns, r.routed[d] # None, d \notin r.displaced
        PROVE  \/ \E o \in Ops \ {"Repair"} : r.tasks[d][o] > 0
               \/ waiting'[d] # None /\ waiting'[d].op = r.routed[d]
    <3>1. CASE d # c
      BY <2>3, <2>6, <2>8, <3>1 DEF Tracked
    <3>2. CASE d = c /\ s.routed[c] = act
      BY <2>3, <2>4, <2>6, <3>2
    <3>3. CASE d = c /\ Tracked(s, c, {}) /\ s.routed[c] # act
      BY <2>2, <2>3, <2>8, <3>3 DEF Tracked
    <3> QED BY <3>1, <3>2, <3>3
  <2>9. Linked(r)
    BY <1>1, <2>3 DEF Linked
  <2>10. RequestInv'
    BY <2>1, <2>3, <2>5, <2>7, <2>8, <2>9, BecomesKept
  <2>11. ViewInv'
    BY <1>0, <2>1, Refreshed
  <2>12. tasks' = tasks
    BY <2>1, <2>3 DEF Becomes
  <2> QED BY <1>0, <2>10, <2>11, <2>12, NothingStarts
<1>6. CASE ~ (doc[c] # Gone /\ ~UnitStatusFresh(cache, doc, c))
  <2> DEFINE r == Decide(s, cache, doc, c, act)
  <2>1. Becomes(r) /\ UNCHANGED <<waiting, obsVars>>
    BY <1>6 DEF Record
  <2>2. Decided(s, r, c, act) /\ (doc[c] = Gone => r.tasks = s.tasks)
    BY Decides
  <2> HIDE DEF r
  <2>3. ViewInv'
    BY <1>0, <2>1 DEF ViewInv, obsVars
  <2>4. r \in Decisions /\ Linked(r) /\ r.tasks \in [Conns -> [Ops -> Nat]]
    BY <1>1, <2>2 DEF Decided, Decisions
  <2>5. \A d \in Conns \ {c} : r.tasks[d] = tasks[d]
    BY <2>2 DEF Decided
  <2>6. \A d \in Conns, o \in Ops : r.tasks[d][o] \in {tasks[d][o], tasks[d][o] + 1}
    BY <2>2 DEF Decided
  <2>7. ASSUME NEW d \in Conns, NEW o \in Ops
        PROVE  /\ r.tasks[d][o] <= MaxTasks + 1
               /\ waiting'[d] # None => r.tasks[d][o] <= MaxTasks
    <3>1. CASE d = c
      <4>1. r.tasks[d][o] \in {tasks[d][o], tasks[d][o] + 1}
        BY <2>6
      <4> QED BY <1>3, <1>4, <3>1, <4>1, RuntimeAssumption
    <3>2. CASE d # c
      BY <1>0, <1>3, <2>1, <2>5, <3>2 DEF RequestInv
    <3> QED BY <3>1, <3>2
  <2>8. ASSUME NEW d \in Conns, r.routed[d] # None, d \notin r.displaced
        PROVE  \/ \E o \in Ops \ {"Repair"} : r.tasks[d][o] > 0
               \/ waiting'[d] # None /\ waiting'[d].op = r.routed[d]
    <3>1. r.routed[d] = s.routed[d] /\ d \notin s.displaced
      BY <2>2, <2>8 DEF Decided
    <3>2. CASE d = c /\ s.routed[c] = act
      <4>1. r.tasks[c][act] > 0 /\ act # "Repair"
        BY <1>2, <2>2, <2>8, <3>1, <3>2, NoneIsApart DEF Decided
      <4> QED BY <3>2, <4>1
    <3>3. CASE Tracked(s, d, {})
      <4>1. \/ \E o \in Ops \ {"Repair"} : tasks[d][o] > 0
            \/ waiting[d] # None /\ waiting[d].op = s.routed[d]
        BY <2>8, <3>1, <3>3 DEF Tracked
      <4>2. ASSUME NEW o \in Ops, tasks[d][o] > 0 PROVE r.tasks[d][o] > 0
        <5>1. r.tasks[d][o] \in {tasks[d][o], tasks[d][o] + 1}
          BY <2>6
        <5> QED BY <1>3, <4>2, <5>1
      <4> QED BY <2>1, <3>1, <4>1, <4>2
    <3> QED BY <3>2, <3>3
  <2>9. RequestInv'
    BY <1>2, <2>1, <2>4, <2>7, <2>8, BecomesKept
  <2>10. FreshStep
    <3> SUFFICES ASSUME NEW d \in Conns, NEW o \in Ops, Starts(d, o)
                 PROVE  cache' # None /\ d \notin cache'.behind /\ cache'.cfg = config'
      BY DEF FreshStep
    <3>1. r.tasks[d][o] > tasks[d][o]
      BY <2>1 DEF Starts, Becomes
    <3>2. doc[c] # Gone
      BY <1>3, <2>2, <3>1
    <3>3. cache # None /\ cache.cfg = doc
      BY <1>6, <3>2 DEF UnitStatusFresh
    <3> QED BY <1>0, <2>1, <3>3 DEF ViewInv, obsVars
  <2>11. ConfirmedStep
    <3> SUFFICES ASSUME NEW d \in Conns, Starts(d, "Repair")
                 PROVE  /\ streak # None /\ streak.conn = d
                        /\ streak.ages \cap (ConfirmMin .. ConfirmMax) # {}
      BY DEF ConfirmedStep
    <3>1. r.tasks[d]["Repair"] > tasks[d]["Repair"]
      BY <2>1 DEF Starts, Becomes
    <3>2. d = c
      BY <1>3, <2>5, <3>1, RuntimeAssumption
    <3>3. Confirms(State, c)
      BY <1>1, <2>2, <3>1, <3>2 DEF Decided
    <3> QED BY <1>0, <3>2, <3>3, ConfirmsASeries
  <2> QED BY <2>3, <2>9, <2>10, <2>11
<1> QED BY <1>5, <1>6

LEMMA PressStep ==
  ASSUME RuntimeInv, NEW c \in Conns, NEW act \in Ops, Press(c, act)
  PROVE  RuntimeInv' /\ FreshStep /\ ConfirmedStep
<1>1. Record(State, config, c, act) /\ Room(c) /\ config' = config
  BY DEF Press
<1>2. /\ State \in Decisions /\ State.armed = armed /\ State.streak = streak
      /\ State.tasks = tasks /\ \A d \in Conns : Tracked(State, d, {})
  BY DEF RuntimeInv, RequestInv, State
<1>3. config \in [Conns -> Records]
  BY DEF RuntimeInv, DocumentInv
<1>4. ViewInv' /\ RequestInv' /\ FreshStep /\ ConfirmedStep
  BY <1>1, <1>2, <1>3, Recorded
<1>5. DocumentInv'
  BY DEF RuntimeInv, DocumentInv, Press, docVars
<1> QED BY <1>4, <1>5 DEF RuntimeInv

LEMMA RunStep ==
  ASSUME RuntimeInv, NEW c \in Conns, RunOperation(c)
  PROVE  RuntimeInv' /\ FreshStep /\ ConfirmedStep
<1>0. ViewInv /\ RequestInv /\ DocumentInv /\ "SyncNow" \in Ops
  BY RuntimeAssumption DEF RuntimeInv
<1>1. CASE routed[c] # None
  <2>1. /\ client' = [client EXCEPT ![c] = "idle"]
        /\ UNCHANGED <<config, obsVars, waiting, decideVars>>
        /\ UNCHANGED <<docVars, notify, reloading>>
    BY <1>1 DEF RunOperation
  <2>2. DocumentInv'
    BY <1>0, <2>1 DEF DocumentInv, docVars
  <2>3. ViewInv'
    BY <1>0, <2>1 DEF ViewInv, obsVars
  <2>4. RequestInv' /\ FreshStep /\ ConfirmedStep
    BY <1>0, <2>1, RequestsKept
  <2> QED BY <2>2, <2>3, <2>4 DEF RuntimeInv
<1>2. CASE routed[c] = None
  <2> DEFINE s == [State EXCEPT !.routed[c] = "SyncNow", !.news = @ \ {c}]
  <2>1. /\ config' = stored /\ client' = [client EXCEPT ![c] = "accepted"]
        /\ Record(s, stored, c, "SyncNow") /\ Room(c)
        /\ UNCHANGED <<docVars, notify, reloading>>
    BY <1>2 DEF RunOperation
  <2>2. DocumentInv'
    BY <1>0, <2>1 DEF DocumentInv, docVars
  <2>3. State \in Decisions /\ \A d \in Conns : Tracked(State, d, {})
    BY <1>0 DEF RequestInv
  <2>4. /\ s \in Decisions /\ s.armed = State.armed /\ s.streak = State.streak
        /\ s.tasks = State.tasks /\ s.routed = [State.routed EXCEPT ![c] = "SyncNow"]
        /\ s.displaced = State.displaced
    BY <1>0, <2>3 DEF Decisions
  <2> HIDE DEF s
  <2>5. State.armed = armed /\ State.streak = streak /\ State.tasks = tasks
    BY DEF State
  <2>6. State.routed \in [Conns -> (Ops \ {"Repair"}) \cup {None}]
    BY <2>3 DEF Decisions
  <2>7. s.routed[c] = "SyncNow" /\ \A d \in Conns \ {c} : Tracked(s, d, {})
    BY <2>3, <2>4, <2>6 DEF Tracked
  <2>8. stored \in [Conns -> Records]
    BY <1>0 DEF DocumentInv
  <2>9. ViewInv' /\ RequestInv' /\ FreshStep /\ ConfirmedStep
    BY <1>0, <2>1, <2>4, <2>5, <2>7, <2>8, Recorded
  <2> QED BY <2>2, <2>9 DEF RuntimeInv
<1> QED BY <1>1, <1>2

\* The end of an operation takes one from its count, answers the routed
\* operation unless it was a Repair, and starts nothing.
LEMMA EndedStep ==
  ASSUME RequestInv, NEW r \in Decisions, Becomes(r), UNCHANGED waiting, Linked(r),
         NEW c \in Conns, NEW act \in Ops, tasks[c][act] > 0,
         r.tasks = [tasks EXCEPT ![c] = [tasks[c] EXCEPT ![act] = tasks[c][act] - 1]],
         \A d \in Conns \ {c} : r.routed[d] = routed[d],
         \A d \in Conns \ {c} : d \in r.displaced <=> d \in displaced,
         \/ r.routed[c] = None
         \/ act = "Repair" /\ r.routed[c] = routed[c] /\ r.displaced = displaced
  PROVE  RequestInv' /\ FreshStep /\ ConfirmedStep
<1>1. /\ tasks \in [Conns -> [Ops -> 0 .. MaxTasks + 1]]
      /\ waiting \in [Conns -> Requests \cup {None}]
  BY DEF RequestInv
<1>2. \A d \in Conns, o \in Ops :
        /\ tasks[d][o] \in Nat /\ tasks[d][o] <= MaxTasks + 1
        /\ r.tasks[d][o] = IF d = c /\ o = act THEN tasks[d][o] - 1 ELSE tasks[d][o]
  BY <1>1, RuntimeAssumption
<1>3. \A d \in Conns, o \in Ops :
        /\ r.tasks[d][o] <= MaxTasks + 1
        /\ waiting'[d] # None => r.tasks[d][o] <= MaxTasks
  BY <1>2, RuntimeAssumption DEF RequestInv
<1>4. ASSUME NEW d \in Conns, r.routed[d] # None, d \notin r.displaced
      PROVE  \/ \E o \in Ops \ {"Repair"} : r.tasks[d][o] > 0
             \/ waiting'[d] # None /\ waiting'[d].op = r.routed[d]
  <2>1. r.routed[d] = routed[d] /\ d \notin displaced /\ (d = c => act = "Repair")
    BY <1>4
  <2>2. Tracked(State, d, {})
    BY DEF RequestInv
  <2>3. \/ \E o \in Ops \ {"Repair"} : tasks[d][o] > 0
        \/ waiting[d] # None /\ waiting[d].op = routed[d]
    BY <1>4, <2>1, <2>2 DEF Tracked, State
  <2>4. \A o \in Ops \ {"Repair"} : r.tasks[d][o] = tasks[d][o]
    BY <1>2, <2>1
  <2> QED BY <2>1, <2>3, <2>4
<1>5. RequestInv'
  BY <1>1, <1>3, <1>4, BecomesKept
<1>6. tasks' = r.tasks
  BY DEF Becomes
<1>7. \A d \in Conns, o \in Ops : ~ Starts(d, o)
  BY <1>2, <1>6 DEF Starts
<1> QED BY <1>5, <1>7, RuntimeAssumption DEF FreshStep, ConfirmedStep

LEMMA Ending ==
  ASSUME RequestInv, NEW c \in Conns, NEW act \in Ops, tasks[c][act] > 0
  PROVE  /\ Ended(c, act) \in Decisions
         /\ Ended(c, act).tasks =
              [tasks EXCEPT ![c] = [tasks[c] EXCEPT ![act] = tasks[c][act] - 1]]
         /\ Ended(c, act).armed = armed /\ Ended(c, act).streak = streak
         /\ Ended(c, act).routed = routed /\ Ended(c, act).displaced = displaced
<1>1. State \in Decisions
  BY DEF RequestInv
<1>2. State.tasks[c][act] - 1 \in Nat
  <2>1. State.tasks \in [Conns -> [Ops -> Nat]] /\ State.tasks = tasks
    BY <1>1 DEF Decisions, State
  <2> QED BY <2>1
<1>3. ASSUME NEW n \in Nat
      PROVE  [State EXCEPT !.tasks[c][act] = n] \in Decisions
  BY <1>1 DEF Decisions
<1>4. Ended(c, act) \in Decisions
  BY <1>2, <1>3 DEF Ended
<1> QED BY <1>4 DEF Ended, State

LEMMA CompletedStep ==
  ASSUME RuntimeInv, NEW c \in Conns, NEW act \in Ops, OperationCompleted(c, act)
  PROVE  RuntimeInv' /\ FreshStep /\ ConfirmedStep
<1>0. ViewInv /\ RequestInv /\ DocumentInv /\ Linked(State)
  BY DEF RuntimeInv, RequestInv
<1>1. DocumentInv'
  BY <1>0 DEF OperationCompleted, DocumentInv, docVars
<1>2. ViewInv'
  <2>1. PICK o \in Superseded :
          late' = IF o = None THEN None ELSE [o EXCEPT !.behind = @ \cup {c}]
    BY DEF OperationCompleted
  <2>2. o \in Observation \cup {None}
    BY <1>0, <2>1 DEF ViewInv, Superseded
  <2>3. late' \in Observation \cup {None}
    <3>1. CASE o = None
      BY <2>1, <3>1
    <3>2. CASE o # None
      BY <2>1, <2>2, <3>2 DEF Observation
    <3> QED BY <3>1, <3>2
  <2>4. stored \in [Conns -> Records]
    BY <1>0 DEF DocumentInv
  <2>5. obs' = NewObservation(stored) /\ cache' = None
    BY DEF OperationCompleted
  <2> QED BY <2>3, <2>4, <2>5, NewObservationType DEF ViewInv
<1>3. tasks[c][act] > 0 /\ UNCHANGED waiting
  BY DEF OperationCompleted
<1> DEFINE e == Ended(c, act)
<1>4. /\ e \in Decisions
      /\ e.tasks = [tasks EXCEPT ![c] = [tasks[c] EXCEPT ![act] = tasks[c][act] - 1]]
      /\ e.armed = armed /\ e.streak = streak
      /\ e.routed = routed /\ e.displaced = displaced
  BY <1>0, <1>3, Ending
<1> HIDE DEF e
<1>5. routed \in [Conns -> (Ops \ {"Repair"}) \cup {None}]
  BY <1>4 DEF Decisions
<1>6. CASE act = "Repair"
  <2> DEFINE r == [e EXCEPT !.repair = @ \ {c}, !.armed = None]
  <2>1. /\ r \in Decisions /\ r.tasks = e.tasks /\ r.armed = None
        /\ r.routed = e.routed /\ r.displaced = e.displaced
    BY <1>4 DEF Decisions
  <2>2. RepairEnded(c) = Complete(r, c, "Repair")
    BY <1>6 DEF RepairEnded, e
  <2> HIDE DEF r
  <2>3. Complete(r, c, "Repair") = r
    BY <1>4, <1>5, <2>1, NoneIsApart, RuntimeAssumption DEF Complete
  <2>4. Becomes(r)
    BY <1>6, <2>2, <2>3 DEF OperationCompleted
  <2>5. Linked(r)
    BY <2>1 DEF Linked
  <2>6. RequestInv' /\ FreshStep /\ ConfirmedStep
    BY <1>0, <1>3, <1>4, <1>6, <2>1, <2>4, <2>5, EndedStep
  <2> QED BY <1>1, <1>2, <2>6 DEF RuntimeInv
<1>7. CASE act # "Repair"
  <2> DEFINE q == [e EXCEPT !.mirror = @ \ {c}]
             r == IF routed[c] = None THEN q ELSE Complete(q, c, routed[c])
  <2>1. /\ q \in Decisions /\ q.tasks = e.tasks /\ q.armed = e.armed
        /\ q.streak = e.streak /\ q.routed = e.routed /\ q.displaced = e.displaced
    BY <1>4 DEF Decisions
  <2>2. MirrorEnded(c, act) = r
    BY DEF MirrorEnded, e
  <2> HIDE DEF q
  <2>3. /\ r \in Decisions /\ r.tasks = q.tasks /\ r.armed = q.armed /\ r.streak = q.streak
        /\ \A d \in Conns \ {c} : r.routed[d] = q.routed[d]
        /\ \A d \in Conns \ {c} : d \in r.displaced <=> d \in q.displaced
        /\ r.routed[c] = None
    <3>1. CASE routed[c] = None
      BY <1>4, <2>1, <3>1
    <3>2. CASE routed[c] # None
      <4>1. routed[c] \in Ops
        BY <1>5, <3>2
      <4>2. /\ r \in Decisions
            /\ r.armed = q.armed /\ r.tasks = q.tasks /\ r.streak = q.streak
            /\ \A d \in Conns \ {c} : r.routed[d] = q.routed[d]
            /\ \A d \in Conns \ {c} : d \in r.displaced <=> d \in q.displaced
            /\ r.routed[c] # None => r.routed[c] = q.routed[c] /\ r.displaced = q.displaced
            /\ r.routed[c] # routed[c]
        BY <2>1, <3>2, <4>1, Completes
      <4> QED BY <1>4, <2>1, <4>2
    <3> QED BY <3>1, <3>2
  <2>4. Becomes(r)
    BY <1>7, <2>2 DEF OperationCompleted
  <2> HIDE DEF r
  <2>5. Linked(r)
    BY <1>0, <1>4, <2>1, <2>3 DEF Linked, State
  <2>6. RequestInv' /\ FreshStep /\ ConfirmedStep
    BY <1>0, <1>3, <1>4, <2>1, <2>3, <2>4, <2>5, EndedStep
  <2> QED BY <1>1, <1>2, <2>6 DEF RuntimeInv
<1> QED BY <1>6, <1>7

\* A step that leaves the operations and the routed requests alone
LEMMA TasksKept ==
  ASSUME RequestInv, UNCHANGED <<waiting, tasks, routed, displaced>>,
         State' \in Decisions, Linked(State)'
  PROVE  RequestInv' /\ FreshStep /\ ConfirmedStep
<1>1. \A c \in Conns : Tracked(State, c, {})'
  BY DEF RequestInv, Tracked, State
<1>2. RequestInv'
  BY <1>1 DEF RequestInv
<1> QED BY <1>2, NothingStarts

LEMMA DisarmedKept ==
  ASSUME RequestInv, armed' = None, streak' = None,
         UNCHANGED <<waiting, mirror, repair, tasks, routed, news, displaced>>
  PROVE  RequestInv' /\ FreshStep /\ ConfirmedStep
<1>1. State \in Decisions
  BY DEF RequestInv
<1>2. State' \in Decisions
  BY <1>1 DEF State, Decisions
<1>3. Linked(State)'
  BY DEF Linked, State
<1> QED BY <1>2, <1>3, TasksKept

LEMMA TickStep ==
  ASSUME RuntimeInv, Tick
  PROVE  RuntimeInv' /\ FreshStep /\ ConfirmedStep
<1>0. ViewInv /\ RequestInv /\ DocumentInv /\ State \in Decisions /\ Linked(State)
  BY DEF RuntimeInv, RequestInv
<1>1. DocumentInv'
  BY <1>0 DEF Tick, DocumentInv, docVars
<1>2. ViewInv'
  <2>1. cache' \in Caches \cup {None} /\ (cache' # None => cache'.behind = {})
    <3>1. CASE cache = None \/ cache.age + 1 >= FreshFor
      BY <3>1 DEF Tick
    <3>2. CASE cache # None /\ ~(cache.age + 1 >= FreshFor)
      <4>1. cache' = [cache EXCEPT !.age = @ + 1]
        BY <3>2 DEF Tick
      <4>2. cache \in Caches /\ cache.behind = {} /\ cache.age + 1 \in 0 .. FreshFor
        BY <1>0, <3>2, RuntimeAssumption DEF ViewInv, Caches
      <4>3. \A n \in 0 .. FreshFor :
              [cache EXCEPT !.age = n] \in Caches /\ [cache EXCEPT !.age = n].behind = {}
        BY <4>2 DEF Caches
      <4> QED BY <4>1, <4>2, <4>3
    <3> QED BY <3>1, <3>2
  <2> QED BY <1>0, <2>1 DEF ViewInv, Tick
<1>3. armed \in Armed \cup {None} /\ streak \in Series \cup {None}
  BY <1>0 DEF State, Decisions
<1>4. /\ armed' \in Armed \cup {None}
      /\ armed' = None <=> armed = None
      /\ armed # None => /\ armed'.conn = armed.conn
                         /\ armed'.age = Older(armed.age, ConfirmMax + 1)
  <2>1. CASE armed = None
    BY <2>1 DEF Tick
  <2>2. CASE armed # None
    <3>1. Older(armed.age, ConfirmMax + 1) \in 0 .. ConfirmMax + 1 /\ armed \in Armed
      BY <1>3, <2>2, RuntimeAssumption DEF Older, Armed
    <3>2. armed' = [armed EXCEPT !.age = Older(armed.age, ConfirmMax + 1)]
      BY <2>2 DEF Tick
    <3>3. \A n \in 0 .. ConfirmMax + 1 :
            LET a == [armed EXCEPT !.age = n]
            IN  a \in Armed /\ a.conn = armed.conn /\ a.age = n
      BY <3>1 DEF Armed
    <3> QED BY <2>2, <3>1, <3>2, <3>3, NoneIsApart
  <2> QED BY <2>1, <2>2
<1> DEFINE ages == IF streak = None THEN {}
                   ELSE {a + 1 : a \in streak.ages} \ {ConfirmMax + 1}
<1>5. streak' = IF ages = {} THEN None ELSE [streak EXCEPT !.ages = ages]
  BY DEF Tick
<1>6. ages \subseteq 0 .. ConfirmMax
  BY <1>3, RuntimeAssumption DEF Series
<1>7. streak' \in Series \cup {None}
  <2> HIDE DEF ages
  <2>1. CASE ages = {}
    BY <1>5, <2>1
  <2>2. CASE ages # {}
    <3>1. streak \in Series
      BY <1>3, <2>2 DEF ages
    <3>2. \A x \in SUBSET (0 .. ConfirmMax) : [streak EXCEPT !.ages = x] \in Series
      BY <3>1 DEF Series
    <3> QED BY <1>5, <1>6, <2>2, <3>2
  <2> QED BY <2>1, <2>2
<1>8. State' \in Decisions
  BY <1>0, <1>4, <1>7 DEF Tick, State, Decisions
<1>9. Linked(State)'
  <2> SUFFICES ASSUME armed' # None, armed'.age <= ConfirmMax
               PROVE  /\ streak' # None /\ streak'.conn = armed'.conn
                      /\ armed'.age \in streak'.ages
    BY DEF Linked, State
  <2>1. armed # None /\ armed \in Armed /\ armed.age \in 0 .. ConfirmMax + 1
    BY <1>3, <1>4 DEF Armed
  <2>2. armed.age <= ConfirmMax /\ armed'.age = armed.age + 1
    BY <1>4, <2>1, RuntimeAssumption DEF Older
  <2>3. streak # None /\ streak.conn = armed.conn /\ armed.age \in streak.ages
    BY <1>0, <2>1, <2>2 DEF Linked, State
  <2>4. armed'.age \in ages
    BY <2>1, <2>2, <2>3, RuntimeAssumption
  <2> HIDE DEF ages
  <2>5. streak' = [streak EXCEPT !.ages = ages] /\ streak \in Series
    BY <1>3, <1>5, <2>3, <2>4
  <2>6. streak'.conn = streak.conn /\ streak'.ages = ages /\ streak' \in Series
    BY <1>6, <2>5 DEF Series
  <2> QED BY <1>4, <2>1, <2>3, <2>4, <2>6, NoneIsApart
<1>10. UNCHANGED <<waiting, tasks, routed, displaced>>
  BY DEF Tick
<1>11. RequestInv' /\ FreshStep /\ ConfirmedStep
  BY <1>0, <1>8, <1>9, <1>10, TasksKept
<1> QED BY <1>1, <1>2, <1>11 DEF RuntimeInv

LEMMA RuntimeInitInv ==
  ASSUME RuntimeInit
  PROVE  RuntimeInv
<1>1. DocumentInv
  <2>1. 1 \in Records /\ 0 \in 0 .. MaxEdits
    BY RuntimeAssumption DEF Records
  <2> QED BY <2>1 DEF RuntimeInit, DocumentInv
<1>2. ViewInv
  BY DEF RuntimeInit, ViewInv
<1>3. State \in Decisions /\ Linked(State) /\ \A c \in Conns : Tracked(State, c, {})
  BY DEF RuntimeInit, State, Decisions, Linked, Tracked
<1>4. /\ waiting \in [Conns -> Requests \cup {None}]
      /\ tasks \in [Conns -> [Ops -> 0 .. MaxTasks + 1]]
      /\ \A c \in Conns, act \in Ops : waiting[c] # None => tasks[c][act] <= MaxTasks
  BY RuntimeAssumption DEF RuntimeInit
<1> QED BY <1>1, <1>2, <1>3, <1>4 DEF RuntimeInv, RequestInv

LEMMA RuntimeStep ==
  ASSUME RuntimeInv, [RuntimeNext]_runtimeVars
  PROVE  RuntimeInv' /\ (FreshStep /\ ConfirmedStep)
<1>0. ViewInv /\ RequestInv /\ DocumentInv
  BY DEF RuntimeInv
<1>1. CASE UnitObservationCompleted
  <2>1. obs \in Observation /\ obs.behind = {} /\ Accept(obs) /\ config' = config
    BY <1>0, <1>1 DEF UnitObservationCompleted, ViewInv
  <2>2. late' \in Observation \cup {None}
    BY <1>0, <1>1 DEF UnitObservationCompleted, ViewInv
  <2>3. DocumentInv'
    BY <1>0, <1>1 DEF UnitObservationCompleted, DocumentInv, docVars
  <2> QED BY <2>1, <2>2, <2>3, Accepted DEF RuntimeInv
<1>2. CASE LateObservationCompleted
  <2>1. UNCHANGED <<obs, cache, waiting, decideVars>> /\ late' = None
    BY <1>2 DEF LateObservationCompleted, AcceptsRevision
  <2>2. DocumentInv'
    BY <1>0, <1>2 DEF LateObservationCompleted, DocumentInv, docVars
  <2>3. ViewInv'
    BY <1>0, <2>1 DEF ViewInv
  <2> QED BY <1>0, <2>1, <2>2, <2>3, RequestsKept DEF RuntimeInv
<1>3. ASSUME NEW c \in Conns, NEW act \in Ops, OperationCompleted(c, act)
      PROVE  RuntimeInv' /\ FreshStep /\ ConfirmedStep
  BY <1>3, CompletedStep
<1>4. CASE ConfigurationChanged
  <2>1. DocumentInv'
    BY <1>0, <1>4 DEF ConfigurationChanged, DocumentInv, docVars
  <2>2. ViewInv' /\ UNCHANGED <<waiting, decideVars>>
    BY <1>0, <1>4 DEF ConfigurationChanged, ViewInv, obsVars
  <2> QED BY <1>0, <2>1, <2>2, RequestsKept DEF RuntimeInv
<1>5. CASE RuntimeConfigurationReloaded
  <2>1. DocumentInv' /\ config \in [Conns -> Records] /\ Refresh(TRUE, config)
    BY <1>0, <1>5 DEF RuntimeConfigurationReloaded, DocumentInv, docVars
  <2>2. UNCHANGED <<waiting, decideVars>>
    BY <1>5 DEF RuntimeConfigurationReloaded
  <2> QED BY <1>0, <2>1, <2>2, Refreshed, RequestsKept DEF RuntimeInv
<1>6. ASSUME NEW c \in Conns, RunOperation(c)
      PROVE  RuntimeInv' /\ FreshStep /\ ConfirmedStep
  BY <1>6, RunStep
<1>7. CASE UnitObservationTick
  <2>1. DocumentInv' /\ config \in [Conns -> Records] /\ Refresh(FALSE, config)
    BY <1>0, <1>7 DEF UnitObservationTick, DocumentInv, docVars
  <2>2. UNCHANGED <<waiting, decideVars>>
    BY <1>7 DEF UnitObservationTick
  <2> QED BY <1>0, <2>1, <2>2, Refreshed, RequestsKept DEF RuntimeInv
<1>8. CASE OpenPopup
  <2>1. DocumentInv' /\ stored \in [Conns -> Records] /\ Refresh(FALSE, stored)
    BY <1>0, <1>8 DEF OpenPopup, DocumentInv, docVars
  <2>2. /\ armed' = None /\ streak' = None
        /\ UNCHANGED <<waiting, mirror, repair, tasks, routed, news, displaced>>
    BY <1>8 DEF OpenPopup
  <2> QED BY <1>0, <2>1, <2>2, Refreshed, DisarmedKept DEF RuntimeInv
<1>9. CASE LaunchEditor
  <2>1. DocumentInv' /\ ViewInv'
    BY <1>0, <1>9 DEF LaunchEditor, DocumentInv, ViewInv, docVars, obsVars
  <2>2. /\ armed' = None /\ streak' = None
        /\ UNCHANGED <<waiting, mirror, repair, tasks, routed, news, displaced>>
    BY <1>9 DEF LaunchEditor
  <2> QED BY <1>0, <2>1, <2>2, DisarmedKept DEF RuntimeInv
<1>10. ASSUME NEW c \in Conns, NEW act \in Ops, Press(c, act)
       PROVE  RuntimeInv' /\ FreshStep /\ ConfirmedStep
  BY <1>10, PressStep
<1>11. ASSUME NEW c \in Conns, Edit(c)
       PROVE  RuntimeInv' /\ FreshStep /\ ConfirmedStep
  <2>1. edits + 2 \in Records /\ Gone \in Records /\ edits + 1 \in 0 .. MaxEdits
    BY <1>0, <1>11, RuntimeAssumption DEF Edit, DocumentInv, Records, Gone
  <2>2. DocumentInv'
    BY <1>0, <1>11, <2>1 DEF Edit, DocumentInv
  <2>3. ViewInv' /\ UNCHANGED <<waiting, decideVars>>
    BY <1>0, <1>11 DEF Edit, ViewInv, obsVars
  <2> QED BY <1>0, <2>2, <2>3, RequestsKept DEF RuntimeInv
<1>12. ASSUME NEW c \in Conns, EditorRequest(c) \/ EditorClosed(c)
       PROVE  RuntimeInv' /\ FreshStep /\ ConfirmedStep
  <2>1. DocumentInv'
    BY <1>0, <1>12 DEF EditorRequest, EditorClosed, DocumentInv, docVars
  <2>2. ViewInv' /\ UNCHANGED <<waiting, decideVars>>
    BY <1>0, <1>12 DEF EditorRequest, EditorClosed, ViewInv, obsVars
  <2> QED BY <1>0, <2>1, <2>2, RequestsKept DEF RuntimeInv
<1>13. ASSUME NEW c \in Conns, EditorDone(c)
       PROVE  RuntimeInv' /\ FreshStep /\ ConfirmedStep
  <2>1. DocumentInv' /\ ViewInv'
    BY <1>0, <1>13 DEF EditorDone, DocumentInv, ViewInv, docVars, obsVars
  <2>2. State \in Decisions /\ Linked(State)
    BY <1>0 DEF RequestInv
  <2>3. State' \in Decisions /\ Linked(State)'
    BY <1>13, <2>2 DEF EditorDone, State, Decisions, Linked
  <2>4. UNCHANGED <<waiting, tasks, routed, displaced>>
    BY <1>13 DEF EditorDone
  <2> QED BY <1>0, <2>1, <2>3, <2>4, TasksKept DEF RuntimeInv
<1>14. CASE ReadUnits
  <2>1. DocumentInv' /\ UNCHANGED <<waiting, decideVars>>
    BY <1>0, <1>14 DEF ReadUnits, DocumentInv, docVars
  <2>2. obs \in Observation /\ obs.behind = {}
    BY <1>0, <1>14 DEF ReadUnits, ViewInv
  <2>3. obs' \in Observation /\ obs'.behind = {}
    BY <1>14, <2>2 DEF ReadUnits, Observation
  <2>4. ViewInv'
    BY <1>0, <1>14, <2>3 DEF ReadUnits, ViewInv
  <2> QED BY <1>0, <2>1, <2>4, RequestsKept DEF RuntimeInv
<1>15. CASE Tick
  BY <1>15, TickStep
<1>16. CASE UNCHANGED runtimeVars
  <2>1. DocumentInv' /\ ViewInv' /\ UNCHANGED <<waiting, decideVars>>
    BY <1>0, <1>16 DEF runtimeVars, DocumentInv, ViewInv, decideVars
  <2> QED BY <1>0, <2>1, RequestsKept DEF RuntimeInv
<1> QED BY <1>1, <1>2, <1>3, <1>4, <1>5, <1>6, <1>7, <1>8, <1>9, <1>10, <1>11, <1>12,
           <1>13, <1>14, <1>15, <1>16 DEF RuntimeNext, Owner, User

\* The inductive invariant holds throughout, however many connections, requests
\* and completions there are.
THEOREM RuntimeInvariance == RuntimeSpec => []RuntimeInv
<1>1. RuntimeInit => RuntimeInv
  BY RuntimeInitInv
<1>2. RuntimeInv /\ [RuntimeNext]_runtimeVars => RuntimeInv'
  BY RuntimeStep
<1> QED BY <1>1, <1>2, PTL DEF RuntimeSpec

\* Every variable of the owner keeps its type: in particular the number of
\* operations of one kind never passes its bound by more than the one that the
\* replay of a waiting request may start.
THEOREM RuntimeTypes == RuntimeSpec => []RuntimeTypeOK
<1>1. RuntimeInv => RuntimeTypeOK
  <2> SUFFICES ASSUME RuntimeInv PROVE RuntimeTypeOK
    OBVIOUS
  <2>1. /\ armed \in Armed \cup {None} /\ mirror \subseteq Conns /\ repair \subseteq Conns
        /\ routed \in [Conns -> (Ops \ {"Repair"}) \cup {None}] /\ news \subseteq Conns
        /\ displaced \subseteq Conns /\ streak \in Series \cup {None}
    BY DEF RuntimeInv, RequestInv, State, Decisions
  <2>2. routed \in [Conns -> Ops \cup {None}]
    BY <2>1
  <2> QED BY <2>1, <2>2 DEF RuntimeInv, DocumentInv, ViewInv, RequestInv, RuntimeTypeOK
<1> QED BY <1>1, RuntimeInvariance, PTL

\* RoutedTracked: an operation that an editor routed is waiting, running or
\* answered (record_operation_request, complete_routed_operation).
THEOREM RoutedAreTracked == RuntimeSpec => []RoutedTracked
<1>1. RuntimeInv => RoutedTracked
  BY DEF RuntimeInv, RequestInv, Tracked, State, RoutedTracked
<1> QED BY <1>1, RuntimeInvariance, PTL

\* FreshDecision: an operation starts on a view of the units that no completion
\* of its connection and no change of the document has overtaken.
THEOREM DecisionsAreFresh == RuntimeSpec => FreshDecision
<1>1. RuntimeInv /\ [RuntimeNext]_runtimeVars => FreshStep
  BY RuntimeStep
<1>2. FreshDecision <=> [][FreshStep]_runtimeVars
  BY PTL DEF FreshDecision, FreshStep
<1> QED BY <1>1, <1>2, RuntimeInvariance, PTL DEF RuntimeSpec

\* RepairConfirmed: a Repair starts on the second press of one series
\* (repair_confirmation_decision, pending_repair).
THEOREM RepairsAreConfirmed == RuntimeSpec => RepairConfirmed
<1>1. RuntimeInv /\ [RuntimeNext]_runtimeVars => ConfirmedStep
  BY RuntimeStep
<1>2. RepairConfirmed <=> [][ConfirmedStep]_runtimeVars
  BY PTL DEF RepairConfirmed, ConfirmedStep
<1> QED BY <1>1, <1>2, RuntimeInvariance, PTL DEF RuntimeSpec

=============================================================================
