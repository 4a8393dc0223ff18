------------------------ MODULE OfflineControlProofs ------------------------
(***************************************************************************)
(* Proofs about the control of mirror operations.  ManualOperationControl  *)
(* and CommandRun, for any number of waiters, commands and attempts: the   *)
(* control loses no wake-up and implements OperationJoin, it keeps these   *)
(* promises when it is composed with the processes it cancels, and a       *)
(* positive answer means that they are gone.  OfflineControl, for any      *)
(* number of operations in flight and any number of deaths of the applet.  *)
(***************************************************************************)
EXTENDS OfflineControl, CommandRun, TLAPS

-----------------------------------------------------------------------------
(* Cancellation: the control of a manual operation by itself              *)

\* Every step of the operation and of a waiter keeps the invariant.
LEMMA JoinStep == JoinInv /\ [ControlNext]_controlVars => JoinInv'
<1> SUFFICES ASSUME JoinInv, [ControlNext]_controlVars PROVE JoinInv'
  OBVIOUS
<1> USE DEF JoinInv, ControlTypeOK, WakeInv, OpStages, Positions
<1>1. CASE Finish
  <2>1. CASE operation = "working"
    <3>1. operation' = "stored" /\ completed' /\ completed' \in BOOLEAN
      BY <1>1, <2>1 DEF Finish
    <3> QED BY <1>1, <2>1, <3>1 DEF Finish
  <2>2. CASE operation = "stored"
    <3>1. operation' = "finished" /\ completed' = completed /\ notices' = 1
      BY <1>1, <2>2 DEF Finish
    <3> QED BY <1>1, <2>2, <3>1 DEF Finish
  <2> QED BY <1>1, <2>1, <2>2 DEF Finish
<1>2. ASSUME NEW w \in Waiters, Call(w) PROVE JoinInv'
  BY <1>2 DEF Call, Goto
<1>3. ASSUME NEW w \in Waiters, Timeout(w) PROVE JoinInv'
  BY <1>3 DEF Timeout, Proceed, Goto
<1>4. ASSUME NEW w \in Waiters, WaiterStep(w) PROVE JoinInv'
  <2>1. CASE FirstCheck(w)
    BY <2>1 DEF FirstCheck, Answers, Proceed, Goto
  <2>2. CASE Register(w)
    BY <2>2 DEF Register, Goto
  <2>3. CASE SecondCheck(w)
    BY <2>3 DEF SecondCheck, Answers, Proceed, Goto
  <2>4. CASE Wake(w)
    BY <2>4 DEF Wake, Ready, Proceed, Goto
  <2>5. CASE FinalLoad(w)
    BY <2>5 DEF FinalLoad, Answers, Goto
  <2> QED BY <1>4, <2>1, <2>2, <2>3, <2>4, <2>5 DEF WaiterStep
<1>5. CASE UNCHANGED controlVars
  BY <1>5 DEF controlVars
<1> QED BY <1>1, <1>2, <1>3, <1>4, <1>5 DEF ControlNext

\* JoinInv holds for any number of waiters.
THEOREM JoinInvariance == ControlSpec => []JoinInv
<1>1. ControlInit => ControlTypeOK
  <2> SUFFICES ASSUME ControlInit PROVE ControlTypeOK
    OBVIOUS
  <2>1. token \in BOOLEAN /\ completed \in BOOLEAN
    BY Zenon DEF ControlInit
  <2>2. notices \in 0 .. 1 /\ seen \in [Waiters -> 0 .. 1]
    BY DEF ControlInit
  <2>3. operation \in OpStages /\ pc \in [Waiters -> Positions]
    BY DEF ControlInit, OpStages, Positions
  <2>4. answer \in [Waiters -> {"none", "yes", "no"}]
    BY DEF ControlInit
  <2> QED BY <2>1, <2>2, <2>3, <2>4 DEF ControlTypeOK
<1>2. ControlInit => WakeInv
  <2> SUFFICES ASSUME ControlInit PROVE WakeInv
    OBVIOUS
  <2>1. ~completed /\ operation = "working"
    BY DEF ControlInit
  <2> QED BY <2>1 DEF ControlInit, WakeInv
<1> QED BY <1>1, <1>2, JoinStep, PTL DEF ControlSpec, JoinInv

\* No waiter sleeps through the notification of finish (NoLostWakeup).
THEOREM WakeupsKept == ControlSpec => []NoLostWakeup
<1>1. JoinInv => NoLostWakeup
  BY DEF JoinInv, WakeInv, ControlTypeOK, NoLostWakeup, Ready
<1> QED BY <1>1, JoinInvariance, PTL

\* Every behaviour of the control is one of OperationJoin (JoinKept).
THEOREM ImplementsJoin == ControlSpec => JoinKept
<1>1. ControlInit => Join!Init
  BY DEF ControlInit, Join!Init
<1>2. JoinInv /\ [ControlNext]_controlVars => [Join!Next]_(Join!vars)
  <2> SUFFICES ASSUME JoinInv, [ControlNext]_controlVars
               PROVE  Join!Next \/ UNCHANGED Join!vars
    OBVIOUS
  <2> USE DEF JoinInv, ControlTypeOK, WakeInv, OpStages, Positions, Join!Next, Join!vars
  <2>1. CASE Finish
    BY <2>1 DEF Finish, Join!End
  <2>2. ASSUME NEW w \in Waiters, Call(w) PROVE Join!Ask(w)
    BY <2>2 DEF Call, Goto, Join!Ask
  <2>3. ASSUME NEW w \in Waiters, Timeout(w) PROVE Join!Expire(w)
    BY <2>3 DEF Timeout, Proceed, Goto, Join!Expire
  <2>4. ASSUME NEW w \in Waiters, WaiterStep(w)
        PROVE  Join!Yes(w) \/ Join!No(w) \/ UNCHANGED Join!vars
    <3> USE DEF Join!Yes, Join!No, Join!Say, Goto
    <3>1. CASE FirstCheck(w)
      BY <3>1 DEF FirstCheck, Answers, Proceed
    <3>2. CASE Register(w)
      BY <3>2 DEF Register
    <3>3. CASE SecondCheck(w)
      BY <3>3 DEF SecondCheck, Answers, Proceed
    <3>4. CASE Wake(w)
      BY <3>4 DEF Wake, Proceed
    <3>5. CASE FinalLoad(w)
      BY <3>5 DEF FinalLoad, Answers
    <3> QED BY <2>4, <3>1, <3>2, <3>3, <3>4, <3>5 DEF WaiterStep
  <2>5. CASE UNCHANGED controlVars
    BY <2>5 DEF controlVars
  <2> QED BY <2>1, <2>2, <2>3, <2>4, <2>5 DEF ControlNext
<1> QED BY <1>1, <1>2, JoinInvariance, PTL DEF ControlSpec, JoinKept, Join!Spec

-----------------------------------------------------------------------------
(* ... and with the processes it cancels                                   *)

\* Every step of the composition is a step of the control or leaves it alone.
LEMMA ControlStep == [ProcessNext]_allvars => [ControlNext]_controlVars
<1> SUFFICES ASSUME [ProcessNext]_allvars PROVE [ControlNext]_controlVars
  OBVIOUS
<1>1. CASE StartCommand
  BY <1>1 DEF StartCommand
<1>2. CASE ChildStep
  BY <1>2 DEF ChildStep
<1>3. CASE RunnerStep \/ Interrupt("timeout")
  BY <1>3 DEF RunnerStep, Complete, Interrupt, Escalate, Terminated, Retry
<1>4. CASE FinishOperation
  BY <1>4 DEF FinishOperation, ControlNext
<1>5. CASE WaiterNext
  BY <1>5 DEF WaiterNext, ControlNext
<1>6. CASE UNCHANGED allvars
  BY <1>6 DEF allvars
<1> QED BY <1>1, <1>2, <1>3, <1>4, <1>5, <1>6 DEF ProcessNext

\* The composition implements the control by itself.
THEOREM ProcessImplementsControl == ProcessSpec => ControlSpec
<1>1. ProcessInit => ControlInit
  BY DEF ProcessInit
<1> QED BY <1>1, ControlStep, PTL DEF ProcessSpec, ControlSpec

\* No waiter sleeps through the end of an operation that runs commands
\* (NoLostWakeup).
THEOREM ProcessWakeupsKept == ProcessSpec => []NoLostWakeup
BY ProcessImplementsControl, WakeupsKept, PTL

\* What the stages of the runner leave alive of a process group: nothing when
\* the command returned or waits for a retry, and nothing that a signal can end
\* after SIGKILL.  The operation ends between two commands only.
GroupInv ==
  /\ phase = "delay" => ~GroupAlive
  /\ phase \in {"kill", "returned"} => ~GroupAlive \/ temper = "stuck"
  /\ completed => phase = "returned"

\* A waiter was told yes only after the operation had stored its flag.
AnswerInv == \A w \in Waiters : answer[w] = "yes" => completed

\* A signal leaves alive only those whom it cannot end.
LEMMA SignalEnds ==
  ASSUME NEW enough, Signal(enough), temper' = temper
  PROVE  GroupAlive' => temper \notin enough
BY DEF Signal, GroupAlive

\* Every step keeps GroupInv.
LEMMA GroupStep ==
  JoinInv /\ temper \in Tempers /\ GroupInv /\ [ProcessNext]_allvars =>
    GroupInv' /\ temper' = temper
<1> SUFFICES ASSUME JoinInv, temper \in Tempers, GroupInv, [ProcessNext]_allvars
             PROVE  GroupInv' /\ temper' = temper
  OBVIOUS
<1> USE DEF GroupInv, controlVars, process
<1>1. CASE StartCommand
  <2>1. ~completed
    BY <1>1 DEF StartCommand, JoinInv, WakeInv
  <2> QED BY <1>1, <2>1 DEF StartCommand, Spawn, GroupAlive
<1>2. CASE ChildStep
  BY <1>2 DEF ChildStep, GroupAlive
<1>3. CASE Complete
  BY <1>3 DEF Complete, GroupAlive
<1>4. ASSUME NEW r, Interrupt(r) PROVE GroupInv' /\ temper' = temper
  BY <1>4 DEF Interrupt
<1>5. CASE Escalate
  <2>1. temper' = temper /\ phase = "term" /\ phase' = "kill" /\ completed' = completed
    BY <1>5 DEF Escalate
  <2>2. CASE GroupExists
    <3>1. GroupAlive' => temper \notin {"mild", "stubborn"}
      BY <1>5, <2>1, <2>2, SignalEnds DEF Escalate
    <3> QED BY <2>1, <3>1 DEF Tempers
  <2>3. CASE ~GroupExists
    BY <1>5, <2>1, <2>3 DEF Escalate, GroupExists, GroupAlive
  <2> QED BY <2>2, <2>3
<1>6. CASE Terminated
  BY <1>6 DEF Terminated, GroupAlive
<1>7. CASE Retry
  BY <1>7 DEF Retry, Spawn, GroupAlive
<1>8. CASE FinishOperation
  BY <1>8 DEF FinishOperation, GroupAlive
<1>9. CASE WaiterNext
  <2>1. completed' = completed /\ UNCHANGED process
    BY <1>9 DEF WaiterNext, Call, Timeout, WaiterStep, FirstCheck, Register, SecondCheck, Wake,
                FinalLoad, Answers, Proceed
  <2> QED BY <2>1 DEF GroupAlive
<1>10. CASE UNCHANGED allvars
  BY <1>10 DEF allvars, GroupAlive
<1> QED BY <1>1, <1>2, <1>3, <1>4, <1>5, <1>6, <1>7, <1>8, <1>9, <1>10 DEF ProcessNext, RunnerStep

\* Every step of the control keeps AnswerInv.
LEMMA AnswerStep == JoinInv /\ AnswerInv /\ [ControlNext]_controlVars => AnswerInv'
<1> SUFFICES ASSUME JoinInv, AnswerInv, [ControlNext]_controlVars PROVE AnswerInv'
  OBVIOUS
<1> USE DEF JoinInv, ControlTypeOK, WakeInv, OpStages, AnswerInv, Goto, Answers, Proceed
<1>1. CASE Finish
  BY <1>1 DEF Finish
<1>2. ASSUME NEW w \in Waiters, Call(w) PROVE AnswerInv'
  BY <1>2 DEF Call
<1>3. ASSUME NEW w \in Waiters, Timeout(w) PROVE AnswerInv'
  BY <1>3 DEF Timeout
<1>4. ASSUME NEW w \in Waiters, WaiterStep(w) PROVE AnswerInv'
  BY <1>4 DEF WaiterStep, FirstCheck, Register, SecondCheck, Wake, FinalLoad
<1>5. CASE UNCHANGED controlVars
  BY <1>5 DEF controlVars
<1> QED BY <1>1, <1>2, <1>3, <1>4, <1>5 DEF ControlNext

\* When cancel_and_wait says yes, no process of the operation is left that a
\* signal could have ended (JoinedMeansGone).
THEOREM JoinedGone == ProcessSpec => []JoinedMeansGone
<1> DEFINE Inv == temper \in Tempers /\ GroupInv /\ AnswerInv
<1>1. ProcessInit => Inv
  BY DEF ProcessInit, ControlInit, GroupInv, AnswerInv, GroupAlive
<1>2. JoinInv /\ Inv /\ [ProcessNext]_allvars => Inv'
  BY GroupStep, AnswerStep, ControlStep
<1>3. Inv => JoinedMeansGone
  BY DEF JoinedMeansGone, GroupInv, AnswerInv
<1> QED BY <1>1, <1>2, <1>3, JoinInvariance, ProcessImplementsControl, PTL DEF ProcessSpec

-----------------------------------------------------------------------------
(* Pause, Resume, Repair and requests of one mirror                        *)

USE SlotAssumption

\* When the call of a run returns, only the locals of that run change.
LEMMA ReturnFrame ==
  ASSUME TypeOK, NEW r \in Runs, Return(r)
  PROVE  /\ stage' \in [Runs -> Stages]
         /\ op' \in [Runs -> Operations \cup {None}]
         /\ good' \in [Runs -> BOOLEAN]
         /\ cancelled' \in [Runs -> BOOLEAN]
         /\ stage'[r] \in {"idle", "finished"}
         /\ r = Worker => stage'[r] = "idle" /\ op'[r] = None
         /\ \A q \in Runs \ {r} : stage'[q] = stage[q] /\ op'[q] = op[q]
<1>1. CASE r = Worker /\ Idle({r})
  BY <1>1 DEF TypeOK, Idle, Stages
<1>2. CASE r \in Manual /\ Go(r, "finished") /\ UNCHANGED <<op, good, cancelled>>
  BY <1>2 DEF TypeOK, Go, Stages
<1> QED BY <1>1, <1>2 DEF Return

\* Every step keeps the variables in their types.
LEMMA TypeStep == TypeOK /\ [Next]_vars => TypeOK'
<1> SUFFICES ASSUME TypeOK, [Next]_vars PROVE TypeOK'
  OBVIOUS
<1>1. CASE Observe
  BY <1>1
  DEF TypeOK, Runs, Stages, States, Statuses, RepairStages, Operations,
      Writers, Observe, Observed, UnitState, vars, file, units, tasks, ui,
      repairing
<1>2. ASSUME NEW m \in Manual, NEW q \in Operations, Request(m, q)
      PROVE  TypeOK'
  BY <1>2
  DEF TypeOK, Runs, Stages, States, Statuses, RepairStages, Operations,
      Writers, Request, MayRequest, Offered, MirrorStatus, Go, At, vars, file,
      units, tasks, ui, repairing
<1>3. ASSUME NEW m \in Manual, Completed(m) PROVE TypeOK'
  <2>1. /\ lock' \in Runs \cup {None}
        /\ coord' \in States
        /\ service' \in {"inactive", "active", "failed"}
        /\ stage' \in [Runs -> Stages]
        /\ op' \in [Runs -> Operations \cup {None}]
    BY <1>3
    DEF TypeOK, Runs, Stages, States, Statuses, RepairStages, Operations,
        Writers, Completed, Idle, At, vars, file, units, tasks, ui, repairing
  <2>2. /\ control' \in Manual \cup {None}
        /\ repair' \in RepairStages
        /\ repairCtl' \in Manual \cup {None}
        /\ obs' \in Statuses \cup {None}
        /\ by' \in Writers \cup {None}
    BY <1>3
    DEF TypeOK, Runs, Stages, States, Statuses, RepairStages, Operations,
        Writers, Completed, Idle, At, vars, file, units, tasks, ui, repairing
  <2>3. /\ good' \in [Runs -> BOOLEAN]
        /\ cancelled' \in [Runs -> BOOLEAN]
    BY <1>3
    DEF TypeOK, Runs, Stages, States, Statuses, RepairStages, Operations,
        Writers, Completed, Idle, At, vars, file, units, tasks, ui, repairing
  <2>4. /\ timer' \in BOOLEAN
        /\ pending' \in BOOLEAN
        /\ repairOk' \in BOOLEAN
        /\ lost' \in BOOLEAN
    BY <1>3
    DEF TypeOK, Runs, Stages, States, Statuses, RepairStages, Operations,
        Writers, Completed, Idle, At, vars, file, units, tasks, ui, repairing
  <2> QED BY <2>1, <2>2, <2>3, <2>4 DEF TypeOK
<1>4. ASSUME NEW m \in Manual, TrackedStep(m) PROVE TypeOK'
  <2>1. CASE TrackedBegin(m)
    <3>1. /\ lock' \in Runs \cup {None}
          /\ coord' \in States
          /\ by' \in Writers \cup {None}
          /\ service' \in {"inactive", "active", "failed"}
      BY <2>1
      DEF TypeOK, Runs, Stages, States, Statuses, RepairStages, Operations,
          Writers, TrackedBegin, Write, Unwritten, Tracked, Go, At, vars,
          file, units, tasks, ui, repairing
    <3>2. /\ stage' \in [Runs -> Stages]
          /\ op' \in [Runs -> Operations \cup {None}]
      BY <2>1
      DEF TypeOK, Runs, Stages, States, Statuses, RepairStages, Operations,
          Writers, TrackedBegin, Write, Unwritten, Tracked, Go, At, vars,
          file, units, tasks, ui, repairing
    <3>3. /\ control' \in Manual \cup {None}
          /\ repair' \in RepairStages
          /\ repairCtl' \in Manual \cup {None}
          /\ obs' \in Statuses \cup {None}
      BY <2>1
      DEF TypeOK, Runs, Stages, States, Statuses, RepairStages, Operations,
          Writers, TrackedBegin, Write, Unwritten, Tracked, Go, At, vars,
          file, units, tasks, ui, repairing
    <3>4. /\ good' \in [Runs -> BOOLEAN]
          /\ cancelled' \in [Runs -> BOOLEAN]
      BY <2>1
      DEF TypeOK, Runs, Stages, States, Statuses, RepairStages, Operations,
          Writers, TrackedBegin, Write, Unwritten, Tracked, Go, At, vars,
          file, units, tasks, ui, repairing
    <3>5. /\ timer' \in BOOLEAN
          /\ pending' \in BOOLEAN
          /\ repairOk' \in BOOLEAN
          /\ lost' \in BOOLEAN
      BY <2>1
      DEF TypeOK, Runs, Stages, States, Statuses, RepairStages, Operations,
          Writers, TrackedBegin, Write, Unwritten, Tracked, Go, At, vars,
          file, units, tasks, ui, repairing
    <3> QED BY <3>1, <3>2, <3>3, <3>4, <3>5 DEF TypeOK
  <2>2. CASE TimerOff(m)
    <3>1. /\ lock' \in Runs \cup {None}
          /\ coord' \in States
          /\ service' \in {"inactive", "active", "failed"}
          /\ stage' \in [Runs -> Stages]
          /\ op' \in [Runs -> Operations \cup {None}]
      BY <2>2
      DEF TypeOK, Runs, Stages, States, Statuses, RepairStages, Operations,
          Writers, TimerOff, Tracked, Go, At, vars, file, units, tasks, ui,
          repairing
    <3>2. /\ control' \in Manual \cup {None}
          /\ repair' \in RepairStages
          /\ repairCtl' \in Manual \cup {None}
          /\ obs' \in Statuses \cup {None}
          /\ by' \in Writers \cup {None}
      BY <2>2
      DEF TypeOK, Runs, Stages, States, Statuses, RepairStages, Operations,
          Writers, TimerOff, Tracked, Go, At, vars, file, units, tasks, ui,
          repairing
    <3>3. /\ good' \in [Runs -> BOOLEAN]
          /\ cancelled' \in [Runs -> BOOLEAN]
      BY <2>2
      DEF TypeOK, Runs, Stages, States, Statuses, RepairStages, Operations,
          Writers, TimerOff, Tracked, Go, At, vars, file, units, tasks, ui,
          repairing
    <3>4. /\ timer' \in BOOLEAN
          /\ pending' \in BOOLEAN
          /\ repairOk' \in BOOLEAN
          /\ lost' \in BOOLEAN
      BY <2>2
      DEF TypeOK, Runs, Stages, States, Statuses, RepairStages, Operations,
          Writers, TimerOff, Tracked, Go, At, vars, file, units, tasks, ui,
          repairing
    <3> QED BY <3>1, <3>2, <3>3, <3>4 DEF TypeOK
  <2>3. CASE PauseService(m)
    <3>1. /\ lock' \in Runs \cup {None}
          /\ coord' \in States
          /\ service' \in {"inactive", "active", "failed"}
          /\ stage' \in [Runs -> Stages]
          /\ op' \in [Runs -> Operations \cup {None}]
      BY <2>3
      DEF TypeOK, Runs, Stages, States, Statuses, RepairStages, Operations,
          Writers, PauseService, StopService, At, vars, file, units, tasks,
          ui, repairing
    <3>2. /\ control' \in Manual \cup {None}
          /\ repair' \in RepairStages
          /\ repairCtl' \in Manual \cup {None}
          /\ obs' \in Statuses \cup {None}
          /\ by' \in Writers \cup {None}
      BY <2>3
      DEF TypeOK, Runs, Stages, States, Statuses, RepairStages, Operations,
          Writers, PauseService, StopService, At, vars, file, units, tasks,
          ui, repairing
    <3>3. /\ good' \in [Runs -> BOOLEAN]
          /\ cancelled' \in [Runs -> BOOLEAN]
      BY <2>3
      DEF TypeOK, Runs, Stages, States, Statuses, RepairStages, Operations,
          Writers, PauseService, StopService, At, vars, file, units, tasks,
          ui, repairing
    <3>4. /\ timer' \in BOOLEAN
          /\ pending' \in BOOLEAN
          /\ repairOk' \in BOOLEAN
          /\ lost' \in BOOLEAN
      BY <2>3
      DEF TypeOK, Runs, Stages, States, Statuses, RepairStages, Operations,
          Writers, PauseService, StopService, At, vars, file, units, tasks,
          ui, repairing
    <3> QED BY <3>1, <3>2, <3>3, <3>4 DEF TypeOK
  <2>4. CASE ResumeTimer(m)
    BY <2>4
    DEF TypeOK, Runs, Stages, States, Statuses, RepairStages, Operations,
        Writers, ResumeTimer, Go, At, vars, file, units, tasks, ui, repairing
  <2>5. CASE TrackedFail(m)
    <3>1. /\ lock' \in Runs \cup {None}
          /\ coord' \in States
          /\ service' \in {"inactive", "active", "failed"}
          /\ stage' \in [Runs -> Stages]
          /\ op' \in [Runs -> Operations \cup {None}]
      BY <2>5
      DEF TypeOK, Runs, Stages, States, Statuses, RepairStages, Operations,
          Writers, TrackedFail, Tracked, Go, At, vars, file, units, tasks, ui,
          repairing
    <3>2. /\ control' \in Manual \cup {None}
          /\ repair' \in RepairStages
          /\ repairCtl' \in Manual \cup {None}
          /\ obs' \in Statuses \cup {None}
          /\ by' \in Writers \cup {None}
      BY <2>5
      DEF TypeOK, Runs, Stages, States, Statuses, RepairStages, Operations,
          Writers, TrackedFail, Tracked, Go, At, vars, file, units, tasks, ui,
          repairing
    <3>3. /\ good' \in [Runs -> BOOLEAN]
          /\ cancelled' \in [Runs -> BOOLEAN]
      BY <2>5
      DEF TypeOK, Runs, Stages, States, Statuses, RepairStages, Operations,
          Writers, TrackedFail, Tracked, Go, At, vars, file, units, tasks, ui,
          repairing
    <3>4. /\ timer' \in BOOLEAN
          /\ pending' \in BOOLEAN
          /\ repairOk' \in BOOLEAN
          /\ lost' \in BOOLEAN
      BY <2>5
      DEF TypeOK, Runs, Stages, States, Statuses, RepairStages, Operations,
          Writers, TrackedFail, Tracked, Go, At, vars, file, units, tasks, ui,
          repairing
    <3> QED BY <3>1, <3>2, <3>3, <3>4 DEF TypeOK
  <2>6. CASE TrackedResult(m)
    <3>1. /\ lock' \in Runs \cup {None}
          /\ coord' \in States
          /\ by' \in Writers \cup {None}
          /\ service' \in {"inactive", "active", "failed"}
      BY <2>6
      DEF TypeOK, Runs, Stages, States, Statuses, RepairStages, Operations,
          Writers, TrackedResult, Write, Unwritten, Tracked, Go, At, vars,
          file, units, tasks, ui, repairing
    <3>2. /\ stage' \in [Runs -> Stages]
          /\ op' \in [Runs -> Operations \cup {None}]
      BY <2>6
      DEF TypeOK, Runs, Stages, States, Statuses, RepairStages, Operations,
          Writers, TrackedResult, Write, Unwritten, Tracked, Go, At, vars,
          file, units, tasks, ui, repairing
    <3>3. /\ control' \in Manual \cup {None}
          /\ repair' \in RepairStages
          /\ repairCtl' \in Manual \cup {None}
          /\ obs' \in Statuses \cup {None}
      BY <2>6
      DEF TypeOK, Runs, Stages, States, Statuses, RepairStages, Operations,
          Writers, TrackedResult, Write, Unwritten, Tracked, Go, At, vars,
          file, units, tasks, ui, repairing
    <3>4. /\ good' \in [Runs -> BOOLEAN]
          /\ cancelled' \in [Runs -> BOOLEAN]
      BY <2>6
      DEF TypeOK, Runs, Stages, States, Statuses, RepairStages, Operations,
          Writers, TrackedResult, Write, Unwritten, Tracked, Go, At, vars,
          file, units, tasks, ui, repairing
    <3>5. /\ timer' \in BOOLEAN
          /\ pending' \in BOOLEAN
          /\ repairOk' \in BOOLEAN
          /\ lost' \in BOOLEAN
      BY <2>6
      DEF TypeOK, Runs, Stages, States, Statuses, RepairStages, Operations,
          Writers, TrackedResult, Write, Unwritten, Tracked, Go, At, vars,
          file, units, tasks, ui, repairing
    <3> QED BY <3>1, <3>2, <3>3, <3>4, <3>5 DEF TypeOK
  <2> QED
    BY <1>4, <2>1, <2>2, <2>3, <2>4, <2>5, <2>6 DEF TrackedStep
<1>5. ASSUME NEW r \in Runs, RunStep(r) PROVE TypeOK'
  <2>1. CASE Admit(r)
    BY <2>1
    DEF TypeOK, Runs, Stages, States, Statuses, RepairStages, Operations,
        Writers, Admit, IsRun, Go, At, vars, file, units, tasks, ui, repairing
  <2>2. CASE Refuse(r)
    <3>1. /\ lock' \in Runs \cup {None}
          /\ coord' \in States
          /\ service' \in {"inactive", "active", "failed"}
          /\ stage' \in [Runs -> Stages]
          /\ op' \in [Runs -> Operations \cup {None}]
      BY <2>2, ReturnFrame
      DEF TypeOK, Runs, Stages, States, Statuses, RepairStages, Operations,
          Writers, Refuse, IsRun, UnitAfter, At, vars, file, units, tasks, ui,
          repairing
    <3>2. /\ control' \in Manual \cup {None}
          /\ repair' \in RepairStages
          /\ repairCtl' \in Manual \cup {None}
          /\ obs' \in Statuses \cup {None}
          /\ by' \in Writers \cup {None}
      BY <2>2, ReturnFrame
      DEF TypeOK, Runs, Stages, States, Statuses, RepairStages, Operations,
          Writers, Refuse, IsRun, UnitAfter, At, vars, file, units, tasks, ui,
          repairing
    <3>3. /\ good' \in [Runs -> BOOLEAN]
          /\ cancelled' \in [Runs -> BOOLEAN]
      BY <2>2, ReturnFrame
      DEF TypeOK, Runs, Stages, States, Statuses, RepairStages, Operations,
          Writers, Refuse, IsRun, UnitAfter, At, vars, file, units, tasks, ui,
          repairing
    <3>4. /\ timer' \in BOOLEAN
          /\ pending' \in BOOLEAN
          /\ repairOk' \in BOOLEAN
          /\ lost' \in BOOLEAN
      BY <2>2, ReturnFrame
      DEF TypeOK, Runs, Stages, States, Statuses, RepairStages, Operations,
          Writers, Refuse, IsRun, UnitAfter, At, vars, file, units, tasks, ui,
          repairing
    <3> QED BY <3>1, <3>2, <3>3, <3>4 DEF TypeOK
  <2>3. CASE Publish(r)
    <3>1. /\ lock' \in Runs \cup {None}
          /\ coord' \in States
          /\ by' \in Writers \cup {None}
          /\ service' \in {"inactive", "active", "failed"}
      BY <2>3
      DEF TypeOK, Runs, Stages, States, Statuses, RepairStages, Operations,
          Writers, Publish, Write, Unwritten, IsRun, Go, At, vars, file,
          units, tasks, ui, repairing
    <3>2. /\ stage' \in [Runs -> Stages]
          /\ op' \in [Runs -> Operations \cup {None}]
      BY <2>3
      DEF TypeOK, Runs, Stages, States, Statuses, RepairStages, Operations,
          Writers, Publish, Write, Unwritten, IsRun, Go, At, vars, file,
          units, tasks, ui, repairing
    <3>3. /\ control' \in Manual \cup {None}
          /\ repair' \in RepairStages
          /\ repairCtl' \in Manual \cup {None}
          /\ obs' \in Statuses \cup {None}
      BY <2>3
      DEF TypeOK, Runs, Stages, States, Statuses, RepairStages, Operations,
          Writers, Publish, Write, Unwritten, IsRun, Go, At, vars, file,
          units, tasks, ui, repairing
    <3>4. /\ good' \in [Runs -> BOOLEAN]
          /\ cancelled' \in [Runs -> BOOLEAN]
      BY <2>3
      DEF TypeOK, Runs, Stages, States, Statuses, RepairStages, Operations,
          Writers, Publish, Write, Unwritten, IsRun, Go, At, vars, file,
          units, tasks, ui, repairing
    <3>5. /\ timer' \in BOOLEAN
          /\ pending' \in BOOLEAN
          /\ repairOk' \in BOOLEAN
          /\ lost' \in BOOLEAN
      BY <2>3
      DEF TypeOK, Runs, Stages, States, Statuses, RepairStages, Operations,
          Writers, Publish, Write, Unwritten, IsRun, Go, At, vars, file,
          units, tasks, ui, repairing
    <3> QED BY <3>1, <3>2, <3>3, <3>4, <3>5 DEF TypeOK
  <2>4. CASE Unlock(r)
    <3>1. /\ lock' \in Runs \cup {None}
          /\ coord' \in States
          /\ service' \in {"inactive", "active", "failed"}
          /\ stage' \in [Runs -> Stages]
          /\ op' \in [Runs -> Operations \cup {None}]
      BY <2>4, ReturnFrame
      DEF TypeOK, Runs, Stages, States, Statuses, RepairStages, Operations,
          Writers, Unlock, IsRun, UnitAfter, At, vars, file, units, tasks, ui,
          repairing
    <3>2. /\ control' \in Manual \cup {None}
          /\ repair' \in RepairStages
          /\ repairCtl' \in Manual \cup {None}
          /\ obs' \in Statuses \cup {None}
          /\ by' \in Writers \cup {None}
      BY <2>4, ReturnFrame
      DEF TypeOK, Runs, Stages, States, Statuses, RepairStages, Operations,
          Writers, Unlock, IsRun, UnitAfter, At, vars, file, units, tasks, ui,
          repairing
    <3>3. /\ good' \in [Runs -> BOOLEAN]
          /\ cancelled' \in [Runs -> BOOLEAN]
      BY <2>4, ReturnFrame
      DEF TypeOK, Runs, Stages, States, Statuses, RepairStages, Operations,
          Writers, Unlock, IsRun, UnitAfter, At, vars, file, units, tasks, ui,
          repairing
    <3>4. /\ timer' \in BOOLEAN
          /\ pending' \in BOOLEAN
          /\ repairOk' \in BOOLEAN
          /\ lost' \in BOOLEAN
      BY <2>4, ReturnFrame
      DEF TypeOK, Runs, Stages, States, Statuses, RepairStages, Operations,
          Writers, Unlock, IsRun, UnitAfter, At, vars, file, units, tasks, ui,
          repairing
    <3> QED BY <3>1, <3>2, <3>3, <3>4 DEF TypeOK
  <2>5. ASSUME NEW success \in BOOLEAN, Result(r, success) PROVE TypeOK'
    <3>1. /\ lock' \in Runs \cup {None}
          /\ coord' \in States
          /\ by' \in Writers \cup {None}
          /\ service' \in {"inactive", "active", "failed"}
      BY <2>5
      DEF TypeOK, Runs, Stages, States, Statuses, RepairStages, Operations,
          Writers, Result, Write, Unwritten, IsRun, Go, At, vars, file, units,
          tasks, ui, repairing
    <3>2. /\ stage' \in [Runs -> Stages]
          /\ op' \in [Runs -> Operations \cup {None}]
      BY <2>5
      DEF TypeOK, Runs, Stages, States, Statuses, RepairStages, Operations,
          Writers, Result, Write, Unwritten, IsRun, Go, At, vars, file, units,
          tasks, ui, repairing
    <3>3. /\ control' \in Manual \cup {None}
          /\ repair' \in RepairStages
          /\ repairCtl' \in Manual \cup {None}
          /\ obs' \in Statuses \cup {None}
      BY <2>5
      DEF TypeOK, Runs, Stages, States, Statuses, RepairStages, Operations,
          Writers, Result, Write, Unwritten, IsRun, Go, At, vars, file, units,
          tasks, ui, repairing
    <3>4. /\ good' \in [Runs -> BOOLEAN]
          /\ cancelled' \in [Runs -> BOOLEAN]
      BY <2>5
      DEF TypeOK, Runs, Stages, States, Statuses, RepairStages, Operations,
          Writers, Result, Write, Unwritten, IsRun, Go, At, vars, file, units,
          tasks, ui, repairing
    <3>5. /\ timer' \in BOOLEAN
          /\ pending' \in BOOLEAN
          /\ repairOk' \in BOOLEAN
          /\ lost' \in BOOLEAN
      BY <2>5
      DEF TypeOK, Runs, Stages, States, Statuses, RepairStages, Operations,
          Writers, Result, Write, Unwritten, IsRun, Go, At, vars, file, units,
          tasks, ui, repairing
    <3> QED BY <3>1, <3>2, <3>3, <3>4, <3>5 DEF TypeOK
  <2>6. CASE ResultUnwritten(r)
    BY <2>6
    DEF TypeOK, Runs, Stages, States, Statuses, RepairStages, Operations,
        Writers, ResultUnwritten, Unwritten, IsRun, Go, At, vars, file, units,
        tasks, ui, repairing
  <2>7. cancelled[r] \in BOOLEAN
    BY DEF TypeOK, ControlInv
  <2> QED
    BY <1>5, <2>1, <2>2, <2>3, <2>4, <2>5, <2>6, <2>7 DEF RunStep
<1>6. CASE TimerFires
  BY <1>6
  DEF TypeOK, Runs, Stages, States, Statuses, RepairStages, Operations,
      Writers, TimerFires, Go, vars, file, units, tasks, ui, repairing
<1>7. CASE RequestRepair
  BY <1>7
  DEF TypeOK, Runs, Stages, States, Statuses, RepairStages, Operations,
      Writers, RequestRepair, RepairStep, vars, file, units, tasks, ui,
      repairing
<1>8. CASE RepairTimer
  <2>1. /\ lock' \in Runs \cup {None}
        /\ coord' \in States
        /\ service' \in {"inactive", "active", "failed"}
        /\ stage' \in [Runs -> Stages]
        /\ op' \in [Runs -> Operations \cup {None}]
    BY <1>8
    DEF TypeOK, Runs, Stages, States, Statuses, RepairStages, Operations,
        Writers, RepairTimer, RepairStep, vars, file, units, tasks, ui,
        repairing
  <2>2. /\ control' \in Manual \cup {None}
        /\ repair' \in RepairStages
        /\ repairCtl' \in Manual \cup {None}
        /\ obs' \in Statuses \cup {None}
        /\ by' \in Writers \cup {None}
    BY <1>8
    DEF TypeOK, Runs, Stages, States, Statuses, RepairStages, Operations,
        Writers, RepairTimer, RepairStep, vars, file, units, tasks, ui,
        repairing
  <2>3. /\ good' \in [Runs -> BOOLEAN]
        /\ cancelled' \in [Runs -> BOOLEAN]
    BY <1>8
    DEF TypeOK, Runs, Stages, States, Statuses, RepairStages, Operations,
        Writers, RepairTimer, RepairStep, vars, file, units, tasks, ui,
        repairing
  <2>4. /\ timer' \in BOOLEAN
        /\ pending' \in BOOLEAN
        /\ repairOk' \in BOOLEAN
        /\ lost' \in BOOLEAN
    BY <1>8
    DEF TypeOK, Runs, Stages, States, Statuses, RepairStages, Operations,
        Writers, RepairTimer, RepairStep, vars, file, units, tasks, ui,
        repairing
  <2> QED BY <2>1, <2>2, <2>3, <2>4 DEF TypeOK
<1>9. CASE RepairCancel
  BY <1>9
  DEF TypeOK, Runs, Stages, States, Statuses, RepairStages, Operations,
      Writers, RepairCancel, RepairStep, At, vars, file, units, tasks, ui,
      repairing
<1>10. CASE RepairWaited
  BY <1>10
  DEF TypeOK, Runs, Stages, States, Statuses, RepairStages, Operations,
      Writers, RepairWaited, RepairStep, ManualFinished, vars, file, units,
      tasks, ui, repairing
<1>11. CASE RepairService
  <2>1. /\ lock' \in Runs \cup {None}
        /\ coord' \in States
        /\ by' \in Writers \cup {None}
        /\ service' \in {"inactive", "active", "failed"}
    BY <1>11
    DEF TypeOK, Runs, Stages, States, Statuses, RepairStages, Operations,
        Writers, RepairService, Idle, vars, file, units, tasks, ui, repairing
  <2>2. /\ stage' \in [Runs -> Stages]
        /\ op' \in [Runs -> Operations \cup {None}]
    BY <1>11
    DEF TypeOK, Runs, Stages, States, Statuses, RepairStages, Operations,
        Writers, RepairService, Idle, vars, file, units, tasks, ui, repairing
  <2>3. /\ control' \in Manual \cup {None}
        /\ repair' \in RepairStages
        /\ repairCtl' \in Manual \cup {None}
        /\ obs' \in Statuses \cup {None}
    BY <1>11
    DEF TypeOK, Runs, Stages, States, Statuses, RepairStages, Operations,
        Writers, RepairService, Idle, vars, file, units, tasks, ui, repairing
  <2>4. /\ good' \in [Runs -> BOOLEAN]
        /\ cancelled' \in [Runs -> BOOLEAN]
    BY <1>11
    DEF TypeOK, Runs, Stages, States, Statuses, RepairStages, Operations,
        Writers, RepairService, Idle, vars, file, units, tasks, ui, repairing
  <2>5. /\ timer' \in BOOLEAN
        /\ pending' \in BOOLEAN
        /\ repairOk' \in BOOLEAN
        /\ lost' \in BOOLEAN
    BY <1>11
    DEF TypeOK, Runs, Stages, States, Statuses, RepairStages, Operations,
        Writers, RepairService, Idle, vars, file, units, tasks, ui, repairing
  <2> QED BY <2>1, <2>2, <2>3, <2>4, <2>5 DEF TypeOK
<1>12. CASE RepairClaim
  BY <1>12
  DEF TypeOK, Runs, Stages, States, Statuses, RepairStages, Operations,
      Writers, RepairClaim, Write, Unwritten, RepairStep, vars, file, units,
      tasks, ui, repairing
<1>13. CASE RepairFail
  <2>1. /\ lock' \in Runs \cup {None}
        /\ coord' \in States
        /\ service' \in {"inactive", "active", "failed"}
        /\ stage' \in [Runs -> Stages]
        /\ op' \in [Runs -> Operations \cup {None}]
    BY <1>13
    DEF TypeOK, Runs, Stages, States, Statuses, RepairStages, Operations,
        Writers, RepairFail, vars, file, units, tasks, ui, repairing
  <2>2. /\ control' \in Manual \cup {None}
        /\ repair' \in RepairStages
        /\ repairCtl' \in Manual \cup {None}
        /\ obs' \in Statuses \cup {None}
        /\ by' \in Writers \cup {None}
    BY <1>13
    DEF TypeOK, Runs, Stages, States, Statuses, RepairStages, Operations,
        Writers, RepairFail, vars, file, units, tasks, ui, repairing
  <2>3. /\ good' \in [Runs -> BOOLEAN]
        /\ cancelled' \in [Runs -> BOOLEAN]
    BY <1>13
    DEF TypeOK, Runs, Stages, States, Statuses, RepairStages, Operations,
        Writers, RepairFail, vars, file, units, tasks, ui, repairing
  <2>4. /\ timer' \in BOOLEAN
        /\ pending' \in BOOLEAN
        /\ repairOk' \in BOOLEAN
        /\ lost' \in BOOLEAN
    BY <1>13
    DEF TypeOK, Runs, Stages, States, Statuses, RepairStages, Operations,
        Writers, RepairFail, vars, file, units, tasks, ui, repairing
  <2> QED BY <2>1, <2>2, <2>3, <2>4 DEF TypeOK
<1>14. CASE RepairResult
  <2>1. /\ lock' \in Runs \cup {None}
        /\ coord' \in States
        /\ by' \in Writers \cup {None}
        /\ service' \in {"inactive", "active", "failed"}
    BY <1>14
    DEF TypeOK, Runs, Stages, States, Statuses, RepairStages, Operations,
        Writers, RepairResult, Write, Unwritten, RepairStep, vars, file,
        units, tasks, ui, repairing
  <2>2. /\ stage' \in [Runs -> Stages]
        /\ op' \in [Runs -> Operations \cup {None}]
    BY <1>14
    DEF TypeOK, Runs, Stages, States, Statuses, RepairStages, Operations,
        Writers, RepairResult, Write, Unwritten, RepairStep, vars, file,
        units, tasks, ui, repairing
  <2>3. /\ control' \in Manual \cup {None}
        /\ repair' \in RepairStages
        /\ repairCtl' \in Manual \cup {None}
        /\ obs' \in Statuses \cup {None}
    BY <1>14
    DEF TypeOK, Runs, Stages, States, Statuses, RepairStages, Operations,
        Writers, RepairResult, Write, Unwritten, RepairStep, vars, file,
        units, tasks, ui, repairing
  <2>4. /\ good' \in [Runs -> BOOLEAN]
        /\ cancelled' \in [Runs -> BOOLEAN]
    BY <1>14
    DEF TypeOK, Runs, Stages, States, Statuses, RepairStages, Operations,
        Writers, RepairResult, Write, Unwritten, RepairStep, vars, file,
        units, tasks, ui, repairing
  <2>5. /\ timer' \in BOOLEAN
        /\ pending' \in BOOLEAN
        /\ repairOk' \in BOOLEAN
        /\ lost' \in BOOLEAN
    BY <1>14
    DEF TypeOK, Runs, Stages, States, Statuses, RepairStages, Operations,
        Writers, RepairResult, Write, Unwritten, RepairStep, vars, file,
        units, tasks, ui, repairing
  <2> QED BY <2>1, <2>2, <2>3, <2>4, <2>5 DEF TypeOK
<1>15. CASE RepairCompleted
  BY <1>15
  DEF TypeOK, Runs, Stages, States, Statuses, RepairStages, Operations,
      Writers, RepairCompleted, RepairStep, vars, file, units, tasks, ui,
      repairing
<1>16. CASE AppletDies
  <2>1. /\ lock' \in Runs \cup {None}
        /\ coord' \in States
        /\ service' \in {"inactive", "active", "failed"}
        /\ stage' \in [Runs -> Stages]
        /\ op' \in [Runs -> Operations \cup {None}]
    BY <1>16
    DEF TypeOK, Runs, Stages, States, Statuses, RepairStages, Operations,
        Writers, AppletDies, Idle, vars, file, units, tasks, ui, repairing
  <2>2. /\ control' \in Manual \cup {None}
        /\ repair' \in RepairStages
        /\ repairCtl' \in Manual \cup {None}
        /\ obs' \in Statuses \cup {None}
        /\ by' \in Writers \cup {None}
    BY <1>16
    DEF TypeOK, Runs, Stages, States, Statuses, RepairStages, Operations,
        Writers, AppletDies, Idle, vars, file, units, tasks, ui, repairing
  <2>3. /\ good' \in [Runs -> BOOLEAN]
        /\ cancelled' \in [Runs -> BOOLEAN]
    BY <1>16
    DEF TypeOK, Runs, Stages, States, Statuses, RepairStages, Operations,
        Writers, AppletDies, Idle, vars, file, units, tasks, ui, repairing
  <2>4. /\ timer' \in BOOLEAN
        /\ pending' \in BOOLEAN
        /\ repairOk' \in BOOLEAN
        /\ lost' \in BOOLEAN
    BY <1>16
    DEF TypeOK, Runs, Stages, States, Statuses, RepairStages, Operations,
        Writers, AppletDies, Idle, vars, file, units, tasks, ui, repairing
  <2> QED BY <2>1, <2>2, <2>3, <2>4 DEF TypeOK
<1>17. CASE UNCHANGED vars
  BY <1>17
  DEF TypeOK, Runs, Stages, States, Statuses, RepairStages, Operations,
      Writers, vars, file, units, tasks, ui, repairing
<1>18. CASE WorkerDies
  <2>1. /\ lock' \in Runs \cup {None}
        /\ coord' \in States
        /\ by' \in Writers \cup {None}
        /\ service' \in {"inactive", "active", "failed"}
    BY <1>18
    DEF TypeOK, Runs, Stages, States, Statuses, RepairStages, Operations,
        Writers, WorkerDies, Idle, vars, file, units, tasks, ui, repairing
  <2>2. /\ stage' \in [Runs -> Stages]
        /\ op' \in [Runs -> Operations \cup {None}]
    BY <1>18
    DEF TypeOK, Runs, Stages, States, Statuses, RepairStages, Operations,
        Writers, WorkerDies, Idle, vars, file, units, tasks, ui, repairing
  <2>3. /\ control' \in Manual \cup {None}
        /\ repair' \in RepairStages
        /\ repairCtl' \in Manual \cup {None}
        /\ obs' \in Statuses \cup {None}
    BY <1>18
    DEF TypeOK, Runs, Stages, States, Statuses, RepairStages, Operations,
        Writers, WorkerDies, Idle, vars, file, units, tasks, ui, repairing
  <2>4. /\ good' \in [Runs -> BOOLEAN]
        /\ cancelled' \in [Runs -> BOOLEAN]
    BY <1>18
    DEF TypeOK, Runs, Stages, States, Statuses, RepairStages, Operations,
        Writers, WorkerDies, Idle, vars, file, units, tasks, ui, repairing
  <2>5. /\ timer' \in BOOLEAN
        /\ pending' \in BOOLEAN
        /\ repairOk' \in BOOLEAN
        /\ lost' \in BOOLEAN
    BY <1>18
    DEF TypeOK, Runs, Stages, States, Statuses, RepairStages, Operations,
        Writers, WorkerDies, Idle, vars, file, units, tasks, ui, repairing
  <2> QED BY <2>1, <2>2, <2>3, <2>4, <2>5 DEF TypeOK
<1> QED
  BY <1>1, <1>2, <1>3, <1>4, <1>5, <1>6, <1>7, <1>8, <1>9, <1>10, <1>11,
     <1>12, <1>13, <1>14, <1>15, <1>16, <1>17, <1>18
  DEF Next, RepairProgress

\* Only coordinator runs reach a stage of the coordinator.
LEMMA SlotStep == TypeOK /\ SlotInv /\ [Next]_vars => SlotInv'
<1> SUFFICES ASSUME TypeOK, SlotInv, [Next]_vars PROVE SlotInv'
  OBVIOUS
<1>1. CASE Observe
  BY <1>1
  DEF SlotInv, TypeOK, Runs, Operations, IsRun, Observe, Observed, UnitState,
      vars, file, units, tasks, ui, repairing
<1>2. ASSUME NEW m \in Manual, NEW q \in Operations, Request(m, q)
      PROVE  SlotInv'
  BY <1>2
  DEF SlotInv, TypeOK, Runs, Operations, IsRun, Request, MayRequest, Offered,
      MirrorStatus, Go, At, vars, file, units, tasks, ui, repairing
<1>3. ASSUME NEW m \in Manual, Completed(m) PROVE SlotInv'
  BY <1>3
  DEF SlotInv, TypeOK, Runs, Operations, IsRun, Completed, Idle, At, vars,
      file, units, tasks, ui, repairing
<1>4. ASSUME NEW m \in Manual, TrackedStep(m) PROVE SlotInv'
  <2>1. CASE TrackedBegin(m)
    BY <2>1
    DEF SlotInv, TypeOK, Runs, Operations, IsRun, TrackedBegin, Write,
        Unwritten, Tracked, Go, At, vars, file, units, tasks, ui, repairing
  <2>2. CASE TimerOff(m)
    BY <2>2
    DEF SlotInv, TypeOK, Runs, Operations, IsRun, TimerOff, Tracked, Go, At,
        vars, file, units, tasks, ui, repairing
  <2>3. CASE PauseService(m)
    BY <2>3
    DEF SlotInv, TypeOK, Runs, Operations, IsRun, PauseService, StopService,
        At, vars, file, units, tasks, ui, repairing
  <2>4. CASE ResumeTimer(m)
    BY <2>4
    DEF SlotInv, TypeOK, Runs, Operations, IsRun, ResumeTimer, Go, At, vars,
        file, units, tasks, ui, repairing
  <2>5. CASE TrackedFail(m)
    BY <2>5
    DEF SlotInv, TypeOK, Runs, Operations, IsRun, TrackedFail, Tracked, Go,
        At, vars, file, units, tasks, ui, repairing
  <2>6. CASE TrackedResult(m)
    BY <2>6
    DEF SlotInv, TypeOK, Runs, Operations, IsRun, TrackedResult, Write,
        Unwritten, Tracked, Go, At, vars, file, units, tasks, ui, repairing
  <2> QED
    BY <1>4, <2>1, <2>2, <2>3, <2>4, <2>5, <2>6 DEF TrackedStep
<1>5. ASSUME NEW r \in Runs, RunStep(r) PROVE SlotInv'
  <2>1. CASE Admit(r)
    BY <2>1
    DEF SlotInv, TypeOK, Runs, Operations, IsRun, Admit, Go, At, vars, file,
        units, tasks, ui, repairing
  <2>2. CASE Refuse(r)
    BY <2>2, ReturnFrame
    DEF SlotInv, TypeOK, Runs, Operations, Refuse, IsRun, UnitAfter, At, vars,
        file, units, tasks, ui, repairing
  <2>3. CASE Publish(r)
    BY <2>3
    DEF SlotInv, TypeOK, Runs, Operations, IsRun, Publish, Write, Unwritten,
        Go, At, vars, file, units, tasks, ui, repairing
  <2>4. CASE Unlock(r)
    BY <2>4, ReturnFrame
    DEF SlotInv, TypeOK, Runs, Operations, Unlock, IsRun, UnitAfter, At, vars,
        file, units, tasks, ui, repairing
  <2>5. ASSUME NEW success \in BOOLEAN, Result(r, success) PROVE SlotInv'
    BY <2>5
    DEF SlotInv, TypeOK, Runs, Operations, IsRun, Result, Write, Unwritten,
        Go, At, vars, file, units, tasks, ui, repairing
  <2>6. CASE ResultUnwritten(r)
    BY <2>6
    DEF SlotInv, TypeOK, Runs, Operations, IsRun, ResultUnwritten, Unwritten,
        IsRun, Go, At, vars, file, units, tasks, ui, repairing
  <2>7. cancelled[r] \in BOOLEAN
    BY DEF TypeOK, ControlInv
  <2> QED
    BY <1>5, <2>1, <2>2, <2>3, <2>4, <2>5, <2>6, <2>7 DEF RunStep
<1>6. CASE TimerFires
  BY <1>6
  DEF SlotInv, TypeOK, Runs, Operations, IsRun, TimerFires, Go, vars, file,
      units, tasks, ui, repairing
<1>7. CASE RequestRepair
  BY <1>7
  DEF SlotInv, TypeOK, Runs, Operations, IsRun, RequestRepair, RepairStep,
      vars, file, units, tasks, ui, repairing
<1>8. CASE RepairTimer
  BY <1>8
  DEF SlotInv, TypeOK, Runs, Operations, IsRun, RepairTimer, RepairStep, vars,
      file, units, tasks, ui, repairing
<1>9. CASE RepairCancel
  BY <1>9
  DEF SlotInv, TypeOK, Runs, Operations, IsRun, RepairCancel, RepairStep, At,
      vars, file, units, tasks, ui, repairing
<1>10. CASE RepairWaited
  BY <1>10
  DEF SlotInv, TypeOK, Runs, Operations, IsRun, RepairWaited, RepairStep,
      ManualFinished, vars, file, units, tasks, ui, repairing
<1>11. CASE RepairService
  BY <1>11
  DEF SlotInv, TypeOK, Runs, Operations, IsRun, RepairService, Idle, vars,
      file, units, tasks, ui, repairing
<1>12. CASE RepairClaim
  BY <1>12
  DEF SlotInv, TypeOK, Runs, Operations, IsRun, RepairClaim, Write, Unwritten,
      RepairStep, vars, file, units, tasks, ui, repairing
<1>13. CASE RepairFail
  BY <1>13
  DEF SlotInv, TypeOK, Runs, Operations, IsRun, RepairFail, vars, file, units,
      tasks, ui, repairing
<1>14. CASE RepairResult
  BY <1>14
  DEF SlotInv, TypeOK, Runs, Operations, IsRun, RepairResult, Write,
      Unwritten, RepairStep, vars, file, units, tasks, ui, repairing
<1>15. CASE RepairCompleted
  BY <1>15
  DEF SlotInv, TypeOK, Runs, Operations, IsRun, RepairCompleted, RepairStep,
      vars, file, units, tasks, ui, repairing
<1>16. CASE AppletDies
  BY <1>16
  DEF SlotInv, TypeOK, Runs, Operations, IsRun, AppletDies, Idle, vars, file,
      units, tasks, ui, repairing
<1>17. CASE UNCHANGED vars
  BY <1>17
  DEF SlotInv, TypeOK, Runs, Operations, IsRun, vars, file, units, tasks, ui,
      repairing
<1>18. CASE WorkerDies
  BY <1>18
  DEF SlotInv, TypeOK, Runs, Operations, IsRun, WorkerDies, Idle, vars, file,
      units, tasks, ui, repairing
<1> QED
  BY <1>1, <1>2, <1>3, <1>4, <1>5, <1>6, <1>7, <1>8, <1>9, <1>10, <1>11,
     <1>12, <1>13, <1>14, <1>15, <1>16, <1>17, <1>18
  DEF Next, RepairProgress

\* The lock follows the run that is past its guards, also when it is killed.
LEMMA LockStep == TypeOK /\ SlotInv /\ LockInv /\ [Next]_vars => LockInv'
<1> SUFFICES ASSUME TypeOK, SlotInv, LockInv, [Next]_vars PROVE LockInv'
  OBVIOUS
<1>1. CASE Observe
  BY <1>1
  DEF LockInv, SlotInv, TypeOK, Runs, Stages, IsRun, Observe, Observed,
      UnitState, vars, file, units, tasks, ui, repairing
<1>2. ASSUME NEW m \in Manual, NEW q \in Operations, Request(m, q)
      PROVE  LockInv'
  BY <1>2
  DEF LockInv, SlotInv, TypeOK, Runs, Stages, IsRun, Request, MayRequest,
      Offered, MirrorStatus, Go, At, vars, file, units, tasks, ui, repairing
<1>3. ASSUME NEW m \in Manual, Completed(m) PROVE LockInv'
  BY <1>3
  DEF LockInv, SlotInv, TypeOK, Runs, Stages, IsRun, Completed, Idle, At,
      vars, file, units, tasks, ui, repairing
<1>4. ASSUME NEW m \in Manual, TrackedStep(m) PROVE LockInv'
  <2>1. CASE TrackedBegin(m)
    BY <2>1
    DEF LockInv, SlotInv, TypeOK, Runs, Stages, IsRun, TrackedBegin, Write,
        Unwritten, Tracked, Go, At, vars, file, units, tasks, ui, repairing
  <2>2. CASE TimerOff(m)
    BY <2>2
    DEF LockInv, SlotInv, TypeOK, Runs, Stages, IsRun, TimerOff, Tracked, Go,
        At, vars, file, units, tasks, ui, repairing
  <2>3. CASE PauseService(m)
    BY <2>3
    DEF LockInv, SlotInv, TypeOK, Runs, Stages, IsRun, PauseService,
        StopService, At, vars, file, units, tasks, ui, repairing
  <2>4. CASE ResumeTimer(m)
    BY <2>4
    DEF LockInv, SlotInv, TypeOK, Runs, Stages, IsRun, ResumeTimer, Go, At,
        vars, file, units, tasks, ui, repairing
  <2>5. CASE TrackedFail(m)
    BY <2>5
    DEF LockInv, SlotInv, TypeOK, Runs, Stages, IsRun, TrackedFail, Tracked,
        Go, At, vars, file, units, tasks, ui, repairing
  <2>6. CASE TrackedResult(m)
    BY <2>6
    DEF LockInv, SlotInv, TypeOK, Runs, Stages, IsRun, TrackedResult, Write,
        Unwritten, Tracked, Go, At, vars, file, units, tasks, ui, repairing
  <2> QED
    BY <1>4, <2>1, <2>2, <2>3, <2>4, <2>5, <2>6 DEF TrackedStep
<1>5. ASSUME NEW r \in Runs, RunStep(r) PROVE LockInv'
  <2>1. CASE Admit(r)
    BY <2>1
    DEF LockInv, SlotInv, TypeOK, Runs, Stages, IsRun, Admit, Go, At, vars,
        file, units, tasks, ui, repairing
  <2>2. CASE Refuse(r)
    BY <2>2, ReturnFrame
    DEF LockInv, SlotInv, TypeOK, Runs, Refuse, IsRun, UnitAfter, At, vars,
        file, units, tasks, ui, repairing
  <2>3. CASE Publish(r)
    BY <2>3
    DEF LockInv, SlotInv, TypeOK, Runs, Stages, IsRun, Publish, Write,
        Unwritten, Go, At, vars, file, units, tasks, ui, repairing
  <2>4. CASE Unlock(r)
    BY <2>4, ReturnFrame
    DEF LockInv, SlotInv, TypeOK, Runs, Unlock, IsRun, UnitAfter, At, vars,
        file, units, tasks, ui, repairing
  <2>5. ASSUME NEW success \in BOOLEAN, Result(r, success) PROVE LockInv'
    BY <2>5
    DEF LockInv, SlotInv, TypeOK, Runs, Stages, IsRun, Result, Write,
        Unwritten, Go, At, vars, file, units, tasks, ui, repairing
  <2>6. CASE ResultUnwritten(r)
    BY <2>6
    DEF LockInv, SlotInv, TypeOK, Runs, Stages, IsRun, ResultUnwritten,
        Unwritten, IsRun, Go, At, vars, file, units, tasks, ui, repairing
  <2>7. cancelled[r] \in BOOLEAN
    BY DEF TypeOK, ControlInv
  <2> QED
    BY <1>5, <2>1, <2>2, <2>3, <2>4, <2>5, <2>6, <2>7 DEF RunStep
<1>6. CASE TimerFires
  BY <1>6
  DEF LockInv, SlotInv, TypeOK, Runs, Stages, IsRun, TimerFires, Go, vars,
      file, units, tasks, ui, repairing
<1>7. CASE RequestRepair
  BY <1>7
  DEF LockInv, SlotInv, TypeOK, Runs, Stages, IsRun, RequestRepair,
      RepairStep, vars, file, units, tasks, ui, repairing
<1>8. CASE RepairTimer
  BY <1>8
  DEF LockInv, SlotInv, TypeOK, Runs, Stages, IsRun, RepairTimer, RepairStep,
      vars, file, units, tasks, ui, repairing
<1>9. CASE RepairCancel
  BY <1>9
  DEF LockInv, SlotInv, TypeOK, Runs, Stages, IsRun, RepairCancel, RepairStep,
      At, vars, file, units, tasks, ui, repairing
<1>10. CASE RepairWaited
  BY <1>10
  DEF LockInv, SlotInv, TypeOK, Runs, Stages, IsRun, RepairWaited, RepairStep,
      ManualFinished, vars, file, units, tasks, ui, repairing
<1>11. CASE RepairService
  BY <1>11
  DEF LockInv, SlotInv, TypeOK, Runs, Stages, IsRun, RepairService, Idle,
      vars, file, units, tasks, ui, repairing
<1>12. CASE RepairClaim
  BY <1>12
  DEF LockInv, SlotInv, TypeOK, Runs, Stages, IsRun, RepairClaim, Write,
      Unwritten, RepairStep, vars, file, units, tasks, ui, repairing
<1>13. CASE RepairFail
  BY <1>13
  DEF LockInv, SlotInv, TypeOK, Runs, Stages, IsRun, RepairFail, vars, file,
      units, tasks, ui, repairing
<1>14. CASE RepairResult
  BY <1>14
  DEF LockInv, SlotInv, TypeOK, Runs, Stages, IsRun, RepairResult, Write,
      Unwritten, RepairStep, vars, file, units, tasks, ui, repairing
<1>15. CASE RepairCompleted
  BY <1>15
  DEF LockInv, SlotInv, TypeOK, Runs, Stages, IsRun, RepairCompleted,
      RepairStep, vars, file, units, tasks, ui, repairing
<1>16. CASE AppletDies
  BY <1>16
  DEF LockInv, SlotInv, TypeOK, Runs, Stages, IsRun, AppletDies, Idle, vars,
      file, units, tasks, ui, repairing
<1>17. CASE UNCHANGED vars
  BY <1>17
  DEF LockInv, SlotInv, TypeOK, Runs, Stages, IsRun, vars, file, units, tasks,
      ui, repairing
<1>18. CASE WorkerDies
  BY <1>18
  DEF LockInv, SlotInv, TypeOK, Runs, Stages, IsRun, WorkerDies, Idle, vars,
      file, units, tasks, ui, repairing
<1> QED
  BY <1>1, <1>2, <1>3, <1>4, <1>5, <1>6, <1>7, <1>8, <1>9, <1>10, <1>11,
     <1>12, <1>13, <1>14, <1>15, <1>16, <1>17, <1>18
  DEF Next, RepairProgress

\* No step leaves Running behind.
LEMMA AbandonedStep == ControlInv /\ NoAbandonedRunning /\ [Next]_vars => NoAbandonedRunning'
<1> SUFFICES ASSUME ControlInv, NoAbandonedRunning, [Next]_vars PROVE NoAbandonedRunning'
  OBVIOUS
<1>1. CASE Observe
  BY <1>1
  DEF NoAbandonedRunning, ControlInv, SlotInv, LockInv, TypeOK, Runs, IsRun,
      Tracked, Owes, RepairOwes, At, Observe, Observed, UnitState, vars, file,
      units, tasks, ui, repairing
<1>2. ASSUME NEW m \in Manual, NEW q \in Operations, Request(m, q)
      PROVE  NoAbandonedRunning'
  BY <1>2
  DEF NoAbandonedRunning, ControlInv, SlotInv, LockInv, TypeOK, Runs, IsRun,
      Tracked, Owes, RepairOwes, At, Request, MayRequest, Offered,
      MirrorStatus, Go, vars, file, units, tasks, ui, repairing
<1>3. ASSUME NEW m \in Manual, Completed(m) PROVE NoAbandonedRunning'
  BY <1>3
  DEF NoAbandonedRunning, ControlInv, SlotInv, LockInv, TypeOK, Runs, IsRun,
      Tracked, Owes, RepairOwes, At, Completed, Idle, vars, file, units,
      tasks, ui, repairing
<1>4. ASSUME NEW m \in Manual, TrackedStep(m) PROVE NoAbandonedRunning'
  <2>1. CASE TrackedBegin(m)
    BY <2>1
    DEF NoAbandonedRunning, ControlInv, SlotInv, LockInv, TypeOK, Runs, IsRun,
        Tracked, Owes, RepairOwes, At, TrackedBegin, Write, Unwritten, Go,
        vars, file, units, tasks, ui, repairing
  <2>2. CASE TimerOff(m)
    BY <2>2
    DEF NoAbandonedRunning, ControlInv, SlotInv, LockInv, TypeOK, Runs, IsRun,
        Tracked, Owes, RepairOwes, At, TimerOff, Go, vars, file, units, tasks,
        ui, repairing
  <2>3. CASE PauseService(m)
    BY <2>3
    DEF NoAbandonedRunning, ControlInv, SlotInv, LockInv, TypeOK, Runs, IsRun,
        Tracked, Owes, RepairOwes, At, PauseService, StopService, vars, file,
        units, tasks, ui, repairing
  <2>4. CASE ResumeTimer(m)
    BY <2>4
    DEF NoAbandonedRunning, ControlInv, SlotInv, LockInv, TypeOK, Runs, IsRun,
        Tracked, Owes, RepairOwes, At, ResumeTimer, Go, vars, file, units,
        tasks, ui, repairing
  <2>5. CASE TrackedFail(m)
    BY <2>5
    DEF NoAbandonedRunning, ControlInv, SlotInv, LockInv, TypeOK, Runs, IsRun,
        Tracked, Owes, RepairOwes, At, TrackedFail, Go, vars, file, units,
        tasks, ui, repairing
  <2>6. CASE TrackedResult(m)
    BY <2>6
    DEF NoAbandonedRunning, ControlInv, SlotInv, LockInv, TypeOK, Runs, IsRun,
        Tracked, Owes, RepairOwes, At, TrackedResult, Write, Unwritten, Go,
        vars, file, units, tasks, ui, repairing
  <2> QED
    BY <1>4, <2>1, <2>2, <2>3, <2>4, <2>5, <2>6 DEF TrackedStep
<1>5. ASSUME NEW r \in Runs, RunStep(r) PROVE NoAbandonedRunning'
  <2>1. CASE Admit(r)
    BY <2>1
    DEF NoAbandonedRunning, ControlInv, SlotInv, LockInv, TypeOK, Runs, IsRun,
        Tracked, Owes, RepairOwes, At, Admit, Go, vars, file, units, tasks,
        ui, repairing
  <2>2. CASE Refuse(r)
    BY <2>2, ReturnFrame
    DEF NoAbandonedRunning, ControlInv, SlotInv, TypeOK, Runs, Tracked, Owes,
        RepairOwes, Operations, Refuse, IsRun, UnitAfter, At, vars, file,
        units, tasks, ui, repairing
  <2>3. CASE Publish(r)
    BY <2>3
    DEF NoAbandonedRunning, ControlInv, SlotInv, LockInv, TypeOK, Runs, IsRun,
        Tracked, Owes, RepairOwes, At, Publish, Write, Unwritten, Go, vars,
        file, units, tasks, ui, repairing
  <2>4. CASE Unlock(r)
    BY <2>4, ReturnFrame
    DEF NoAbandonedRunning, ControlInv, SlotInv, TypeOK, Runs, Tracked, Owes,
        RepairOwes, Operations, Unlock, IsRun, UnitAfter, At, vars, file,
        units, tasks, ui, repairing
  <2>5. ASSUME NEW success \in BOOLEAN, Result(r, success) PROVE NoAbandonedRunning'
    BY <2>5
    DEF NoAbandonedRunning, ControlInv, SlotInv, LockInv, TypeOK, Runs, IsRun,
        Tracked, Owes, RepairOwes, At, Result, Write, Unwritten, Go, vars,
        file, units, tasks, ui, repairing
  <2>6. CASE ResultUnwritten(r)
    BY <2>6
    DEF NoAbandonedRunning, ControlInv, SlotInv, LockInv, TypeOK, Runs, IsRun,
        Tracked, Owes, RepairOwes, At, ResultUnwritten, Unwritten, IsRun, Go,
        At, vars, file, units, tasks, ui, repairing
  <2>7. cancelled[r] \in BOOLEAN
    BY DEF TypeOK, ControlInv
  <2> QED
    BY <1>5, <2>1, <2>2, <2>3, <2>4, <2>5, <2>6, <2>7 DEF RunStep
<1>6. CASE TimerFires
  BY <1>6
  DEF NoAbandonedRunning, ControlInv, SlotInv, LockInv, TypeOK, Runs, IsRun,
      Tracked, Owes, RepairOwes, At, TimerFires, Go, vars, file, units, tasks,
      ui, repairing
<1>7. CASE RequestRepair
  BY <1>7
  DEF NoAbandonedRunning, ControlInv, SlotInv, LockInv, TypeOK, Runs, IsRun,
      Tracked, Owes, RepairOwes, At, RequestRepair, RepairStep, vars, file,
      units, tasks, ui, repairing
<1>8. CASE RepairTimer
  BY <1>8
  DEF NoAbandonedRunning, ControlInv, SlotInv, LockInv, TypeOK, Runs, IsRun,
      Tracked, Owes, RepairOwes, At, RepairTimer, RepairStep, vars, file,
      units, tasks, ui, repairing
<1>9. CASE RepairCancel
  BY <1>9
  DEF NoAbandonedRunning, ControlInv, SlotInv, LockInv, TypeOK, Runs, IsRun,
      Tracked, Owes, RepairOwes, At, RepairCancel, RepairStep, vars, file,
      units, tasks, ui, repairing
<1>10. CASE RepairWaited
  BY <1>10
  DEF NoAbandonedRunning, ControlInv, SlotInv, LockInv, TypeOK, Runs, IsRun,
      Tracked, Owes, RepairOwes, At, RepairWaited, RepairStep, ManualFinished,
      vars, file, units, tasks, ui, repairing
<1>11. CASE RepairService
  BY <1>11
  DEF NoAbandonedRunning, ControlInv, SlotInv, LockInv, TypeOK, Runs, IsRun,
      Tracked, Owes, RepairOwes, At, RepairService, Idle, vars, file, units,
      tasks, ui, repairing
<1>12. CASE RepairClaim
  BY <1>12
  DEF NoAbandonedRunning, ControlInv, SlotInv, LockInv, TypeOK, Runs, IsRun,
      Tracked, Owes, RepairOwes, At, RepairClaim, Write, Unwritten,
      RepairStep, vars, file, units, tasks, ui, repairing
<1>13. CASE RepairFail
  BY <1>13
  DEF NoAbandonedRunning, ControlInv, SlotInv, LockInv, TypeOK, Runs, IsRun,
      Tracked, Owes, RepairOwes, At, RepairFail, vars, file, units, tasks, ui,
      repairing
<1>14. CASE RepairResult
  BY <1>14
  DEF NoAbandonedRunning, ControlInv, SlotInv, LockInv, TypeOK, Runs, IsRun,
      Tracked, Owes, RepairOwes, At, RepairResult, Write, Unwritten,
      RepairStep, vars, file, units, tasks, ui, repairing
<1>15. CASE RepairCompleted
  BY <1>15
  DEF NoAbandonedRunning, ControlInv, SlotInv, LockInv, TypeOK, Runs, IsRun,
      Tracked, Owes, RepairOwes, At, RepairCompleted, RepairStep, vars, file,
      units, tasks, ui, repairing
<1>16. CASE AppletDies
  BY <1>16
  DEF NoAbandonedRunning, ControlInv, SlotInv, LockInv, TypeOK, Runs, IsRun,
      Tracked, Owes, RepairOwes, At, AppletDies, Idle, vars, file, units,
      tasks, ui, repairing
<1>17. CASE UNCHANGED vars
  BY <1>17
  DEF NoAbandonedRunning, ControlInv, SlotInv, LockInv, TypeOK, Runs, IsRun,
      Tracked, Owes, RepairOwes, At, vars, file, units, tasks, ui, repairing
<1>18. CASE WorkerDies
  BY <1>18
  DEF NoAbandonedRunning, ControlInv, SlotInv, LockInv, TypeOK, Runs, IsRun,
      Tracked, Owes, RepairOwes, At, WorkerDies, Idle, vars, file, units,
      tasks, ui, repairing
<1> QED
  BY <1>1, <1>2, <1>3, <1>4, <1>5, <1>6, <1>7, <1>8, <1>9, <1>10, <1>11,
     <1>12, <1>13, <1>14, <1>15, <1>16, <1>17, <1>18
  DEF Next, RepairProgress

\* A saved and paused mirror satisfies the invariants.
LEMMA ControlBegins == Init => ControlInv /\ NoAbandonedRunning
<1> SUFFICES ASSUME Init PROVE ControlInv /\ NoAbandonedRunning
  OBVIOUS
<1>1. TypeOK
  <2>1. /\ stage \in [Runs -> Stages]
        /\ op \in [Runs -> Operations \cup {None}]
        /\ good \in [Runs -> BOOLEAN]
        /\ cancelled \in [Runs -> BOOLEAN]
    BY DEF Init, Stages
  <2>2. timer \in BOOLEAN /\ pending \in BOOLEAN /\ repairOk \in BOOLEAN /\ lost \in BOOLEAN
    BY DEF Init
  <2> QED BY <2>1, <2>2 DEF Init, TypeOK, States, RepairStages
<1>2. LockInv /\ SlotInv /\ NoAbandonedRunning
  BY DEF Init, LockInv, SlotInv, NoAbandonedRunning, Runs
<1> QED BY <1>1, <1>2 DEF ControlInv

\* ControlInv holds whatever requests, timer ticks, Repairs and deaths of the
\* applet interleave.
THEOREM ControlInvariance == Spec => []ControlInv
<1>1. ControlInv /\ [Next]_vars => ControlInv'
  BY TypeStep, SlotStep, LockStep DEF ControlInv
<1> QED BY ControlBegins, <1>1, PTL DEF Spec

\* Two coordinator runs are never open together (RunExclusion), for any number
\* of operations that the user has in flight at once.
THEOREM RunsExclusive == Spec => []RunExclusion
<1>1. ControlInv => RunExclusion
  BY DEF ControlInv, LockInv, RunExclusion, At
<1> QED BY ControlInvariance, <1>1, PTL

\* Pause, Resume, Repair and the coordinator never leave Running behind while
\* nobody who should replace it has died or failed to write (NoAbandonedRunning),
\* for any number of operations, deaths and failing writes.
THEOREM RunningNotAbandoned == Spec => []NoAbandonedRunning
<1>1. NoAbandonedRunning /\ ControlInv /\ [Next]_vars => NoAbandonedRunning'
  BY AbandonedStep
<1> QED BY ControlBegins, ControlInvariance, <1>1, PTL DEF Spec

\* A step either leaves the lock free and the file alone, or writes something else
\* than the Running of Repair, or is the claim of Repair.
LEMMA ShieldStep == ControlInv /\ RepairShielded /\ [Next]_vars => RepairShielded'
<1> SUFFICES ASSUME ControlInv, RepairShielded, [Next]_vars PROVE RepairShielded'
  OBVIOUS
<1> USE DEF RepairShielded, Write, Unwritten, file
<1>1. CASE Observe
  BY <1>1 DEF Observe
<1>2. ASSUME NEW m \in Manual, NEW q \in Operations, Request(m, q) PROVE RepairShielded'
  BY <1>2 DEF Request
<1>3. ASSUME NEW m \in Manual, Completed(m) PROVE RepairShielded'
  BY <1>3 DEF Completed
<1>4. ASSUME NEW m \in Manual, TrackedStep(m) PROVE RepairShielded'
  <2>1. op[m] # "Repair"
    BY <1>4
    DEF TrackedStep, TrackedBegin, TimerOff, PauseService, ResumeTimer,
        TrackedFail, TrackedResult, Tracked
  <2>2. CASE TrackedBegin(m) \/ TrackedResult(m)
    BY <2>1, <2>2 DEF TrackedBegin, TrackedResult
  <2>3. CASE PauseService(m)
    BY <2>3 DEF PauseService, StopService
  <2>4. CASE TimerOff(m) \/ ResumeTimer(m) \/ TrackedFail(m)
    BY <2>4 DEF TimerOff, ResumeTimer, TrackedFail
  <2> QED
    BY <1>4, <2>2, <2>3, <2>4 DEF TrackedStep
<1>5. ASSUME NEW r \in Runs, RunStep(r) PROVE RepairShielded'
  <2>1. CASE Admit(r)
    BY <2>1 DEF Admit
  <2>2. CASE Refuse(r) \/ Unlock(r)
    BY <2>2 DEF Refuse, Unlock
  <2>3. CASE Publish(r)
    BY <2>3 DEF Publish
  <2>4. ASSUME NEW success, Result(r, success) PROVE RepairShielded'
    BY <2>4 DEF Result
  <2>5. CASE ResultUnwritten(r)
    BY <2>5 DEF ResultUnwritten
  <2> QED
    BY <1>5, <2>1, <2>2, <2>3, <2>4, <2>5 DEF RunStep
<1>6. CASE TimerFires \/ RequestRepair \/ RepairTimer \/ RepairCancel \/ RepairWaited
  BY <1>6 DEF TimerFires, RequestRepair, RepairTimer, RepairCancel, RepairWaited
<1>7. CASE RepairService
  BY <1>7 DEF RepairService
<1>8. CASE RepairClaim
  BY <1>8 DEF RepairClaim
<1>9. CASE RepairFail \/ RepairCompleted
  BY <1>9 DEF RepairFail, RepairCompleted
<1>10. CASE RepairResult
  BY <1>10 DEF RepairResult
<1>11. CASE AppletDies \/ WorkerDies
  BY <1>11 DEF AppletDies, WorkerDies
<1>12. CASE UNCHANGED vars
  BY <1>12 DEF vars
<1> QED
  BY <1>1, <1>2, <1>3, <1>4, <1>5, <1>6, <1>7, <1>8, <1>9, <1>10, <1>11, <1>12
  DEF Next, RepairProgress

\* While the file holds the Running of Repair no run of the coordinator has the
\* lock (RepairShielded), however many operations overlap with the Repair.
THEOREM RepairsShielded == Spec => []RepairShielded
<1>1. Init => RepairShielded
  BY DEF Init, RepairShielded
<1> QED BY ControlInvariance, <1>1, ShieldStep, PTL DEF Spec

=============================================================================
