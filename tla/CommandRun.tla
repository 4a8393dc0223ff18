----------------------------- MODULE CommandRun -----------------------------
(***************************************************************************)
(* The process runner under a manual operation.  A manual operation runs   *)
(* its commands one after the other; each is a child in a process group of *)
(* its own, retried on a nonzero exit where the request says so, and ended *)
(* by SIGTERM and then SIGKILL to the group when the operation's token is  *)
(* cancelled or the command's timeout passes.  The token is the one of     *)
(* ManualOperationControl, and the operation reaches finish() only through *)
(* the return of the runner: this module composes the two, so that what a  *)
(* Repair is told about the operation can be related to the processes.     *)
(*                                                                         *)
(* Output capture, redaction and the Flatpak wrapper do not change which   *)
(* process is alive and are left out.                                      *)
(***************************************************************************)
EXTENDS ManualOperationControl

CONSTANTS
  MaxAttempts,  \* request.retry.max_attempts
  MaxCommands   \* commands of one operation

VARIABLES
  phase,      \* where run_with_retries and run_once are
  attempt,    \* attempts of this command
  commands,   \* commands started by the operation
  result,     \* what the last command returned
  child,      \* the direct child
  descendant, \* a process that the child left in its group, with the pipes
  temper      \* what the group does on a signal

process == <<phase, attempt, commands, result, child, descendant, temper>>
allvars == <<controlVars, process>>

\* select: run_once waits; term: SIGTERM sent; kill: SIGKILL sent; delay: between
\* two attempts; returned: the future has completed.
Phases == {"select", "term", "kill", "delay", "returned"}
Results == {"none", "ok", "nonzero", "cancelled", "timeout", "spawn"}

\* mild: ends on SIGTERM; stubborn: only on SIGKILL; stuck: in a kernel wait.
Tempers == {"mild", "stubborn", "stuck"}

ProcessTypeOK ==
  /\ ControlTypeOK
  /\ phase \in Phases
  /\ attempt \in 0..MaxAttempts
  /\ commands \in 0..MaxCommands
  /\ result \in Results
  /\ child \in {"none", "alive", "ok", "nonzero", "reaped"}
  /\ descendant \in BOOLEAN
  /\ temper \in Tempers

ProcessInit ==
  /\ ControlInit
  /\ phase = "returned" /\ attempt = 0 /\ commands = 0 /\ result = "ok"
  /\ child = "none" /\ descendant = FALSE
  /\ temper \in Tempers

\* A process of the command that is not a zombie.
GroupAlive == child = "alive" \/ descendant

\* process_group_exists: a zombie keeps the group.
GroupExists == child \in {"alive", "ok", "nonzero"} \/ descendant

\* spawn of run_once; an error ends the command.
Spawn ==
  \/ /\ phase' = "select" /\ child' = "alive" /\ descendant' = FALSE
     /\ result' = "none"
  \/ /\ phase' = "returned" /\ child' = "none" /\ descendant' = FALSE
     /\ result' = "spawn"

\* The operation runs its next command only if the last one succeeded.
StartCommand ==
  /\ operation = "working"
  /\ phase = "returned" /\ result = "ok" /\ commands < MaxCommands
  /\ commands' = commands + 1 /\ attempt' = 1
  /\ Spawn
  /\ UNCHANGED <<controlVars, temper>>

\* The child forks, exits or dies, a descendant ends: not the runner's doing.
ChildStep ==
  /\ \/ child = "alive" /\ child' \in {"ok", "nonzero"} /\ descendant' = descendant
     \/ child = "alive" /\ ~descendant /\ descendant' = TRUE /\ child' = child
     \/ descendant /\ descendant' = FALSE /\ child' = child
  /\ UNCHANGED <<controlVars, phase, attempt, commands, result, temper>>

\* child.wait() and both pipes: the exit status counts once nobody holds a
\* pipe.  A nonzero exit is retried while attempts are left.
Complete ==
  /\ phase = "select"
  /\ child \in {"ok", "nonzero"} /\ ~descendant
  /\ child' = "reaped"
  /\ \/ child = "ok" /\ phase' = "returned" /\ result' = "ok"
     \/ child = "nonzero" /\ phase' = "returned" /\ result' = "nonzero"
     \/ child = "nonzero" /\ attempt < MaxAttempts /\ phase' = "delay" /\ result' = result
  /\ UNCHANGED <<controlVars, attempt, commands, descendant, temper>>

\* Mutant of Signal: only the direct child is signalled.
SignalChildOnly(enough) ==
  /\ child' = IF child = "alive" /\ temper \in enough THEN "nonzero" ELSE child
  /\ descendant' = descendant

\* kill(-group, signal): everybody whom the signal ends.
Signal(enough) ==
  /\ child' = IF child = "alive" /\ temper \in enough THEN "nonzero" ELSE child
  /\ descendant' = (descendant /\ temper \notin enough)

\* The other arms of the select: cancellation or timeout, SIGTERM.
Interrupt(r) ==
  /\ phase = "select"
  /\ r = "cancelled" => token
  /\ Signal({"mild"})
  /\ phase' = "term" /\ result' = r
  /\ UNCHANGED <<controlVars, attempt, commands, temper>>

\* terminate_command_tree: after the grace period SIGKILL if the group exists.
\* The wait for the child has reaped it if it is dead.
Escalate ==
  /\ phase = "term"
  /\ IF GroupExists THEN Signal({"mild", "stubborn"}) ELSE UNCHANGED <<child, descendant>>
  /\ phase' = "kill"
  /\ UNCHANGED <<controlVars, attempt, commands, result, temper>>

\* The last bounded waits; the command returns whatever is left.
Terminated ==
  /\ phase = "kill"
  /\ child' = IF child \in {"ok", "nonzero"} THEN "reaped" ELSE child
  /\ phase' = "returned"
  /\ UNCHANGED <<controlVars, attempt, commands, result, descendant, temper>>

\* The select of the delay is not biased: a token that is cancelled when the
\* delay ends may still lose against it.
Retry ==
  /\ phase = "delay"
  /\ \/ /\ attempt' = attempt + 1 /\ Spawn
     \/ /\ token /\ phase' = "returned" /\ result' = "cancelled"
        /\ UNCHANGED <<attempt, child, descendant>>
  /\ UNCHANGED <<controlVars, commands, temper>>

RunnerStep == Complete \/ Interrupt("cancelled") \/ Escalate \/ Terminated \/ Retry

\* The operation ends with control.finish(), between two commands.
FinishOperation == phase = "returned" /\ Finish /\ UNCHANGED process

WaiterNext ==
  (\E w \in Waiters : Call(w) \/ Timeout(w) \/ WaiterStep(w)) /\ UNCHANGED process

ProcessNext ==
  \/ StartCommand \/ ChildStep \/ RunnerStep \/ Interrupt("timeout")
  \/ FinishOperation \/ WaiterNext
  \/ operation = "finished" /\ UNCHANGED allvars

ProcessSpec == ProcessInit /\ [][ProcessNext]_allvars

\* The runner's future is polled and its own short timers fire; an operation
\* whose token is cancelled or whose last command failed ends.  Children owe
\* nothing, and neither the timeout of a command nor the one of a waiter is
\* assumed to fire.
ProcessFairSpec ==
  /\ ProcessSpec
  /\ WF_allvars(RunnerStep)
  /\ WF_allvars((token \/ operation # "working") /\ FinishOperation)
  /\ \A w \in Waiters : WF_allvars(WaiterStep(w) /\ UNCHANGED process)

-----------------------------------------------------------------------------

\* What a Repair relies on when cancel_and_wait says yes: no process of the
\* operation is alive, not even a grandchild that survived SIGTERM, unless it
\* hangs in the kernel where no signal reaches it.
JoinedMeansGone ==
  \A w \in Waiters : answer[w] = "yes" => ~GroupAlive \/ temper = "stuck"

=============================================================================
