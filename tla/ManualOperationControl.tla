----------------------- MODULE ManualOperationControl -----------------------
(***************************************************************************)
(* ManualOperationControl, shared by a manual operation of the applet and  *)
(* by the Repair tasks that cancel and await it.  The loads and stores of  *)
(* cancel_and_wait and finish are separate steps: the two run on different *)
(* threads of the runtime.  tokio's Notify is modelled by how it is used:  *)
(* notified() remembers how often notify_waiters was called so far, and    *)
(* its future is ready once that number has changed.                       *)
(***************************************************************************)
EXTENDS Naturals

CONSTANT Waiters   \* Repair tasks that captured this control

VARIABLES
  token,      \* the cancellation token is cancelled
  completed,  \* the flag that finish stores
  notices,    \* number of notify_waiters calls so far
  operation,  \* progress of the operation that ends with finish
  pc,         \* position of each waiter in cancel_and_wait
  seen,       \* notices when the waiter called notified()
  answer      \* what cancel_and_wait returned last

controlVars == <<token, completed, notices, operation, pc, seen, answer>>

OpStages == {"working", "stored", "finished"}
Positions == {"idle", "first", "register", "second", "await", "woken", "late"}

ControlTypeOK ==
  /\ token \in BOOLEAN
  /\ completed \in BOOLEAN
  /\ notices \in 0 .. 1
  /\ operation \in OpStages
  /\ pc \in [Waiters -> Positions]
  /\ seen \in [Waiters -> 0 .. 1]
  /\ answer \in [Waiters -> {"none", "yes", "no"}]

\* ManualOperationControl::new, with the operation started.
ControlInit ==
  /\ token = FALSE
  /\ completed = FALSE
  /\ notices = 0
  /\ operation = "working"
  /\ pc = [w \in Waiters |-> "idle"]
  /\ seen = [w \in Waiters |-> 0]
  /\ answer = [w \in Waiters |-> "none"]

Goto(w, p) == pc' = [pc EXCEPT ![w] = p]

\* finish: completed.store(true), then notify_waiters().  Every path of an
\* operation ends with exactly one call.
Finish ==
  /\ UNCHANGED <<token, pc, seen, answer>>
  /\ \/ /\ operation = "working" /\ operation' = "stored"
        /\ completed' = TRUE
        /\ UNCHANGED notices
     \/ /\ operation = "stored" /\ operation' = "finished"
        /\ notices' = notices + 1
        /\ UNCHANGED completed

\* A Repair calls cancel_and_wait, perhaps again after an earlier timeout.
Call(w) ==
  /\ pc[w] = "idle"
  /\ token' = TRUE
  /\ Goto(w, "first")
  /\ answer' = [answer EXCEPT ![w] = "none"]
  /\ UNCHANGED <<completed, notices, operation, seen>>

Answers(w) ==
  /\ Goto(w, "idle")
  /\ answer' = [answer EXCEPT ![w] = IF completed THEN "yes" ELSE "no"]
  /\ UNCHANGED <<token, completed, notices, operation, seen>>

Proceed(w, p) ==
  /\ Goto(w, p)
  /\ UNCHANGED <<token, completed, notices, operation, seen, answer>>

\* The first load of completed.
FirstCheck(w) ==
  /\ pc[w] = "first"
  /\ IF completed THEN Answers(w) ELSE Proceed(w, "register")

\* let notified = completion.notified()
Register(w) ==
  /\ pc[w] = "register"
  /\ Goto(w, "second")
  /\ seen' = [seen EXCEPT ![w] = notices]
  /\ UNCHANGED <<token, completed, notices, operation, answer>>

\* Mutant of SecondCheck: the flag is not loaded again.
SecondCheckSkipped(w) == pc[w] = "second" /\ Proceed(w, "await")

\* The second load of completed, after the registration.
SecondCheck(w) ==
  /\ pc[w] = "second"
  /\ IF completed THEN Answers(w) ELSE Proceed(w, "await")

Ready(w) == notices # seen[w]

\* The notified future completes.
Wake(w) == pc[w] = "await" /\ Ready(w) /\ Proceed(w, "woken")

\* time::timeout elapses; it polls the future first.
Timeout(w) == pc[w] = "await" /\ ~Ready(w) /\ Proceed(w, "late")

\* Mutant of FinalLoad: the result of the timeout is returned instead.
FinalLoadNot(w) ==
  /\ pc[w] \in {"woken", "late"}
  /\ Goto(w, "idle")
  /\ answer' = [answer EXCEPT ![w] = IF pc[w] = "woken" THEN "yes" ELSE "no"]
  /\ UNCHANGED <<token, completed, notices, operation, seen>>

\* The final load of completed.
FinalLoad(w) == pc[w] \in {"woken", "late"} /\ Answers(w)

\* The steps of a waiter that do not need its timeout.
WaiterStep(w) ==
  FirstCheck(w) \/ Register(w) \/ SecondCheck(w) \/ Wake(w) \/ FinalLoad(w)

ControlNext ==
  \/ Finish
  \/ \E w \in Waiters : Call(w) \/ Timeout(w) \/ WaiterStep(w)

ControlSpec == ControlInit /\ [][ControlNext]_controlVars

\* A cancelled operation returns and finishes; a waiter runs when it is ready.
\* Timeouts are not assumed to fire.
ControlFairSpec ==
  /\ ControlSpec
  /\ WF_controlVars((token \/ operation # "working") /\ Finish)
  /\ \A w \in Waiters : WF_controlVars(WaiterStep(w))

-----------------------------------------------------------------------------
(* Properties. *)

\* A wake-up is not lost: once finish has notified, nobody is left asleep,
\* whatever the order of finish and of the registration.
NoLostWakeup ==
  \A w \in Waiters : operation = "finished" /\ pc[w] = "await" => Ready(w)

\* Every cancel_and_wait returns even if its timeout never fires: it cancels
\* the operation before it waits, and the end of the operation wakes it.
WaitEnds == \A w \in Waiters : pc[w] # "idle" ~> pc[w] = "idle"

\* The control keeps the promise of OperationJoin: a waiter that was woken is
\* never told that the operation still runs, nor is one whose timeout lost a
\* race against finish.
Join == INSTANCE OperationJoin WITH
  ended <- completed,
  call <- [w \in Waiters |-> CASE pc[w] = "idle" -> "out"
                               [] pc[w] = "late" -> "late"
                               [] OTHER -> "in"]

JoinKept == Join!Spec

-----------------------------------------------------------------------------
(* The inductive invariant of the proofs. *)

\* The flag is up before anybody is notified, a waiter that has seen the notice
\* of finish has not slept, and a woken waiter finds the flag up.
WakeInv ==
  /\ completed <=> operation # "working"
  /\ notices = (IF operation = "finished" THEN 1 ELSE 0)
  /\ \A w \in Waiters :
       /\ seen[w] <= notices
       /\ pc[w] = "await" => seen[w] = 0
       /\ pc[w] = "woken" => completed

JoinInv == ControlTypeOK /\ WakeInv
=============================================================================
