---------------------------- MODULE OperationJoin ----------------------------
(***************************************************************************)
(* What ManualOperationControl promises to Repair: a caller asks a manual  *)
(* operation to stop and is told whether it has ended.  "Yes" is only said *)
(* of an operation that has ended; "no" only of one that has not, and only *)
(* to a caller whose patience has run out.                                 *)
(***************************************************************************)

CONSTANT Waiters   \* callers of cancel_and_wait

VARIABLES
  ended,   \* the operation has ended
  call,    \* each caller is outside, inside, or inside beyond its timeout
  answer   \* last answer to each caller

vars == <<ended, call, answer>>

Init ==
  /\ ended = FALSE
  /\ call = [w \in Waiters |-> "out"]
  /\ answer = [w \in Waiters |-> "none"]

\* The operation ends once.
End ==
  /\ ~ended
  /\ ended' = TRUE
  /\ UNCHANGED <<call, answer>>

\* A caller asks, the second time because an earlier answer was "no".
Ask(w) ==
  /\ call[w] = "out"
  /\ call' = [call EXCEPT ![w] = "in"]
  /\ answer' = [answer EXCEPT ![w] = "none"]
  /\ UNCHANGED ended

\* The timeout of the call has passed.
Expire(w) ==
  /\ call[w] = "in"
  /\ call' = [call EXCEPT ![w] = "late"]
  /\ UNCHANGED <<ended, answer>>

Say(w, a) ==
  /\ call' = [call EXCEPT ![w] = "out"]
  /\ answer' = [answer EXCEPT ![w] = a]
  /\ UNCHANGED ended

Yes(w) == call[w] # "out" /\ ended /\ Say(w, "yes")

No(w) == call[w] = "late" /\ ~ended /\ Say(w, "no")

Next == End \/ \E w \in Waiters : Ask(w) \/ Expire(w) \/ Yes(w) \/ No(w)

Spec == Init /\ [][Next]_vars
=============================================================================
