-------------------------- MODULE MCOfflineControl --------------------------
(***************************************************************************)
(* Instance of OfflineControl for TLC: two operations of the user, the     *)
(* scheduled worker and Repair, with any number of deaths and of failing   *)
(* writes.                                                                 *)
(***************************************************************************)
EXTENDS OfflineControl, TLC

CONSTANT Second  \* the slot for what is requested on top of a run

\* Bound on the requests: the slot Second takes only the Pause that the popup
\* offers while a run is in flight, and nothing else starts until it has ended.
PauseOverRun ==
  LET Starts(m) == At(m, "idle") /\ stage'[m] # "idle"
  IN  /\ Starts(Second) =>
           op'[Second] = "Pause" /\ \E m \in Manual \ {Second} : op[m] = "Run"
      /\ \A m \in Manual \ {Second} : Starts(m) => At(Second, "idle")
=============================================================================
