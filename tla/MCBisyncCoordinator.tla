------------------------ MODULE MCBisyncCoordinator ------------------------
(***************************************************************************)
(* Instance of BisyncCoordinator for TLC: the applet and one scheduled     *)
(* worker of one connection, two bindings that an edit can move between,   *)
(* and one fault, whose traces the next run finds.                         *)
(***************************************************************************)
EXTENDS BisyncCoordinator, TLC

Symmetry == Permutations(Targets)

\* View of a state.  Left out are the operation and result in a state file that
\* does not say Running, and ok, which only chooses that result: no guard and no
\* invariant reads them.
Seen ==
  LET file == IF coord.st = "Running" THEN coord ELSE [op |-> "None", st |-> "None"]
  IN  <<lock, file, previewMarker, syncMarker, saved, stage, mode, tgt, cancelled,
        fault, unlocked, history>>
=============================================================================
