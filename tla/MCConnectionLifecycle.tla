------------------------ MODULE MCConnectionLifecycle ------------------------
(***************************************************************************)
(* ConnectionLifecycle for TLC.  One task at a time meets the user, the    *)
(* handlers of Settings and Resume in every order; three faults are one    *)
(* more than a rollback that fails needs.                                  *)
(***************************************************************************)
EXTENDS ConnectionLifecycle
==============================================================================
