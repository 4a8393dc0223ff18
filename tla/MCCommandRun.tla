---------------------------- MODULE MCCommandRun ----------------------------
(***************************************************************************)
(* CommandRun for TLC: two Repair tasks await an operation of two commands *)
(* that are tried at most twice.                                           *)
(***************************************************************************)
EXTENDS CommandRun
=============================================================================
