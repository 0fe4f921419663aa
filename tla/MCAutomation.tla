---------------------------- MODULE MCAutomation ----------------------------
(***************************************************************************)
(* Small instances of Automation for TLC.                                  *)
(***************************************************************************)
EXTENDS Automation
=============================================================================
