------------------------------ MODULE MCStartup ------------------------------
(***************************************************************************)
(* Instances of StartupLifecycle: all constants are numbers and flags, so  *)
(* the configurations alone define them.                                   *)
(***************************************************************************)
EXTENDS StartupLifecycle, TLC

=============================================================================
