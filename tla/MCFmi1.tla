------------------------------- MODULE MCFmi1 -------------------------------
(* Fmi1Wrapper for TLC, with a slave that overrides every method that FMI  *)
(* 1.0 calls.                                                              *)
EXTENDS Fmi1Wrapper
AllMethods == Methods
=============================================================================
