----------------------------- MODULE MCStepping -----------------------------
(* Fmi3Wrapper with one instance, with and without Event Mode and an       *)
(* intermediate-update callback, over steps in 0..MaxTime.                 *)
EXTENDS Fmi3Wrapper
CONSTANT fmu
=============================================================================
