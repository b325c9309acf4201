------------------------------ MODULE MCLogging ------------------------------
(* Logging for TLC: three versions of FMI, the library's own category and  *)
(* one more.                                                               *)
EXTENDS Logging
CONSTANTS model
MCCategories == {Own, model}
=============================================================================
