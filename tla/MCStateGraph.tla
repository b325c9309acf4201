---------------------------- MODULE MCStateGraph ----------------------------
(* Fmi3Wrapper with everything in it at once, for one instance: steps with *)
(* updates, one FMU state in memory, and an importer that goes on calling  *)
(* an instance that failed in its callback.  The model leaves the memory   *)
(* of FMU states to the base class: MCSnapshots is about that.             *)
EXTENDS Fmi3Wrapper
CONSTANTS fmu, cell, h
OwnMethods == Calls \ {"SnapshotMemory"}
=============================================================================
