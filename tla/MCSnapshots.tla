---------------------------- MODULE MCSnapshots ----------------------------
(* Fmi3Wrapper with two instances that share the importer's handles and    *)
(* its buffer, and so pass serialized FMU states to each other.  Steps are *)
(* of no length and open no updates: MCStepping is about those.            *)
EXTENDS Fmi3Wrapper, TLC
CONSTANTS a, b, c1, c2, h1, h2

Symmetry == Permutations({a, b}) \cup Permutations({c1, c2})
              \cup Permutations({h1, h2})
=============================================================================
