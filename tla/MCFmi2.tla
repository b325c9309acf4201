------------------------------- MODULE MCFmi2 -------------------------------
(* Fmi2Wrapper for TLC, with a slave that overrides every method but those *)
(* about derivatives, which the wrapper treats like access to variables.   *)
EXTENDS Fmi2Wrapper, TLC
CONSTANTS h1, h2, c1, c2
OwnMethods == Methods \ DerivativeMethods
Symmetry == Permutations({h1, h2}) \cup Permutations({c1, c2})
=============================================================================
