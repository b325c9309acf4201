------------------------------ MODULE MCNested ------------------------------
(* NestedUpdates with a model that leaves derivatives to the base class.   *)
EXTENDS NestedUpdates
OwnMethods == Calls \ {"DerivativeQuery", "OutputDerivatives"}
=============================================================================
