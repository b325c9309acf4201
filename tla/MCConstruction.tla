--------------------------- MODULE MCConstruction ---------------------------
(* Construction for TLC: two instances, each with the importer's memory    *)
(* functions or without.                                                   *)
EXTENDS Construction
CONSTANTS a, b
=============================================================================
