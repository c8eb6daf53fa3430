------------------------------ MODULE MCLogging ------------------------------
(* Logging for TLC: more keys than the table holds, and records of half the *)
(* limit of the file, of the limit, and beyond it.                          *)
EXTENDS Logging, TLC

Symmetry == Permutations(LogKeys)
=============================================================================
