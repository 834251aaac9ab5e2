-------------------------- MODULE MCImportPlacement --------------------------
(* ImportPlacement with interchangeable requests.                          *)
EXTENDS ImportPlacement, TLC

Symmetry == Permutations(Importer)
=============================================================================
