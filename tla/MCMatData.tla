------------------------------ MODULE MCMatData -----------------------------
(* Instances of MatData for TLC: model values, so that they compare with any *)
(* label or index.                                                           *)
EXTENDS MatData

CONSTANTS x, a, zero, one

MCVariables == {x}
MCFields == {a}
MCScalars == {zero, one}
MCCellSizes == {2}
=============================================================================
