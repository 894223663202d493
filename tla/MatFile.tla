------------------------------ MODULE MatFile ------------------------------
(***************************************************************************)
(* A version 7.3 MAT-file as far as MatioBackend and the vendored matio    *)
(* (matio/src/mat.c, mat73.c) tell its entries apart: what becomes of an   *)
(* entry when a numeric block is appended to it, or a whole value is       *)
(* written under its name.                                                 *)
(*                                                                         *)
(* An entry has the sizes matio gives its data set and, for data that was  *)
(* appended block by block, the samples in the order they lie in the file. *)
(* A data set created by an append may grow; one written whole may not.    *)
(***************************************************************************)
EXTENDS Naturals, Sequences

Absent == [kind |-> "absent", dims |-> << >>, samples |-> << >>]

Whole == [kind |-> "whole", dims |-> << >>, samples |-> << >>]

\* MatioBackend::write: a block of one slice is two-dimensional.
BlockDims(rows, cols, slices) ==
    IF slices = 1 THEN <<rows, cols>> ELSE <<rows, cols, slices>>

\* Mat_VarWriteAppend creates the entry or needs one that can grow and has the
\* rank of the block.
CanAppend(entry, dims) ==
    \/ entry.kind = "absent"
    \/ entry.kind = "growing" /\ Len(entry.dims) = Len(dims)

\* [Bug: along the second dimension, whatever the rank.]
Appended_Columns(entry, dims, samples) ==
    IF entry.kind = "absent"
    THEN [kind |-> "growing", dims |-> dims, samples |-> samples]
    ELSE [entry EXCEPT !.dims[2] = @ + dims[Len(dims)], !.samples = @ \o samples]

\* The data set grows along the last dimension of the block.
Appended(entry, dims, samples) ==
    IF entry.kind = "absent"
    THEN [kind |-> "growing", dims |-> dims, samples |-> samples]
    ELSE [entry EXCEPT !.dims[Len(dims)] = @ + dims[Len(dims)],
                       !.samples = @ \o samples]

\* Mat_VarWrite refuses a name that is in use.
CanCreate(entry) == entry.kind = "absent"
=============================================================================
