---------------------------- MODULE MCVarBuffer ----------------------------
(* Instances of VarBuffer: the two modes, explicit flushes, stale loads.    *)
EXTENDS VarBuffer
=============================================================================
