---------------------------- MODULE MCMatLogger ----------------------------
(* MatLogger for TLC: every run is a configuration of this module. *)
EXTENDS MatLogger

BothModes == {"producer_consumer", "circular_buffer"}
NoModes   == {}
=============================================================================
