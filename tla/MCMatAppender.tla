---------------------------- MODULE MCMatAppender ---------------------------
(* MatAppender for TLC: one logger with its thread, next to the owner of the *)
(* appender and the flusher.                                                 *)
EXTENDS MatAppender

CONSTANT l1

OneLogger == {l1}
=============================================================================
