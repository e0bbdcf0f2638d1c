---------------------------- MODULE MCTaskmaster ----------------------------
(* Small instances of Taskmaster.                                           *)
EXTENDS Taskmaster
=============================================================================
