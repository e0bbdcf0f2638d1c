---------------------------- MODULE MCJobThreads -----------------------------
(* A small instance of JobThreads. *)
EXTENDS JobThreads

CONSTANTS c, p
==============================================================================
