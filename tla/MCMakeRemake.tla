---------------------------- MODULE MCMakeRemake -----------------------------
(* A small instance of MakeRemake: the Makefile is made of a script and a     *)
(* template, the script of another source, the target of that and the         *)
(* Makefile.                                                                  *)
EXTENDS MakeRemake

CONSTANTS template, macros, script

Graph ==
  [m \in Made |->
    IF m = Makefile THEN {script, template}
    ELSE IF m = Target THEN {macros, Makefile}
    ELSE {macros}]

\* The script named in a rule without commands.
OnlyTemplate == [m \in Made |-> IF m = Makefile THEN {template} ELSE Graph[m]]
==============================================================================
