---------------------------- MODULE MCSignatureDb ----------------------------
(* Small instances of SignatureDb. *)
EXTENDS SignatureDb

CONSTANTS s, t, u, x, y

\* t is made of u, which is made of s.
Line == [n \in {t, u} |-> IF n = t THEN {u} ELSE {s}]

\* t is made of both.
Chain == [n \in {t, u} |-> IF n = t THEN {s, u} ELSE {s}]

\* t and u are both made of s.
Shared == [n \in {t, u} |-> {s}]

LineOnly == {Line}
SharedOnly == {Shared}
ChainOrShared == {Chain, Shared}

Everything == {{t, u}}
Partial == {{t, u}, {t}, {u}}

Edits == {"touch", "new", "restore", "delete", "script"}

\* Any edit; or kills, while sources only move forward and scan_cpp reads s and u.
AnyEditOrKills ==
  { [edits |-> Edits, scanned |-> {}, mayThrow |-> FALSE, mayCrash |-> FALSE],
    [edits |-> {"touch", "new"}, scanned |-> {s, u}, mayThrow |-> FALSE, mayCrash |-> TRUE] }

FileEdits ==
  { [edits |-> {"touch", "new", "delete"}, scanned |-> {s}, mayThrow |-> TRUE, mayCrash |-> FALSE] }

NewContents == { [edits |-> {"new"}, scanned |-> {}, mayThrow |-> FALSE, mayCrash |-> FALSE] }

NewContentsAndExceptions ==
  { [edits |-> {"new"}, scanned |-> {}, mayThrow |-> TRUE, mayCrash |-> FALSE] }
==============================================================================
