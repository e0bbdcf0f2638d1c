-------------------------- MODULE MCIncludeScanner ---------------------------
(* A small instance of IncludeScanner: two objects that search two include    *)
(* directories in different orders, a header in both of them, one next to the *)
(* sources, and a generated one.                                              *)
EXTENDS IncludeScanner, TLC

CONSTANTS o, p, inc, lib, src, a, b, h, q, g

AFile == [dir |-> src, name |-> a]
BFile == [dir |-> src, name |-> b]
HInc == [dir |-> inc, name |-> h]
HLib == [dir |-> lib, name |-> h]
QSrc == [dir |-> src, name |-> q]
GLib == [dir |-> lib, name |-> g]

AllFiles == {AFile, BFile, HInc, HLib, QSrc, GLib}

System(n) == [system |-> TRUE, name |-> n]
Quoted(n) == [system |-> FALSE, name |-> n]

SourceOf == [x \in {o, p} |-> IF x = o THEN AFile ELSE BFile]
PathOf == [x \in {o, p} |-> IF x = o THEN <<inc, lib>> ELSE <<lib, inc>>]

\* The two copies of h differ in what they can include; q may include itself.
ContentsOf ==
  (AFile :> {{System(h)}}) @@
  (BFile :> {{Quoted(q)}}) @@
  (HInc :> {{}, {System(g)}}) @@
  (HLib :> {{Quoted(q)}}) @@
  (QSrc :> {{}, {System(h), Quoted(q)}}) @@
  (GLib :> {{}})

MadeFiles == {GLib}
Nothing == {}
==============================================================================
