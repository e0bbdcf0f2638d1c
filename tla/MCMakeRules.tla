------------------------------ MODULE MCMakeRules ------------------------------
(* Small Makefiles.  The last name is the one that may be asked for, and the  *)
(* first rule, if there is one, makes it.                                     *)
EXTENDS MakeRules, SequencesExt

CONSTANTS MaxPatterns, MaxMade, MaxRules, CommandsOrNot

Prerequisites == Names \ {M}

ExplicitRules ==
  { r \in [kind : {"rule"}, targets : kSubset(1, Names),
           sources : kSubset(1, Prerequisites) \cup kSubset(2, Prerequisites),
           commands : CommandsOrNot] :
      r.targets \cap r.sources = {} }

SpecialRules ==
  [kind : {"special"}, targets : {{}}, sources : kSubset(1, Prerequisites), phony : BOOLEAN]

\* The more names a pattern matches, the longer the stems.
Making(D) == [D -> [stem : {Cardinality(D)}, sources : kSubset(1, Prerequisites)]]

\* No pattern applies to what it makes things from.
PatternRules(made) ==
  { p \in [kind : {"pattern"}, targets : {{}}, sources : {{}}, commands : {TRUE},
           makes : UNION { Making(D) : D \in UNION { kSubset(k, made) : k \in 1 .. MaxMade } }] :
      \A n \in DOMAIN p.makes : p.makes[n].sources \cap DOMAIN p.makes = {} }

\* A pattern for a name that has a rule is never tried.
SmallMakefiles ==
  BoundedSeq(PatternRules(Names), MaxPatterns) \cup
    { p \o <<first>> \o more :
        p \in BoundedSeq(PatternRules(Prerequisites), MaxPatterns),
        first \in { r \in ExplicitRules : r.targets = {M} },
        more \in BoundedSeq(ExplicitRules \cup SpecialRules, MaxRules - 1) }

SomeDisks == {{2}, {2, 3}}

\* Asked for is the last name, by default where its rule makes it one, or first a name that
\* has a rule or is not mentioned in the Makefile.
RuledOrNew(contents) ==
  LET rules == Range(contents) IN
  { n \in Prerequisites : \A r \in rules : n \in r.sources => \E r2 \in rules : n \in r2.targets }

FewRequests(contents) ==
  {IF \E r \in Range(contents) : M \in r.targets /\ r.commands THEN <<>> ELSE <<M>>} \cup
  { <<n, M>> : n \in RuledOrNew(contents) \cap {M - 2} }
===============================================================================
