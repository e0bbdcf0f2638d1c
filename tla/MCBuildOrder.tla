----------------------------- MODULE MCBuildOrder -----------------------------
(* Small graphs: a few edges and fewer includes. *)
EXTENDS BuildOrder

CONSTANTS MaxEdges, MaxIncludes

UpTo(k, pairs) == UNION { kSubset(i, pairs) : i \in 0 .. k }

\* The end goal depends on targets and nothing depends on it.  An edge that no
\* other edge leads to is never walked.
FewEdges ==
  { E \in UpTo(MaxEdges, Vertices \X (Vertices \ {Goal})) :
      \A e \in E : e[1] = Goal \/ \E d \in E : d[2] = e[1] }

\* A file may include itself.
FewIncludes == UpTo(MaxIncludes, (Vertices \ {Goal}) \X (Vertices \ {Goal}))
===============================================================================
