------------------------------- MODULE MCForms -------------------------------
(***************************************************************************)
(* Forms on small sets.  SeenState leaves out what no later step reads:    *)
(* the fields of deleted records and of removed sets.                      *)
(***************************************************************************)
EXTENDS Forms, TLC

Symmetry == Permutations(Tags) \cup Permutations(Sets) \cup Permutations(Threads)

SeenState ==
    <<[f \in Tags |-> IF f \in forms THEN <<valid[f], once[f], over[f], set[f]>> ELSE <<>>],
      [s \in Sets |-> IF s \in sets THEN <<setValid[s], refs[s]>> ELSE <<>>],
      loggedIn, lock, todo, reqVars, unsent>>
=============================================================================
