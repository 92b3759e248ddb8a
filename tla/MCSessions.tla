----------------------------- MODULE MCSessions -----------------------------
(***************************************************************************)
(* Sessions on small sets.  SeenState leaves out what no later step reads: *)
(* the fields of a removed record no process points to, the ages of a      *)
(* removed record, the age of inactivity of a session that is closed and   *)
(* cannot be logged in any more, the request of a process past its use.    *)
(***************************************************************************)
EXTENDS Sessions, TLC

Symmetry == Permutations(Keys) \cup Permutations(Threads)

Referenced(k) == \E p \in Procs : sess[p] = k

SeenAges(k) ==
    CASE rec[k] = "freed" -> <<>>
      [] forms[k] = "closed" /\ ~loggedIn[k] /\ ~LoggingIn(k) -> <<outAge[k]>>
      [] OTHER -> <<inactive[k], outAge[k]>>

SeenTask(p) ==
    IF pc[p] \in {"read_conn", "wait", "handler", "close", "drain"}
    THEN task[p] ELSE "idle"

SeenState ==
    <<pc, sess, [p \in Procs |-> SeenTask(p)],
      [k \in Keys |-> IF rec[k] # "live" /\ ~Referenced(k) THEN <<>>
                      ELSE <<rec[k], loggedIn[k], conn[k], stamped[k], forms[k],
                             lock[k], SeenAges(k)>>]>>
=============================================================================
