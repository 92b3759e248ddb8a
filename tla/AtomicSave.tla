----------------------------- MODULE AtomicSave -----------------------------
(***************************************************************************)
(* What saving a grid promises, whatever goes wrong: the rows the user     *)
(* changed are stored all together or not at all, and "COMMIT OK" is shown *)
(* only when they are stored.                                              *)
(***************************************************************************)
EXTENDS Naturals, Sequences

CONSTANTS
    Posts,      \* the grids that may be posted: sequences of change_status
    Changing    \* the letters that ask for a change

VARIABLES
    posted,     \* the grid being saved
    stored,     \* the rows of it that the database has
    answer      \* what the page says

grid == <<posted, stored, answer>>

Changes(post) == {k \in DOMAIN post : post[k] \in Changing}

Init == posted = <<>> /\ stored = {} /\ answer = "none"

Post ==
    /\ posted' \in Posts
    /\ stored' = {}
    /\ answer' = "none"

\* The answer, if it is given, comes with or after what it is about.
Store == stored' = Changes(posted) /\ answer' = answer /\ UNCHANGED posted

Answer ==
    /\ stored' \in {stored, Changes(posted)}
    /\ answer' \in {"COMMIT OK", "not saved"}
    /\ answer' = "COMMIT OK" => stored' = Changes(posted)
    /\ UNCHANGED posted

Next == Post \/ Store \/ Answer

Spec == Init /\ [][Next]_grid
=============================================================================
