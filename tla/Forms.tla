-------------------------------- MODULE Forms --------------------------------
(***************************************************************************)
(* The form records and form sets of one logged in session (form_tag.c,    *)
(* form_set.c).  Every form a page shows is registered under a tag the     *)
(* browser has to post back; forms that share context parameters belong to *)
(* a form set, which counts them.  Posts and refreshes test and change a   *)
(* form record with no lock; pages register forms inside session_lock, and *)
(* the housekeeper expires and deletes them inside it.  The model is one   *)
(* session from its login until is_logged_in is cleared.                   *)
(***************************************************************************)
EXTENDS Integers, FiniteSets

CONSTANTS
    Tags,           \* form records; a deleted one stands for the next new form
    Sets,           \* form sets, likewise
    Threads,
    Housekeeper,
    NoTag, NoSet,   \* NULL
    Nobody,         \* session_lock is free
    Duration,       \* conf->form_duration
    Audit           \* conf->audit_form_set_ref_count

ASSUME FormConstants ==
    /\ NoTag \notin Tags /\ NoSet \notin Sets
    /\ Housekeeper \notin Threads
    /\ Nobody \notin Threads \cup {Housekeeper}
    /\ Duration \in Nat
    /\ Audit \in BOOLEAN
    /\ IsFiniteSet(Tags)

VARIABLES
    forms,      \* the form records in the session's form_tags
    valid,      \* is_valid of a form
    once,       \* submit_only_once
    over,       \* seconds past expires, negative before
    set,        \* form_set of a form
    sets,       \* the form sets in the session's form_sets
    setValid,   \* is_valid of a form set
    refs,       \* ref_count
    loggedIn,   \* the session's is_logged_in
    lock,       \* session_lock
    todo,       \* form records left in the housekeeper's pass
    pc,         \* where each request is
    posted,     \* its posted_form, or the form it refreshes
    current,    \* its current_form_set
    last,       \* the form its page registered last
    unsent      \* the forms of the page being written, not yet with the browser

formVars == <<forms, valid, once, over, set>>
setVars  == <<sets, setValid, refs>>
reqVars  == <<pc, posted, current, last>>
vars     == <<formVars, setVars, loggedIn, lock, todo, reqVars, unsent>>

TypeOK ==
    /\ forms    \subseteq Tags
    /\ valid    \in [Tags -> BOOLEAN]
    /\ once     \in [Tags -> BOOLEAN]
    /\ over     \in [Tags -> -Duration .. 2 * Duration + 1]
    /\ set      \in [Tags -> Sets \cup {NoSet}]
    /\ sets     \subseteq Sets
    /\ setValid \in [Sets -> BOOLEAN]
    /\ refs     \in [Sets -> Int]
    /\ loggedIn \in BOOLEAN
    /\ lock     \in Threads \cup {Housekeeper, Nobody}
    /\ todo     \subseteq Tags
    /\ pc       \in [Threads -> {"idle", "tested", "wait", "check", "handler", "refresh"}]
    /\ posted   \in [Threads -> Tags \cup {NoTag}]
    /\ current  \in [Threads -> Sets \cup {NoSet}]
    /\ last     \in [Threads -> Tags \cup {NoTag}]
    /\ unsent   \subseteq Tags

\* validate_login has just answered: redirect_to_menu registered the form that
\* leads to the menu, the only one left that may be submitted only once.
Init ==
    /\ \E f \in Tags :
        /\ forms = {f}
        /\ valid = [g \in Tags |-> g = f]
        /\ once  = [g \in Tags |-> g = f]
        /\ over  = [g \in Tags |-> IF g = f THEN -Duration ELSE 0]
    /\ set      = [f \in Tags |-> NoSet]
    /\ sets     = {}
    /\ setValid = [s \in Sets |-> FALSE]
    /\ refs     = [s \in Sets |-> 0]
    /\ loggedIn = TRUE
    /\ lock     = Nobody
    /\ todo     = {}
    /\ pc       = [t \in Threads |-> "idle"]
    /\ posted   = [t \in Threads |-> NoTag]
    /\ current  = [t \in Threads |-> NoSet]
    /\ last     = [t \in Threads |-> NoTag]
    /\ unsent   = {}

-----------------------------------------------------------------------------
(* Posts and refreshes, without session_lock *)

Goto(t, label, f) ==
    /\ pc' = [pc EXCEPT ![t] = label]
    /\ posted' = [posted EXCEPT ![t] = f]
    /\ UNCHANGED <<current, last>>

\* get_posted_form_record and the tests of the record.  A form whose set is no
\* longer valid ends the session; a form that is unknown, no longer valid or
\* posted to another action is refused, which changes nothing.
Post(t) ==
    /\ pc[t] = "idle" /\ loggedIn
    /\ \E f \in forms \ unsent :
        IF set[f] # NoSet /\ ~setValid[set[f]]
        THEN loggedIn' = FALSE /\ UNCHANGED reqVars
        ELSE valid[f] /\ Goto(t, "tested", f) /\ UNCHANGED loggedIn
    /\ UNCHANGED <<formVars, setVars, lock, todo, unsent>>

\* Mutant: is_valid is cleared only once the form is known not to be expired.
MarkUnlessExpired(f) == once[f] /\ over[f] < 0

\* If the form is marked use only once then set the form as invalid.
Mark(f) == once[f]

\* The rest of post_contains_valid_form_tag.  An expired form is refused; a
\* posted value that differs from a context parameter spoils the form set.
Take(t) ==
    LET f == posted[t] IN
    /\ pc[t] = "tested"
    /\ valid' = [valid EXCEPT ![f] = @ /\ ~Mark(f)]
    /\ \/ over[f] <= 0 /\ Goto(t, "wait", f) /\ UNCHANGED setValid
       \/ over[f] > 0 /\ Goto(t, "idle", NoTag) /\ UNCHANGED setValid
       \/ /\ over[f] <= 0 /\ set[f] # NoSet
          /\ setValid' = [setValid EXCEPT ![set[f]] = FALSE]
          /\ Goto(t, "idle", NoTag)
    /\ UNCHANGED <<forms, once, over, set, sets, refs, loggedIn, lock, todo, unsent>>

\* refresh_one_tag: the form is known, valid and not expired ...
RefreshTest(t) ==
    /\ pc[t] = "idle" /\ loggedIn
    /\ \E f \in forms \ unsent : valid[f] /\ over[f] <= 0 /\ Goto(t, "refresh", f)
    /\ UNCHANGED <<formVars, setVars, loggedIn, lock, todo, unsent>>

\* ... so it lasts for another duration.
RefreshSet(t) ==
    /\ pc[t] = "refresh"
    /\ over' = [over EXCEPT ![posted[t]] = -Duration]
    /\ Goto(t, "idle", NoTag)
    /\ UNCHANGED <<forms, valid, once, set, setVars, loggedIn, lock, todo, unsent>>

-----------------------------------------------------------------------------
(* Pages, in session_lock *)

\* do_page takes session_lock: for a post that was accepted, or a page asked
\* for without one.
Enter(t) ==
    /\ lock = Nobody
    /\ \/ pc[t] = "wait"
       \/ pc[t] = "idle" /\ loggedIn
    /\ IF loggedIn THEN lock' = t /\ Goto(t, "check", posted[t])
                   ELSE Goto(t, "idle", NoTag) /\ UNCHANGED lock
    /\ UNCHANGED <<formVars, setVars, loggedIn, todo, unsent>>

\* check_postdata looks the posted form up once more: by now another request
\* may have spoiled its set, which ends the session.  The page goes on.
CheckPostdata(t) ==
    LET f == posted[t] IN
    /\ pc[t] = "check"
    /\ Goto(t, "handler", f)
    /\ IF f # NoTag /\ set[f] # NoSet /\ ~setValid[set[f]]
       THEN loggedIn' = FALSE ELSE UNCHANGED loggedIn
    /\ UNCHANGED <<formVars, setVars, lock, todo, unsent>>

\* A record no request points to: its tag stands for a new random one.
Unused(f) == f \notin forms /\ \A t \in Threads : posted[t] # f /\ last[t] # f

NewForm(f, s) ==
    /\ forms' = forms \cup {f}
    /\ valid' = [valid EXCEPT ![f] = TRUE]
    /\ once'  = [once EXCEPT ![f] = FALSE]
    /\ over'  = [over EXCEPT ![f] = -Duration]
    /\ set'   = [set EXCEPT ![f] = s]

\* Mutant: register_form does not count the form it puts in the set.
NotCounted(s) == UNCHANGED refs

\* current_form_set->ref_count++
Count(s) == refs' = IF s = NoSet THEN refs ELSE [refs EXCEPT ![s] = @ + 1]

\* register_form by a page: the form joins the page's current form set, if
\* that is still valid.
Register(t) ==
    LET s == IF current[t] # NoSet /\ setValid[current[t]] THEN current[t] ELSE NoSet
    IN  /\ pc[t] = "handler"
        /\ \E f \in Tags :
            /\ Unused(f) /\ NewForm(f, s)
            /\ last' = [last EXCEPT ![t] = f]
            /\ unsent' = unsent \cup {f}
        /\ Count(s)
        /\ UNCHANGED <<sets, setValid, loggedIn, lock, todo, pc, posted, current>>

\* ref_count of a set, 0 in one just created.
CountIn(s) == IF s \in sets THEN refs[s] ELSE 0

\* save_context_parameters, for a page in a form set that came from a post:
\* the page's set is created by the first call, and every call puts the form
\* at hand in it and counts that, counted already by register_form or not.
SaveContext(t) ==
    /\ pc[t] = "handler" /\ posted[t] # NoTag
    /\ \E s \in Sets :
        /\ s = current[t] \/ (current[t] = NoSet /\ s \notin sets)
        /\ sets'     = sets \cup {s}
        /\ setValid' = [setValid EXCEPT ![s] = s \notin sets \/ @]
        /\ current'  = [current EXCEPT ![t] = s]
        /\ IF last[t] = NoTag
           THEN /\ refs' = [refs EXCEPT ![s] = CountIn(s)]
                /\ UNCHANGED set
           ELSE /\ refs' = [refs EXCEPT ![s] = CountIn(s) + 1]
                /\ set'  = [set EXCEPT ![last[t]] = s]
        /\ last' = [last EXCEPT ![t] = NoTag]
    /\ UNCHANGED <<forms, valid, once, over, loggedIn, lock, todo, pc, posted, unsent>>

\* The page is complete: session_lock is released.
Finish(t) ==
    /\ pc[t] = "handler"
    /\ lock' = Nobody
    /\ pc' = [pc EXCEPT ![t] = "idle"]
    /\ posted'  = [posted EXCEPT ![t] = NoTag]
    /\ current' = [current EXCEPT ![t] = NoSet]
    /\ last'    = [last EXCEPT ![t] = NoTag]
    /\ unsent'  = {}
    /\ UNCHANGED <<formVars, setVars, loggedIn, todo>>

-----------------------------------------------------------------------------
(* form_tag_housekeeping, inside the trylock of session_housekeeping_scanner *)

HkStart ==
    /\ loggedIn /\ lock = Nobody /\ forms \cup sets # {}
    /\ lock' = Housekeeper
    /\ todo' = forms
    /\ UNCHANGED <<formVars, setVars, loggedIn, reqVars, unsent>>

\* form_tag_housekeeping_scanner on one record: delete it twice its duration
\* after it expired, and take it from its set's count; before that, once it
\* has expired, it is invalid.
HkForm(f) ==
    /\ lock = Housekeeper /\ f \in todo
    /\ todo' = todo \ {f}
    /\ IF over[f] > 2 * Duration
       THEN /\ forms' = forms \ {f}
            /\ refs' = IF set[f] = NoSet THEN refs ELSE [refs EXCEPT ![set[f]] = @ - 1]
            /\ UNCHANGED valid
       ELSE /\ valid' = [valid EXCEPT ![f] = @ /\ over[f] <= 0]
            /\ UNCHANGED <<forms, refs>>
    /\ UNCHANGED <<once, over, set, sets, setValid, loggedIn, lock, reqVars, unsent>>

\* audit_form_set_scanner over form_tags.
Members(s) == {f \in forms : set[f] = s}

\* form_set_housekeeping_scanner removes every set whose ref_count is 0 and, if
\* that is audited, right; the scanner that called it unlocks the session.
HkSets ==
    /\ lock = Housekeeper /\ todo = {}
    /\ sets' = sets \ {s \in sets : refs[s] = 0 /\ (Audit => Members(s) = {})}
    /\ lock' = Nobody
    /\ UNCHANGED <<formVars, setValid, refs, loggedIn, todo, reqVars, unsent>>

-----------------------------------------------------------------------------

\* Bound: a request is not held up for twice the duration of the form it
\* points to, which the housekeeper would then free under it.
InTime == \A t \in Threads : posted[t] # NoTag => over[posted[t]] < 2 * Duration

\* Mutant: the age never stops growing.
OlderStill(f) == f \in forms

\* Whether the age of a form still grows: it is not past every bound.
Older(f) == f \in forms /\ over[f] <= 2 * Duration

\* time(NULL) moves on.
Tick ==
    /\ InTime
    /\ over' = [f \in Tags |-> IF Older(f) THEN over[f] + 1 ELSE over[f]]
    /\ UNCHANGED <<forms, valid, once, set, setVars, loggedIn, lock, todo, reqVars, unsent>>

Request(t) ==
    \/ Post(t) \/ Take(t) \/ RefreshTest(t) \/ RefreshSet(t)
    \/ Enter(t) \/ CheckPostdata(t)
    \/ Register(t) \/ SaveContext(t) \/ Finish(t)

Housekeep == HkStart \/ (\E f \in Tags : HkForm(f)) \/ HkSets

Next == (\E t \in Threads : Request(t)) \/ Housekeep \/ Tick

Spec == Init /\ [][Next]_vars

-----------------------------------------------------------------------------
(* Properties *)

\* form_tag.c and form_set.c follow form_set and current_form_set without a
\* look at form_sets: as long as a form or the page being written refers to a
\* set, the housekeeper must not have freed it, nor a form of that page.
NoDanglingSet ==
    /\ \A f \in forms : set[f] # NoSet => set[f] \in sets
    /\ \A t \in Threads : current[t] # NoSet => current[t] \in sets
    /\ unsent \subseteq forms

\* No longer valid, and no request has passed the test of is_valid just before.
Spent(f) ==
    f \in forms /\ ~valid[f] /\ \A t \in Threads : posted[t] = f => pc[t] # "tested"

\* A submit-once form is used up by any request that comes to the point of
\* presenting it, whether that is let in or refused as too late, and a form
\* that is used up or expired is not revived: a refresh that raced with the
\* expiry may move expires, but no later post of the form is accepted.
UsedFormStaysUsed ==
    [][/\ \A t \in Threads : pc[t] = "tested" /\ pc'[t] # "tested" /\ once[posted[t]]
            => ~valid'[posted[t]]
       /\ \A f \in Tags : Spent(f) => Spent(f)' \/ f \notin forms']_vars

\* The comment on post_contains_valid_form_tag (form_tag.c:187): a form marked
\* use only once is made invalid and treated as valid, once.  The test and the
\* store are not under a lock: two posts of it can both pass.
SubmittedOnce ==
    \A t, u \in Threads :
        /\ posted[t] = posted[u] /\ posted[t] # NoTag /\ once[posted[t]]
        /\ {pc[t], pc[u]} \subseteq {"wait", "check", "handler"}
        => t = u

\* The comment on form_set_housekeeping_scanner (form_set.c:470): a pass removes
\* the form sets no longer referenced.  A form registered while its page has a
\* set, and then given to save_context_parameters, is counted twice and taken
\* off the count once, so the set is left behind.
UnreferencedSetsRemoved ==
    [][lock = Housekeeper /\ lock' = Nobody => \A s \in sets' : Members(s) # {}]_vars

=============================================================================
