------------------------------ MODULE Sessions ------------------------------
(***************************************************************************)
(* The session table of qzforms: one struct session per browser session,   *)
(* indexed by session key, shared by the request threads of                *)
(* launch_connection_thread (qzmain.c) and by the housekeeper loop of      *)
(* main.  A request thread finds its session with no lock held, decides    *)
(* from is_logged_in and conn what the request may do, and takes           *)
(* session_lock only inside do_page (output.c).  The housekeeper           *)
(* (session.c) uses trylock, closes idle sessions and removes old ones.    *)
(*                                                                         *)
(* Every step below is one access, or one run of accesses no other process *)
(* can tell apart, to the shared records.  Times are ages in seconds that  *)
(* stop growing once they are past every bound the code compares them to.  *)
(***************************************************************************)
EXTENDS Integers, FiniteSets

CONSTANTS
    Keys,           \* session records; a removed one stands for the next fresh key
    Threads,        \* the request threads
    Housekeeper,    \* the main thread after start-up
    NoKey,          \* no session: hargs->session = NULL
    Nobody,         \* session_lock is free
    Timeout,        \* conf->session_inactivity_timeout
    Requests        \* bound: the URIs clients ask for

\* What a request asks for, as far as the dispatch switch tells URIs apart.
Uris == {"login", "login_other", "validate", "logout", "page"}

ASSUME SessionConstants ==
    /\ NoKey \notin Keys
    /\ Housekeeper \notin Threads
    /\ Nobody \notin Threads \cup {Housekeeper}
    /\ Timeout \in Nat
    /\ Requests \subseteq Uris

Procs == Threads \cup {Housekeeper}

\* Where a process goes once close_session returns.
Returns == {"setup", "setup_only", "unlock", "remove", "idle"}

States == {"idle", "read_conn", "close", "drain", "setup", "setup_only", "req_login",
           "consume", "connect", "login_result", "login_work",
           "wait", "handler", "unlock", "remove", "free"}

VARIABLES
    rec,        \* [Keys -> {"none", "live", "freed"}]: in the hash, or freed
    loggedIn,   \* is_logged_in
    conn,       \* the PostgreSQL connection: NULL, or what PQstatus says of it
    stamped,    \* logged_out_time # 0
    outAge,     \* seconds since logged_out_time, when stamped
    inactive,   \* seconds since last_activity_time
    forms,      \* the hashes: freed, no login form, login form fresh or used
    lock,       \* the holder of session_lock
    pc,         \* where each process is
    sess,       \* the session each process holds a pointer to
    task        \* the request, then what follows close_session

record  == <<loggedIn, conn, stamped, outAge, inactive, forms>>
process == <<pc, sess, task>>
vars    == <<rec, record, lock, process>>

TypeOK ==
    /\ rec      \in [Keys -> {"none", "live", "freed"}]
    /\ loggedIn \in [Keys -> BOOLEAN]
    /\ conn     \in [Keys -> {"null", "ok", "bad"}]
    /\ stamped  \in [Keys -> BOOLEAN]
    /\ outAge   \in [Keys -> 0 .. 2 * Timeout + 1]
    /\ inactive \in [Keys -> 0 .. Timeout + 1]
    /\ forms    \in [Keys -> {"closed", "empty", "fresh", "used"}]
    /\ lock     \in [Keys -> Procs \cup {Nobody}]
    /\ pc       \in [Procs -> States]
    /\ sess     \in [Procs -> Keys \cup {NoKey}]
    /\ task     \in [Procs -> Uris \cup Returns]

Init ==
    /\ rec      = [k \in Keys |-> "none"]
    /\ loggedIn = [k \in Keys |-> FALSE]
    /\ conn     = [k \in Keys |-> "null"]
    /\ stamped  = [k \in Keys |-> FALSE]
    /\ outAge   = [k \in Keys |-> 0]
    /\ inactive = [k \in Keys |-> 0]
    /\ forms    = [k \in Keys |-> "closed"]
    /\ lock     = [k \in Keys |-> Nobody]
    /\ pc       = [p \in Procs |-> "idle"]
    /\ sess     = [p \in Procs |-> NoKey]
    /\ task     = [p \in Procs |-> "idle"]

-----------------------------------------------------------------------------
(* Helpers *)

At(p, label) == pc[p] = label

Goto(p, label) == pc' = [pc EXCEPT ![p] = label]

\* Continue at the label with the same request and session.
Step(p, label) == Goto(p, label) /\ UNCHANGED <<sess, task>>

\* The request has been answered: serve_output, free_handler.
Done(p) ==
    /\ Goto(p, "idle")
    /\ sess' = [sess EXCEPT ![p] = NoKey]
    /\ task' = [task EXCEPT ![p] = "idle"]

\* Call close_session, and go on at the label when it returns.
Close(p, after) ==
    /\ Goto(p, "close")
    /\ task' = [task EXCEPT ![p] = after]
    /\ UNCHANGED sess

\* Mutant: the age never stops growing.
OlderStill(age, bound) == age + 1

\* One second more, unless already past the bound.
Older(age, bound) == IF age > bound THEN age ELSE age + 1

-----------------------------------------------------------------------------
(* A request: accept, session_from_hargs, get_session_state and the switch *)

\* A request whose cookie leads to no session gets a login page, the logout
\* page or 401.  The last two touch no session and are left out.
NoSession(t) ==
    /\ At(t, "idle")
    /\ Step(t, "setup")
    /\ UNCHANGED <<rec, record, lock>>

\* session_from_hargs finds the record of the cookie's key, k, and
\* get_session_state reads is_logged_in, both without session_lock.
Find(t, k) == At(t, "idle") /\ rec[k] = "live" /\ sess' = [sess EXCEPT ![t] = k]

\* case session_no_login.  A validate request whose post has no usable login
\* form is answered with a new session and no form.
SessionNoLogin(t) ==
    /\ \E k \in Keys, u \in Requests :
        /\ Find(t, k) /\ ~loggedIn[k]
        /\ \/ /\ u = "validate" /\ forms[k] = "fresh"
              /\ Goto(t, "consume") /\ UNCHANGED task
           \/ /\ Goto(t, "close")
              /\ task' = [task EXCEPT ![t] = CASE u = "logout"   -> "idle"
                                               [] u = "validate" -> "setup_only"
                                               [] OTHER          -> "setup"]
    /\ UNCHANGED <<rec, record, lock>>

\* is_logged_in is set: get_session_state goes on to read conn.
ReadLogin(t) ==
    /\ \E k \in Keys, u \in Requests :
        /\ Find(t, k) /\ loggedIn[k]
        /\ Goto(t, "read_conn")
        /\ task' = [task EXCEPT ![t] = u]
    /\ UNCHANGED <<rec, record, lock>>

\* case logged_out: conn is NULL or PQstatus says bad.  The session is closed,
\* and the request goes on as one that has none.
LoggedOut(t) ==
    /\ At(t, "read_conn") /\ conn[sess[t]] # "ok"
    /\ Close(t, IF task[t] = "login" THEN "setup" ELSE "idle")
    /\ UNCHANGED <<rec, record, lock>>

\* case logged_in.  A page request may end before it asks for session_lock: no
\* form name, an unusable form tag, a refresh, or a damaged form record, which
\* clears is_logged_in and nothing else.
LoggedIn(t) ==
    /\ At(t, "read_conn") /\ conn[sess[t]] = "ok"
    /\ \/ task[t] = "login" /\ Close(t, "setup") /\ UNCHANGED loggedIn
       \/ /\ task[t] \in {"login_other", "validate"}
          /\ Close(t, "idle") /\ UNCHANGED loggedIn
       \/ /\ task[t] \in {"page", "logout"}
          /\ \/ Step(t, "wait") /\ UNCHANGED loggedIn
             \/ Done(t) /\ UNCHANGED loggedIn
             \/ Done(t) /\ loggedIn' = [loggedIn EXCEPT ![sess[t]] = FALSE]
    /\ UNCHANGED <<rec, conn, stamped, outAge, inactive, forms, lock>>

-----------------------------------------------------------------------------
(* close_session, setup_session, req_login *)

\* close_session up to the release of memory.  logged_out_time keeps its first
\* value.  Most callers do not hold session_lock.
CloseSession(p) ==
    /\ At(p, "close")
    /\ loggedIn' = [loggedIn EXCEPT ![sess[p]] = FALSE]
    /\ stamped'  = [stamped EXCEPT ![sess[p]] = TRUE]
    /\ outAge'   = [outAge EXCEPT ![sess[p]] = IF stamped[sess[p]] THEN @ ELSE 0]
    /\ Step(p, "drain")
    /\ UNCHANGED <<rec, conn, inactive, forms, lock>>

\* The rest of close_session: the hashes are freed, the connection finished.
Drain(p) ==
    /\ At(p, "drain")
    /\ forms' = [forms EXCEPT ![sess[p]] = "closed"]
    /\ conn'  = [conn EXCEPT ![sess[p]] = "null"]
    /\ IF task[p] = "idle" THEN Done(p)
       ELSE /\ Goto(p, task[p])
            /\ sess' = IF task[p] \in {"setup", "setup_only"}
                       THEN [sess EXCEPT ![p] = NoKey] ELSE sess
            /\ task' = [task EXCEPT ![p] = "idle"]
    /\ UNCHANGED <<rec, loggedIn, stamped, outAge, inactive, lock>>

\* setup_session: a fresh record under a key no cookie carries yet.
SetupSession(t) ==
    /\ \E k \in Keys :
        /\ rec[k] # "live" /\ \A p \in Procs : sess[p] # k
        /\ rec'      = [rec EXCEPT ![k] = "live"]
        /\ loggedIn' = [loggedIn EXCEPT ![k] = FALSE]
        /\ conn'     = [conn EXCEPT ![k] = "null"]
        /\ stamped'  = [stamped EXCEPT ![k] = FALSE]
        /\ outAge'   = [outAge EXCEPT ![k] = 0]
        /\ inactive' = [inactive EXCEPT ![k] = 0]
        /\ forms'    = [forms EXCEPT ![k] = "empty"]
        /\ lock'     = [lock EXCEPT ![k] = Nobody]
        /\ \/ /\ At(t, "setup") /\ Goto(t, "req_login")
              /\ sess' = [sess EXCEPT ![t] = k] /\ UNCHANGED task
           \/ At(t, "setup_only") /\ Done(t)

\* req_login: refuse the host, or register the submit-once login form.
ReqLogin(t) ==
    /\ At(t, "req_login")
    /\ \/ UNCHANGED forms
       \/ /\ forms[sess[t]] # "closed"
          /\ forms' = [forms EXCEPT ![sess[t]] = "fresh"]
    /\ Done(t)
    /\ UNCHANGED <<rec, loggedIn, conn, stamped, outAge, inactive, lock>>

-----------------------------------------------------------------------------
(* validate_login: runs without session_lock *)

\* post_contains_valid_form_tag, after the test of is_valid: mark the form
\* used; it may still prove expired.  validate_login refuses empty, 42 and long.
Consume(t) ==
    /\ At(t, "consume")
    /\ forms' = [forms EXCEPT ![sess[t]] = IF @ = "fresh" THEN "used" ELSE @]
    /\ Step(t, "connect") \/ Done(t) \/ Close(t, "setup_only")
    /\ UNCHANGED <<rec, loggedIn, conn, stamped, outAge, inactive, lock>>

\* PQconnectdbParams returns: a connection, or a failed one.
Connect(t) ==
    /\ At(t, "connect")
    /\ \E c \in {"ok", "bad"} : conn' = [conn EXCEPT ![sess[t]] = c]
    /\ Step(t, "login_result")
    /\ UNCHANGED <<rec, loggedIn, stamped, outAge, inactive, forms, lock>>

\* The test of PQstatus(h->session->conn), and what each branch stores.
LoginResult(t) ==
    /\ At(t, "login_result")
    /\ IF conn[sess[t]] = "ok"
       THEN /\ loggedIn' = [loggedIn EXCEPT ![sess[t]] = TRUE]
            /\ Step(t, "login_work") /\ UNCHANGED conn
       ELSE /\ conn' = [conn EXCEPT ![sess[t]] = "null"]
            /\ Done(t) /\ UNCHANGED loggedIn
    /\ UNCHANGED <<rec, stamped, outAge, inactive, forms, lock>>

\* Prepared statements, LISTEN, the menu's table and the redirect to it.
LoginWork(t) ==
    /\ At(t, "login_work")
    /\ Done(t)
    /\ UNCHANGED <<rec, record, lock>>

-----------------------------------------------------------------------------
(* do_page *)

\* Mutant: is_logged_in is not looked at again.
NotRechecked(t) == TRUE

\* It is possible that a logout happened while this was waiting, check again.
StillLoggedIn(t) == loggedIn[sess[t]]

\* pthread_mutex_lock(&session_lock) returns, and the request goes on if the
\* session is still logged in.
Acquire(t) ==
    /\ At(t, "wait") /\ lock[sess[t]] = Nobody
    /\ IF StillLoggedIn(t)
       THEN /\ lock'     = [lock EXCEPT ![sess[t]] = t]
            /\ inactive' = [inactive EXCEPT ![sess[t]] = 0]
            /\ Step(t, "handler")
       ELSE Done(t) /\ UNCHANGED <<lock, inactive>>
    /\ UNCHANGED <<rec, loggedIn, conn, stamped, outAge, forms>>

\* The page's handler, in the mutex: the logout page closes the session; any
\* other talks to PostgreSQL, may find the connection lost, and unlocks.  Before
\* that, check_postdata may find the form record damaged, clear is_logged_in,
\* and let the handler run.
Handler(t) ==
    /\ At(t, "handler")
    /\ \/ /\ task[t] = "logout" /\ Close(t, "unlock")
          /\ UNCHANGED <<loggedIn, conn, lock>>
       \/ /\ \/ UNCHANGED conn
             \/ conn[sess[t]] = "ok" /\ conn' = [conn EXCEPT ![sess[t]] = "bad"]
          /\ \/ UNCHANGED loggedIn
             \/ loggedIn' = [loggedIn EXCEPT ![sess[t]] = FALSE]
          /\ lock' = [lock EXCEPT ![sess[t]] = Nobody]
          /\ Done(t)
    /\ UNCHANGED <<rec, stamped, outAge, inactive, forms>>

\* After close_session: pthread_mutex_unlock, the end of the request or visit.
Unlock(p) ==
    /\ At(p, "unlock")
    /\ lock' = [lock EXCEPT ![sess[p]] = Nobody]
    /\ Done(p)
    /\ UNCHANGED <<rec, record>>

-----------------------------------------------------------------------------
(* do_housekeeping and session_housekeeping_scanner *)

\* A logged in session is closed when it has been idle too long.
Expired(k) == loggedIn[k] /\ inactive[k] > Timeout

\* Mutant: sessions that never logged in are left for ever.
OldIfClosed(k) == ~loggedIn[k] /\ stamped[k] /\ outAge[k] > 2 * Timeout

\* Any other is removed two timeouts after it was first closed.  One that never
\* was has a logged_out_time of 0, the start of 1970.
Old(k) == ~loggedIn[k] /\ (stamped[k] => outAge[k] > 2 * Timeout)

\* Mutant: the result of pthread_mutex_trylock is not looked at.
TryLockIgnored(k) == lock' = [lock EXCEPT ![k] = Housekeeper]

\* Mutant: the mutex is given back before the session is closed.
TryLockAndRelease(k) == lock[k] = Nobody /\ UNCHANGED lock

\* pthread_mutex_trylock: a locked session is left for the next pass.
TryLock(k) == lock[k] = Nobody /\ lock' = [lock EXCEPT ![k] = Housekeeper]

\* xmlHashScan comes to record k, and there is something to do for it.
HkVisit(k) ==
    /\ At(Housekeeper, "idle") /\ rec[k] = "live"
    /\ Expired(k) \/ Old(k)
    /\ TryLock(k)
    /\ sess' = [sess EXCEPT ![Housekeeper] = k]
    /\ task' = [task EXCEPT ![Housekeeper] = IF loggedIn[k] THEN "unlock" ELSE "remove"]
    /\ Goto(Housekeeper, "close")
    /\ UNCHANGED <<rec, record>>

\* The mutex of a session to remove is released before it is destroyed.
HkRelease ==
    /\ At(Housekeeper, "remove")
    /\ lock' = [lock EXCEPT ![sess[Housekeeper]] = Nobody]
    /\ Step(Housekeeper, "free")
    /\ UNCHANGED <<rec, record>>

\* pthread_mutex_destroy, xmlHashRemoveEntry, free.
HkFree ==
    /\ At(Housekeeper, "free")
    /\ rec' = [rec EXCEPT ![sess[Housekeeper]] = "freed"]
    /\ Done(Housekeeper)
    /\ UNCHANGED <<record, lock>>

-----------------------------------------------------------------------------
(* The world *)

\* time(NULL) moves on.
Tick ==
    /\ inactive' = [k \in Keys |-> IF rec[k] = "live"
                                   THEN Older(inactive[k], Timeout) ELSE inactive[k]]
    /\ outAge'   = [k \in Keys |-> IF rec[k] = "live" /\ stamped[k]
                                   THEN Older(outAge[k], 2 * Timeout) ELSE outAge[k]]
    /\ UNCHANGED <<rec, loggedIn, conn, stamped, forms, lock, process>>

\* A request uses memory another process freed: the record itself, the
\* connection or the forms under a running request, or two drains at once.
UsesFreedMemory(t) ==
    /\ sess[t] \in Keys
    /\ \/ rec[sess[t]] = "freed"
       \/ pc[t] \in {"handler", "login_work"} /\ conn[sess[t]] = "null"
       \/ At(t, "consume") /\ forms[sess[t]] = "closed"
       \/ At(t, "drain") /\ \E p \in Procs \ {t} : At(p, "drain") /\ sess[p] = sess[t]

\* Undefined behaviour: the request goes on with what it finds there, or the
\* process ends here and is started again with an empty table.
CrashAndRestart ==
    /\ \E t \in Threads : UsesFreedMemory(t)
    /\ rec'      = [k \in Keys |-> "none"]
    /\ loggedIn' = [k \in Keys |-> FALSE]
    /\ conn'     = [k \in Keys |-> "null"]
    /\ stamped'  = [k \in Keys |-> FALSE]
    /\ outAge'   = [k \in Keys |-> 0]
    /\ inactive' = [k \in Keys |-> 0]
    /\ forms'    = [k \in Keys |-> "closed"]
    /\ lock'     = [k \in Keys |-> Nobody]
    /\ pc'       = [p \in Procs |-> "idle"]
    /\ sess'     = [p \in Procs |-> NoKey]
    /\ task'     = [p \in Procs |-> "idle"]

-----------------------------------------------------------------------------
(* The specification *)

Request(t) ==
    \/ NoSession(t) \/ SessionNoLogin(t)
    \/ ReadLogin(t) \/ LoggedOut(t) \/ LoggedIn(t)
    \/ CloseSession(t) \/ Drain(t) \/ SetupSession(t) \/ ReqLogin(t)
    \/ Consume(t) \/ Connect(t) \/ LoginResult(t) \/ LoginWork(t)
    \/ Acquire(t) \/ Handler(t) \/ Unlock(t)

HkNext ==
    \/ \E k \in Keys : HkVisit(k)
    \/ CloseSession(Housekeeper) \/ Drain(Housekeeper)
    \/ Unlock(Housekeeper) \/ HkRelease \/ HkFree

Next ==
    \/ \E t \in Threads : Request(t)
    \/ HkNext
    \/ Tick
    \/ CrashAndRestart

Spec == Init /\ [][Next]_vars

\* The housekeeper's loop never waits for a request, every pass comes to every
\* record, and time passes.  Nothing is assumed of requests: a client may go
\* away and a query may never return.
FairSpec ==
    /\ Spec
    /\ WF_vars(HkNext) /\ WF_vars(Tick)
    /\ \A k \in Keys : SF_vars(HkVisit(k))

-----------------------------------------------------------------------------
(* Properties *)

\* Inside session_lock: a page's handler, a logout under way in it, or a
\* housekeeper's visit up to its unlock.
InMutex(p) ==
    \/ pc[p] \in {"handler", "unlock", "remove"}
    \/ pc[p] \in {"close", "drain"} /\ task[p] \in {"unlock", "remove"}

\* session_lock does what do_page and the housekeeper take it for: no two of
\* them are ever at work on the same session, even after the record is freed.
MutexProtectsSession ==
    \A p, q \in Procs :
        InMutex(p) /\ InMutex(q) /\ sess[p] = sess[q] => p = q

\* The housekeeper decides that a session is idle and closes it later: no
\* request can become active on the session in between (last_activity_time is
\* set only in the mutex), so a user at work is never logged out by a timeout.
HkClosesOnlyIdle ==
    At(Housekeeper, "close") /\ task[Housekeeper] = "unlock"
        => inactive[sess[Housekeeper]] > Timeout

\* A login attempt that has passed the tests of the session and the login form.
LoggingIn(k) ==
    \E t \in Threads : sess[t] = k /\ pc[t] \in {"consume", "connect", "login_result"}

\* A closed session that no login attempt is still working on.
Finished(k) ==
    rec[k] = "live" /\ stamped[k] /\ ~loggedIn[k] /\ forms[k] = "closed" /\ ~LoggingIn(k)

\* A session closed by logout or timeout is never brought back: no request that
\* arrives later logs it in, and no page that was waiting for its mutex runs.
FinishedSessionStays ==
    [][\A k \in Keys : Finished(k) =>
        /\ Finished(k)' \/ rec'[k] # "live"
        /\ \A t \in Threads : sess[t] = k /\ At(t, "wait") => ~At(t, "handler")']_vars

\* Whatever a client leaves behind, a login page it never used, a session it
\* never logged out of, a lost connection, is closed and removed in the end,
\* even while other sessions' requests hang in their handlers.
AbandonedRemoved ==
    \A k \in Keys :
        rec[k] = "live" /\ [](\A t \in Threads : sess[t] # k) ~> rec[k] # "live"

\* The comment on the housekeeper (session.c:421): a session is closed in one
\* pass and its record removed two timeouts later.  A session that never logged
\* in is closed and removed in one visit, under a login that may be running.
RemovedInTwoSteps ==
    [][\A k \in Keys : rec[k] = "live" /\ rec'[k] = "freed" => outAge[k] > 2 * Timeout]_vars

\* The comment on close_session (session.c:320): the caller holds the mutex.
\* The dispatch in launch_connection_thread calls it with no lock.
CloseHoldsMutex ==
    \A p \in Procs : pc[p] \in {"close", "drain"} => lock[sess[p]] = p

=============================================================================
