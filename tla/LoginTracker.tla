------------------------------ MODULE LoginTracker ------------------------------
(***************************************************************************)
(* The failed login tracker (login.c): a table of hosts that tried to log  *)
(* in.  No timer runs: a record that is too old is ignored by the check,   *)
(* started anew by the next attempt and removed by the housekeeper, each   *)
(* with a test of its own.  The three functions exclude each other by      *)
(* login_tracker_mutex, so each is one step.  An attempt is recorded after *)
(* PQconnectdbParams has returned, and is not checked again by then.       *)
(***************************************************************************)
EXTENDS Integers

CONSTANTS
    Hosts,          \* REMOTE_ADDR of the requests
    MaxFailed,      \* conf->max_failed_logins
    BlockTimeout,   \* conf->failed_login_block_timeout
    MaxAttempts     \* bound: attempts of a host without a pause

ASSUME TrackerConstants ==
    /\ MaxFailed \in Nat
    /\ BlockTimeout \in Nat
    /\ MaxAttempts \in Nat

VARIABLES
    tracked,        \* the hosts with a record in failed_login_tracker
    failed, success,
    age,            \* seconds since last_attempt
    verdict         \* what check_login_tracker last returned to each host

vars == <<tracked, failed, success, age, verdict>>

TypeOK ==
    /\ tracked \subseteq Hosts
    /\ failed  \in [Hosts -> 0 .. MaxAttempts]
    /\ success \in [Hosts -> 0 .. MaxAttempts]
    /\ age     \in [Hosts -> 0 .. BlockTimeout + 1]
    /\ verdict \in [Hosts -> BOOLEAN]

Init ==
    /\ tracked = {}
    /\ failed  = [h \in Hosts |-> 0]
    /\ success = [h \in Hosts |-> 0]
    /\ age     = [h \in Hosts |-> 0]
    /\ verdict = [h \in Hosts |-> TRUE]

-----------------------------------------------------------------------------

\* The record is old: so say all three functions.
Old(h) == age[h] > BlockTimeout

\* Mutant: an old record is counted on.
CountedOn(h) == h \notin tracked

\* A new record, or one that has to be started anew.
StartsAnew(h) == h \notin tracked \/ Old(h)

\* record_login_attempt, for a connection to PostgreSQL made or refused.
RecordLoginAttempt(h) ==
    LET f == IF StartsAnew(h) THEN 0 ELSE failed[h]
        s == IF StartsAnew(h) THEN 0 ELSE success[h]
    IN  /\ MaxFailed # 0
        /\ f + s < MaxAttempts
        /\ tracked' = tracked \cup {h}
        /\ age' = [age EXCEPT ![h] = 0]
        /\ \/ /\ failed'  = [failed EXCEPT ![h] = f]
              /\ success' = [success EXCEPT ![h] = s + 1]
           \/ /\ failed'  = [failed EXCEPT ![h] = f + 1]
              /\ success' = [success EXCEPT ![h] = s]
        /\ UNCHANGED verdict

\* The tests of check_login_tracker, in its order.
Honored(h) ==
    \/ MaxFailed = 0
    \/ h \notin tracked
    \/ success[h] > 0
    \/ Old(h)
    \/ failed[h] <= MaxFailed

\* Mutant: to ask for the login page counts as an attempt.
Stamped(h) == [age EXCEPT ![h] = 0]

\* check_login_tracker only looks.
Looked(h) == age

\* check_login_tracker, when req_login is asked for the login page.
CheckLoginTracker(h) ==
    /\ verdict' = [verdict EXCEPT ![h] = Honored(h)]
    /\ age' = Looked(h)
    /\ UNCHANGED <<tracked, failed, success>>

\* login_tracking_housekeeping: the old records are removed.
LoginTrackingHousekeeping ==
    /\ tracked' = {h \in tracked : ~Old(h)}
    /\ UNCHANGED <<failed, success, age, verdict>>

\* Mutant: the age never stops growing.
OlderStill(a) == a + 1

\* A second more, up to what the code can tell apart.
Older(a) == IF a > BlockTimeout THEN a ELSE a + 1

\* gettime moves on.
Tick ==
    /\ age' = [h \in Hosts |-> Older(age[h])]
    /\ UNCHANGED <<tracked, failed, success, verdict>>

Next ==
    \/ \E h \in Hosts : RecordLoginAttempt(h) \/ CheckLoginTracker(h)
    \/ LoginTrackingHousekeeping
    \/ Tick

Spec == Init /\ [][Next]_vars

\* Time passes.  The housekeeper is not needed to end a block.
FairSpec == Spec /\ WF_vars(Tick)

-----------------------------------------------------------------------------
(* Properties *)

\* The window of attempts a record stands for, if any.
Open(h) == h \in tracked /\ ~Old(h)

Windows ==
    INSTANCE FailureWindows WITH
        failed  <- [h \in Hosts |-> IF Open(h) THEN failed[h] ELSE 0],
        success <- [h \in Hosts |-> IF Open(h) THEN success[h] ELSE 0],
        left    <- [h \in Hosts |-> IF Open(h) THEN BlockTimeout + 1 - age[h] ELSE 0]

\* Wherever the housekeeper comes in between, early, late or never, and however
\* attempts, checks and expiries follow each other, every check answers as if
\* windows ended by themselves: the tracker implements FailureWindows.
Implements == Windows!Spec

\* A host is not refused for ever, however often it asks for the login page,
\* unless it goes on to attempt logins from pages it already has.
BlockEnds ==
    \A h \in Hosts : []<>Honored(h) \/ []<><<RecordLoginAttempt(h)>>_vars

=============================================================================
