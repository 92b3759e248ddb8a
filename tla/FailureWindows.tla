----------------------------- MODULE FailureWindows -----------------------------
(***************************************************************************)
(* What the failed login tracker of qzforms promises: the login attempts   *)
(* of a host that follow each other within BlockTimeout seconds form a     *)
(* window; a host is refused the login page while its window holds more    *)
(* than MaxFailed failures and no success.  A window ends by itself.       *)
(***************************************************************************)
EXTENDS Integers

CONSTANTS
    Hosts,
    MaxFailed,      \* conf->max_failed_logins, 0 for no blocking at all
    BlockTimeout    \* conf->failed_login_block_timeout

VARIABLES
    failed,         \* failures in the window of each host
    success,        \* successes in it
    left,           \* seconds until it ends, 0 when there is none
    verdict         \* the answer to each host's last request for the page

Init ==
    /\ failed  = [h \in Hosts |-> 0]
    /\ success = [h \in Hosts |-> 0]
    /\ left    = [h \in Hosts |-> 0]
    /\ verdict = [h \in Hosts |-> TRUE]

Attempt(h) ==
    /\ \/ failed' = [failed EXCEPT ![h] = @ + 1] /\ UNCHANGED success
       \/ success' = [success EXCEPT ![h] = @ + 1] /\ UNCHANGED failed
    /\ left' = [left EXCEPT ![h] = BlockTimeout + 1]
    /\ UNCHANGED verdict

Allowed(h) == MaxFailed = 0 \/ success[h] > 0 \/ failed[h] <= MaxFailed

Check(h) ==
    /\ verdict' = [verdict EXCEPT ![h] = Allowed(h)]
    /\ UNCHANGED <<failed, success, left>>

\* A second passes, and windows that end are forgotten.
Tick ==
    /\ left'    = [h \in Hosts |-> IF left[h] = 0 THEN 0 ELSE left[h] - 1]
    /\ failed'  = [h \in Hosts |-> IF left[h] <= 1 THEN 0 ELSE failed[h]]
    /\ success' = [h \in Hosts |-> IF left[h] <= 1 THEN 0 ELSE success[h]]
    /\ UNCHANGED verdict

Next == (\E h \in Hosts : Attempt(h) \/ Check(h)) \/ Tick

Spec == Init /\ [][Next]_<<failed, success, left, verdict>>

=============================================================================
