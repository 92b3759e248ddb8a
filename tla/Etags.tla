-------------------------------- MODULE Etags --------------------------------
(***************************************************************************)
(* What make_etag and validate_etag promise the request threads that call  *)
(* them (tagger.h): a tag carries a domain token and a payload; it gives   *)
(* the payload back for the same domain token and for no other.  A call    *)
(* may fail and then returns nothing: no tag, a payload of zeros.          *)
(***************************************************************************)
CONSTANTS
    Clients,        \* the threads that call
    Domains,        \* domain tokens: sessions, the forms or the files of one
    Payloads,       \* keys of sessions and forms, versions of a file
    Foreign,        \* a string that is no tag of this server
    NoCall,
    Blank,          \* no tag, or a payload of zeros
    Ones            \* the payload that stands for a tag that is not valid

VARIABLES
    call,           \* the call each client waits for
    answer,         \* what its last call returned
    up              \* FALSE once the process has exited

Tags == Domains \X Payloads

Calls ==
    [kind : {"make"}, domain : Domains, payload : Payloads]
        \cup [kind : {"validate"}, domain : Domains, tag : Tags \cup {Foreign}]

\* The answer to a call that does not fail.
Right(q) ==
    IF q.kind = "make" THEN <<q.domain, q.payload>>
    ELSE IF q.tag \in Tags /\ q.tag[1] = q.domain THEN q.tag[2] ELSE Ones

Init ==
    /\ call   = [c \in Clients |-> NoCall]
    /\ answer = [c \in Clients |-> Blank]
    /\ up     = TRUE

Ask(c) ==
    /\ up /\ call[c] = NoCall
    /\ \E q \in Calls : call' = [call EXCEPT ![c] = q]
    /\ UNCHANGED <<answer, up>>

Answer(c) ==
    /\ up /\ call[c] # NoCall
    /\ \E a \in {Right(call[c]), Blank} : answer' = [answer EXCEPT ![c] = a]
    /\ call' = [call EXCEPT ![c] = NoCall]
    /\ UNCHANGED up

\* The process exits when it can no longer connect to the tagger.
Exit == up /\ up' = FALSE /\ UNCHANGED <<call, answer>>

Next == (\E c \in Clients : Ask(c) \/ Answer(c)) \/ Exit

Spec == Init /\ [][Next]_<<call, answer, up>>

=============================================================================
