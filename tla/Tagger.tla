------------------------------- MODULE Tagger -------------------------------
(***************************************************************************)
(* The tagger (tagger.c): a process of its own that holds the key, makes   *)
(* etags and opens them, one connection at a time, for the request threads *)
(* of the main process.  The server does not wait for a request once it    *)
(* has accepted a connection: a client that is slow to write gets 16 zero  *)
(* bytes and finds the connection closed.  make_etag tries again on a new  *)
(* connection, validate_etag takes the zeros for an answer.                *)
(*                                                                         *)
(* A tag is what it encrypts, a domain token and a payload; a tag of       *)
(* another key or no tag at all is Foreign (crypto_etag.c).                *)
(***************************************************************************)
EXTENDS Naturals, Sequences

CONSTANTS
    Clients, Domains, Payloads, Foreign, NoCall, Blank, Ones,
    Nothing,        \* a socket buffer without data
    Nobody,         \* the server has no connection
    MaxErrors       \* the 20 failed writes after which a client gives up

ASSUME TaggerConstants == Nobody \notin Clients /\ MaxErrors \in Nat

VARIABLES
    up,         \* the main process has not exited
    running,    \* the tagger process has not died
    queue,      \* connections not accepted yet, one per client at most
    serving,    \* the client of the server's connection, if it still has it
    server,     \* what the server does next
    inbuf,      \* the request it has read, if there was one
    pc,         \* where each client is in its call
    call, answer,
    buf,        \* its tagbuf or payload
    errors,     \* its err_cnt
    hungup,     \* the server has closed the client's connection
    sent,       \* written by the client, not read by the server
    reply       \* written by the server, not read by the client

serverVars == <<running, queue, serving, server, inbuf>>
clientVars == <<pc, call, answer, buf, errors>>
socketVars == <<hungup, sent, reply>>
vars == <<up, serverVars, clientVars, socketVars>>

Promise == INSTANCE Etags

Tags  == Promise!Tags
Calls == Promise!Calls

ASSUME NoCallIsNone == NoCall \notin Calls

Values == Tags \cup Payloads \cup {Blank, Ones}

TypeOK ==
    /\ up \in BOOLEAN /\ running \in BOOLEAN
    /\ queue   \in Seq(Clients)
    /\ serving \in Clients \cup {Nobody}
    /\ server  \in {"accept", "read", "write", "close"}
    /\ inbuf   \in Calls \cup {Nothing}
    /\ pc      \in [Clients -> {"idle", "connect", "write", "read"}]
    /\ call    \in [Clients -> Calls \cup {NoCall}]
    /\ answer  \in [Clients -> Values]
    /\ buf     \in [Clients -> Values]
    /\ errors  \in [Clients -> 0 .. MaxErrors]
    /\ hungup  \in [Clients -> BOOLEAN]
    /\ sent    \in [Clients -> Calls \cup {Nothing}]
    /\ reply   \in [Clients -> Values \cup {Nothing}]

Init ==
    /\ up = TRUE /\ running = TRUE
    /\ queue   = <<>>
    /\ serving = Nobody
    /\ server  = "accept"
    /\ inbuf   = Nothing
    /\ pc      = [c \in Clients |-> "idle"]
    /\ call    = [c \in Clients |-> NoCall]
    /\ answer  = [c \in Clients |-> Blank]
    /\ buf     = [c \in Clients |-> Blank]
    /\ errors  = [c \in Clients |-> 0]
    /\ hungup  = [c \in Clients |-> FALSE]
    /\ sent    = [c \in Clients |-> Nothing]
    /\ reply   = [c \in Clients |-> Nothing]

-----------------------------------------------------------------------------
(* The clients: make_etag and validate_etag *)

\* Mutant: the caller's buffer is not cleared.
NotWiped(c) == buf

\* bzero of tagbuf or payload.
Wiped(c) == [buf EXCEPT ![c] = Blank]

\* A thread calls make_etag, or validate_etag with a string of a tag's length.
Ask(c) ==
    /\ up /\ pc[c] = "idle"
    /\ \E q \in Calls : call' = [call EXCEPT ![c] = q]
    /\ buf'    = Wiped(c)
    /\ errors' = [errors EXCEPT ![c] = 0]
    /\ pc'     = [pc EXCEPT ![c] = "connect"]
    /\ UNCHANGED <<up, serverVars, socketVars, answer>>

\* open_client_socket: with no server to connect to, exit(28).
Connect(c) ==
    /\ up /\ pc[c] = "connect"
    /\ \/ /\ running
          /\ queue'  = Append(queue, c)
          /\ hungup' = [hungup EXCEPT ![c] = FALSE]
          /\ sent'   = [sent EXCEPT ![c] = Nothing]
          /\ reply'  = [reply EXCEPT ![c] = Nothing]
          /\ pc'     = [pc EXCEPT ![c] = "write"]
          /\ UNCHANGED up
       \/ ~running /\ up' = FALSE /\ UNCHANGED <<queue, pc, socketVars>>
    /\ UNCHANGED <<running, serving, server, inbuf, call, answer, buf, errors>>

\* Mutant: failed writes are not counted against the limit.
TryOn(c) == TRUE

\* err_cnt is below the limit.
MayRetry(c) == errors[c] < MaxErrors

\* write fails when the server has closed the connection: a new connection,
\* or, after too many errors, on to a read of the old one.
Write(c) ==
    /\ up /\ pc[c] = "write"
    /\ \/ /\ ~hungup[c]
          /\ sent' = [sent EXCEPT ![c] = call[c]]
          /\ pc'   = [pc EXCEPT ![c] = "read"]
          /\ UNCHANGED errors
       \/ /\ hungup[c] /\ MayRetry(c)
          /\ errors' = [errors EXCEPT ![c] = @ + 1]
          /\ pc'     = [pc EXCEPT ![c] = "connect"]
          /\ UNCHANGED sent
       \/ /\ hungup[c] /\ ~MayRetry(c)
          /\ pc' = [pc EXCEPT ![c] = "read"]
          /\ UNCHANGED <<errors, sent>>
    /\ UNCHANGED <<up, serverVars, call, answer, buf, hungup, reply>>

\* Mutant: the loop's condition leaves the tag out.
RetryAnyway(q, got, count) == q.kind = "make" /\ count < MaxErrors

\* The loop's condition.  make_etag goes on while it has no tag.  The one of
\* validate_etag needs part of a payload, and the server writes all 16 bytes
\* at once, so it never goes on.
Retry(q, got, count) == q.kind = "make" /\ got = Blank /\ count < MaxErrors

\* read returns what the server wrote, or nothing once it has closed the
\* connection.  Then try again, or close the socket and return.
Read(c) ==
    LET got == IF reply[c] # Nothing THEN reply[c] ELSE buf[c] IN
    /\ up /\ pc[c] = "read"
    /\ reply[c] # Nothing \/ hungup[c]
    /\ reply' = [reply EXCEPT ![c] = Nothing]
    /\ buf'   = [buf EXCEPT ![c] = got]
    /\ IF Retry(call[c], got, errors[c])
       THEN /\ pc' = [pc EXCEPT ![c] = "write"]
            /\ UNCHANGED <<call, answer, serving>>
       ELSE /\ pc' = [pc EXCEPT ![c] = "idle"]
            /\ call'    = [call EXCEPT ![c] = NoCall]
            /\ answer'  = [answer EXCEPT ![c] = got]
            /\ serving' = IF serving = c THEN Nobody ELSE serving
    /\ UNCHANGED <<up, running, queue, server, inbuf, errors, hungup, sent>>

-----------------------------------------------------------------------------
(* The server: process_requests *)

\* accept4, SOCK_NONBLOCK.
Accept ==
    /\ running /\ server = "accept" /\ queue # <<>>
    /\ serving' = Head(queue)
    /\ queue'   = Tail(queue)
    /\ server'  = "read"
    /\ UNCHANGED <<up, running, inbuf, clientVars, socketVars>>

\* poll with a timeout of 0, and read: whatever is there now.
ReadRequest ==
    /\ running /\ server = "read"
    /\ inbuf'  = sent[serving]
    /\ sent'   = [sent EXCEPT ![serving] = Nothing]
    /\ server' = "write"
    /\ UNCHANGED <<up, running, queue, serving, clientVars, hungup, reply>>

\* make_crypto_etag, for a payload and a domain token that are not 0.
MakeCryptoEtag(d, p) == <<d, p>>

\* validate_crypto_etag and the comparison of the domain tokens.
ValidateCryptoEtag(d, t) == IF t \in Tags /\ t[1] = d THEN t[2] ELSE Ones

\* The switch on the number of bytes read.
Output ==
    IF inbuf = Nothing THEN Blank
    ELSE IF inbuf.kind = "make" THEN MakeCryptoEtag(inbuf.domain, inbuf.payload)
    ELSE ValidateCryptoEtag(inbuf.domain, inbuf.tag)

WriteReply ==
    /\ running /\ server = "write"
    /\ reply'  = [reply EXCEPT ![serving] = Output]
    /\ server' = "close"
    /\ UNCHANGED <<up, running, queue, serving, inbuf, clientVars, hungup, sent>>

\* Mutant: the connection of a client whose request was not there is not closed.
HangupServed(c) == IF inbuf # Nothing THEN [hungup EXCEPT ![c] = TRUE] ELSE hungup

\* close(incoming)
Hangup(c) == [hungup EXCEPT ![c] = TRUE]

CloseConnection ==
    /\ running /\ server = "close"
    /\ hungup'  = IF serving = Nobody THEN hungup ELSE Hangup(serving)
    /\ serving' = Nobody
    /\ inbuf'   = Nothing
    /\ server'  = "accept"
    /\ UNCHANGED <<up, running, queue, clientVars, sent, reply>>

\* The tagger process is killed: its connections are closed.
Die ==
    /\ running /\ running' = FALSE
    /\ queue'   = <<>>
    /\ serving' = Nobody
    /\ server'  = "accept"
    /\ inbuf'   = Nothing
    /\ hungup'  = [c \in Clients |-> TRUE]
    /\ UNCHANGED <<up, clientVars, sent, reply>>

-----------------------------------------------------------------------------

Serve == Accept \/ ReadRequest \/ WriteReply \/ CloseConnection

Client(c) == Connect(c) \/ Write(c) \/ Read(c)

Next == (\E c \in Clients : Ask(c) \/ Client(c)) \/ Serve \/ Die

Spec == Init /\ [][Next]_vars

\* The kernel runs both processes and all threads; nothing makes a thread call,
\* and nothing but a signal kills the tagger.
FairSpec == Spec /\ WF_vars(Serve) /\ \A c \in Clients : WF_vars(Client(c))

-----------------------------------------------------------------------------
(* Properties *)

\* No client ever gets the answer to another call, of its own or of another
\* client, however late it writes and however often it reconnects: the tagger
\* implements Etags.
Implements == Promise!Spec

\* An answer that the server has written is read by the client it is for, and
\* returned: no client reconnects, and throws it away, once its request has been
\* read, and none tries again that has its tag.
AnswerReachesCaller ==
    [][\A c \in Clients :
        reply[c] \notin {Nothing, Blank} /\ reply'[c] # reply[c]
            => pc'[c] = "idle" /\ answer'[c] = reply[c]]_vars

\* Every call returns, or the process exits: the server never waits for a
\* client, and no client waits for a server that has turned to another.
CallsReturn == \A c \in Clients : pc[c] # "idle" ~> pc[c] = "idle" \/ ~up


=============================================================================
