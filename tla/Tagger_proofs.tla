---------------------------- MODULE Tagger_proofs ----------------------------
(***************************************************************************)
(* Proofs about Tagger: its types, and that it implements Etags for any    *)
(* number of clients, domains and payloads.  What makes it work is that a  *)
(* socket holds nothing but the business of the call its client is in: the *)
(* request sent is that call's, the reply is its answer or zeros, and a    *)
(* client that goes on to a new connection has left no old one behind.     *)
(***************************************************************************)
EXTENDS Tagger, TLAPS

AtWork(c) == pc[c] \in {"write", "read"}

Right(c) == Promise!Right(call[c])

Calling == \A c \in Clients : pc[c] = "idle" <=> call[c] = NoCall

Own ==
    \A c \in Clients :
        /\ pc[c] # "idle" => buf[c] \in {Blank, Right(c)}
        /\ AtWork(c) => /\ sent[c] \in {Nothing, call[c]}
                        /\ reply[c] \in {Nothing, Blank, Right(c)}

Queued ==
    /\ \A i \in 1 .. Len(queue) :
        /\ AtWork(queue[i]) /\ ~hungup[queue[i]]
        /\ reply[queue[i]] = Nothing
        /\ serving # queue[i]
    /\ \A i, j \in 1 .. Len(queue) : queue[i] = queue[j] => i = j

Served ==
    /\ serving # Nobody => AtWork(serving) /\ ~hungup[serving]
    /\ server \in {"read", "write"} => serving # Nobody /\ reply[serving] = Nothing
    /\ server = "write" => inbuf \in {Nothing, call[serving]}
    /\ server = "accept" => serving = Nobody

IInv == TypeOK /\ Calling /\ Own /\ Queued /\ Served

-----------------------------------------------------------------------------

\* The right answer to a call is a value, and is what the server puts out.
LEMMA RightIsValue ==
    ASSUME NEW q \in Calls
    PROVE  Promise!Right(q) \in Values
<1>1. CASE q.kind = "make"
  <2>1. q \in [kind : {"make"}, domain : Domains, payload : Payloads]
    BY <1>1 DEF Calls, Promise!Calls
  <2>2. q.domain \in Domains /\ q.payload \in Payloads
    BY <2>1
  <2> QED BY <1>1, <2>2 DEF Values, Tags, Promise!Tags, Promise!Right
<1>2. CASE q.kind # "make"
  BY <1>2 DEF Values, Tags, Promise!Tags, Promise!Right
<1> QED BY <1>1, <1>2

LEMMA OutputIsRight ==
    ASSUME TypeOK
    PROVE  Output = IF inbuf = Nothing THEN Blank ELSE Promise!Right(inbuf)
BY DEF Output, MakeCryptoEtag, ValidateCryptoEtag, Tags, Promise!Right

THEOREM InitIInv == Init => IInv
BY TaggerConstants DEF Init, IInv, TypeOK, Calling, Own, AtWork, Queued, Served, Values

-----------------------------------------------------------------------------
(* One lemma for each kind of step. *)

LEMMA AskKeeps == ASSUME IInv, NEW c \in Clients, Ask(c) PROVE IInv'
<1> USE DEF serverVars, socketVars
<1>2. PICK q \in Calls : call' = [call EXCEPT ![c] = q] BY DEF Ask
<1>1. TypeOK'
  <2>1. call' \in [Clients -> Calls \cup {NoCall}] BY <1>2 DEF IInv, TypeOK
  <2>2. /\ buf' \in [Clients -> Values]
        /\ pc' \in [Clients -> {"idle", "connect", "write", "read"}]
        /\ errors' \in [Clients -> 0 .. MaxErrors]
    BY TaggerConstants DEF IInv, TypeOK, Ask, Wiped, Values
  <2> QED BY <2>1, <2>2 DEF IInv, TypeOK, Ask
<1>3. Calling' BY <1>2, NoCallIsNone DEF IInv, Calling, Ask, TypeOK
<1>4. Own' BY <1>2 DEF IInv, Own, Ask, TypeOK, AtWork, Right, Wiped
<1>5. Queued' BY <1>2 DEF IInv, Queued, Ask, TypeOK, AtWork
<1>6. Served' BY <1>2, TaggerConstants DEF IInv, Served, Ask, TypeOK, AtWork
<1> QED BY <1>1, <1>3, <1>4, <1>5, <1>6 DEF IInv

LEMMA ConnectKeeps == ASSUME IInv, NEW c \in Clients, Connect(c) PROVE IInv'
<1> USE DEF serverVars, socketVars
<1>1. CASE running
  <2>1. /\ queue' = Append(queue, c)
        /\ hungup' = [hungup EXCEPT ![c] = FALSE]
        /\ sent' = [sent EXCEPT ![c] = Nothing]
        /\ reply' = [reply EXCEPT ![c] = Nothing]
        /\ pc' = [pc EXCEPT ![c] = "write"]
        /\ pc[c] = "connect"
        /\ UNCHANGED <<up, running, serving, server, inbuf, call, answer, buf, errors>>
    BY <1>1 DEF Connect
  <2>2. TypeOK'
    <3>1. queue' \in Seq(Clients) BY <2>1 DEF IInv, TypeOK
    <3>2. /\ hungup' \in [Clients -> BOOLEAN]
          /\ sent' \in [Clients -> Calls \cup {Nothing}]
          /\ reply' \in [Clients -> Values \cup {Nothing}]
          /\ pc' \in [Clients -> {"idle", "connect", "write", "read"}]
      BY <2>1 DEF IInv, TypeOK
    <3> QED BY <2>1, <3>1, <3>2 DEF IInv, TypeOK
  <2>3. Calling' BY <2>1 DEF IInv, Calling, TypeOK
  <2>4. Own' BY <2>1 DEF IInv, Own, TypeOK, AtWork, Right
  <2>5. Queued'
    <3>1. /\ Len(queue') = Len(queue) + 1 /\ Len(queue) \in Nat
          /\ \A i \in 1 .. Len(queue) : queue'[i] = queue[i] /\ queue[i] \in Clients
          /\ queue'[Len(queue) + 1] = c
      BY <2>1 DEF IInv, TypeOK
    <3>2. \A i \in 1 .. Len(queue) : queue[i] # c
      BY <2>1 DEF IInv, Queued, AtWork
    <3>3. serving # c BY <2>1, TaggerConstants DEF IInv, Served, AtWork
    <3>4. \A i \in 1 .. Len(queue') :
             i \in 1 .. Len(queue) \/ i = Len(queue) + 1
      BY <3>1
    <3>5. ASSUME NEW i \in 1 .. Len(queue')
          PROVE  /\ AtWork(queue[i])' /\ ~hungup'[queue'[i]]
                 /\ reply'[queue'[i]] = Nothing
                 /\ serving' # queue'[i]
      <4>1. CASE i \in 1 .. Len(queue)
        BY <4>1, <2>1, <3>1, <3>2 DEF IInv, Queued, TypeOK, AtWork
      <4>2. CASE i = Len(queue) + 1
        BY <4>2, <2>1, <3>1, <3>3 DEF IInv, TypeOK, AtWork
      <4> QED BY <4>1, <4>2, <3>4
    <3>6. ASSUME NEW i \in 1 .. Len(queue'), NEW j \in 1 .. Len(queue'), queue'[i] = queue'[j]
          PROVE  i = j
      BY <3>1, <3>2, <3>4, <3>6 DEF IInv, Queued
    <3> QED BY <3>5, <3>6 DEF Queued
  <2>6. Served' BY <2>1, TaggerConstants DEF IInv, Served, TypeOK, AtWork
  <2> QED BY <2>2, <2>3, <2>4, <2>5, <2>6 DEF IInv
<1>2. CASE ~running
  <2>1. up' = FALSE /\ UNCHANGED <<running, queue, serving, server, inbuf, pc, call,
                                   answer, buf, errors, hungup, sent, reply>>
    BY <1>2 DEF Connect
  <2> QED BY <2>1 DEF IInv, TypeOK, Calling, Own, AtWork, Right, Queued, Served
<1> QED BY <1>1, <1>2 DEF IInv, TypeOK

LEMMA WriteKeeps == ASSUME IInv, NEW c \in Clients, Write(c) PROVE IInv'
<1> USE DEF serverVars
<1>1. /\ pc[c] = "write"
      /\ \E p \in {"read", "connect"} : pc' = [pc EXCEPT ![c] = p] /\ (p = "connect" => hungup[c])
      /\ sent' \in {sent, [sent EXCEPT ![c] = call[c]]}
      /\ UNCHANGED <<up, running, queue, serving, server, inbuf, call, answer, buf, hungup, reply>>
  BY DEF Write
<1>2. call[c] \in Calls BY <1>1 DEF IInv, TypeOK, Calling
<1>3. TypeOK'
  <2>1. sent' \in [Clients -> Calls \cup {Nothing}] BY <1>1, <1>2 DEF IInv, TypeOK
  <2>2. errors' \in [Clients -> 0 .. MaxErrors]
    <3>1. \/ errors' = errors
          \/ errors' = [errors EXCEPT ![c] = @ + 1] /\ errors[c] < MaxErrors
      BY DEF Write, MayRetry
    <3> QED BY <3>1, TaggerConstants DEF IInv, TypeOK
  <2>3. pc' \in [Clients -> {"idle", "connect", "write", "read"}] BY <1>1 DEF IInv, TypeOK
  <2> QED BY <1>1, <2>1, <2>2, <2>3 DEF IInv, TypeOK
<1>4. Calling' BY <1>1 DEF IInv, Calling, TypeOK
<1>5. Own' BY <1>1 DEF IInv, Own, TypeOK, AtWork, Right
<1>6. Queued' BY <1>1 DEF IInv, Queued, TypeOK, AtWork
<1>7. Served' BY <1>1, TaggerConstants DEF IInv, Served, TypeOK, AtWork
<1> QED BY <1>3, <1>4, <1>5, <1>6, <1>7 DEF IInv

\* What a read gives the caller is its answer, or zeros.
LEMMA ReadRight ==
    ASSUME IInv, NEW c \in Clients, Read(c)
    PROVE  LET got == IF reply[c] # Nothing THEN reply[c] ELSE buf[c] IN
           got \in {Blank, Right(c)} /\ got \in Values /\ call[c] \in Calls
<1>1. pc[c] = "read" BY DEF Read
<1> QED BY <1>1 DEF IInv, TypeOK, Own, AtWork, Calling

LEMMA ReadKeeps == ASSUME IInv, NEW c \in Clients, Read(c) PROVE IInv'
<1> DEFINE got == IF reply[c] # Nothing THEN reply[c] ELSE buf[c]
<1>1. got \in {Blank, Right(c)} /\ got \in Values /\ call[c] \in Calls BY ReadRight
<1> HIDE DEF got
<1>2. /\ pc[c] = "read"
      /\ reply[c] # Nothing \/ hungup[c]
      /\ reply' = [reply EXCEPT ![c] = Nothing]
      /\ buf' = [buf EXCEPT ![c] = got]
      /\ UNCHANGED <<up, running, queue, server, inbuf, errors, hungup, sent>>
  BY DEF Read, got
<1>3. \A i \in 1 .. Len(queue) : queue[i] # c
  BY <1>2 DEF IInv, Queued
<1>4. serving = c => server = "close"
  BY <1>2, TaggerConstants DEF IInv, Served, TypeOK
<1>5. CASE Retry(call[c], got, errors[c])
  <2>1. pc' = [pc EXCEPT ![c] = "write"] /\ UNCHANGED <<call, answer, serving>>
    BY <1>5 DEF Read, got
  <2>2. TypeOK' BY <1>1, <1>2, <2>1 DEF IInv, TypeOK
  <2>3. Calling' BY <1>2, <2>1 DEF IInv, Calling, TypeOK
  <2>4. Own' BY <1>1, <1>2, <2>1 DEF IInv, Own, TypeOK, AtWork, Right
  <2>5. Queued' BY <1>2, <1>3, <2>1 DEF IInv, Queued, TypeOK, AtWork
  <2>6. Served' BY <1>2, <1>4, <2>1, TaggerConstants DEF IInv, Served, TypeOK, AtWork
  <2> QED BY <2>2, <2>3, <2>4, <2>5, <2>6 DEF IInv
<1>6. CASE ~Retry(call[c], got, errors[c])
  <2>1. /\ pc' = [pc EXCEPT ![c] = "idle"]
        /\ call' = [call EXCEPT ![c] = NoCall]
        /\ answer' = [answer EXCEPT ![c] = got]
        /\ serving' = IF serving = c THEN Nobody ELSE serving
    BY <1>6 DEF Read, got
  <2>2. TypeOK' BY <1>1, <1>2, <2>1 DEF IInv, TypeOK
  <2>3. Calling' BY <1>2, <2>1 DEF IInv, Calling, TypeOK
  <2>4. Own' BY <1>1, <1>2, <2>1 DEF IInv, Own, TypeOK, AtWork, Right
  <2>5. Queued'
    <3>1. \A i \in 1 .. Len(queue) : queue[i] \in Clients BY DEF IInv, TypeOK
    <3> QED BY <1>2, <1>3, <2>1, <3>1, TaggerConstants DEF IInv, Queued, TypeOK, AtWork
  <2>6. Served' BY <1>2, <1>4, <2>1, TaggerConstants DEF IInv, Served, TypeOK, AtWork
  <2> QED BY <2>2, <2>3, <2>4, <2>5, <2>6 DEF IInv
<1> QED BY <1>5, <1>6

LEMMA AcceptKeeps == ASSUME IInv, Accept PROVE IInv'
<1> USE DEF clientVars, socketVars
<1>1. queue \in Seq(Clients) /\ queue # <<>> BY DEF IInv, TypeOK, Accept
<1>2. /\ Len(queue) \in Nat \ {0} /\ Len(queue') = Len(queue) - 1
      /\ serving' = queue[1] /\ queue[1] \in Clients
      /\ \A i \in 1 .. Len(queue') : queue'[i] = queue[i + 1] /\ i + 1 \in 1 .. Len(queue)
      /\ queue' \in Seq(Clients)
  BY <1>1 DEF Accept
<1>3. server = "accept" /\ server' = "read"
      /\ UNCHANGED <<up, running, inbuf, pc, call, answer, buf, errors, hungup, sent, reply>>
  BY DEF Accept
<1>4. TypeOK' BY <1>2, <1>3 DEF IInv, TypeOK
<1>5. Calling' /\ Own' BY <1>3 DEF IInv, Calling, Own, AtWork, Right
<1>6. Queued'
  <2>1. ASSUME NEW i \in 1 .. Len(queue')
        PROVE  /\ AtWork(queue[i])' /\ ~hungup'[queue'[i]]
               /\ reply'[queue'[i]] = Nothing
               /\ serving' # queue'[i]
    <3>1. queue[1] # queue[i + 1] BY <1>2, <2>1 DEF IInv, Queued
    <3> QED BY <1>2, <1>3, <2>1, <3>1 DEF IInv, Queued, AtWork
  <2>2. ASSUME NEW i \in 1 .. Len(queue'), NEW j \in 1 .. Len(queue'), queue'[i] = queue'[j]
        PROVE  i = j
    <3>1. i + 1 = j + 1 BY <1>2, <2>2 DEF IInv, Queued
    <3> QED BY <3>1, <1>2
  <2> QED BY <2>1, <2>2 DEF Queued
<1>7. Served'
  <2>1. 1 \in 1 .. Len(queue) BY <1>2
  <2> QED BY <1>2, <1>3, <2>1, TaggerConstants DEF IInv, Queued, Served, AtWork
<1> QED BY <1>4, <1>5, <1>6, <1>7 DEF IInv

LEMMA ReadRequestKeeps == ASSUME IInv, ReadRequest PROVE IInv'
<1> USE DEF clientVars
<1>1. serving \in Clients /\ AtWork(serving) /\ sent[serving] \in {Nothing, call[serving]}
  BY DEF IInv, TypeOK, ReadRequest, Served, Own
<1>2. /\ server = "read" /\ server' = "write"
      /\ inbuf' = sent[serving]
      /\ sent' = [sent EXCEPT ![serving] = Nothing]
      /\ UNCHANGED <<up, running, queue, serving, pc, call, answer, buf, errors, hungup, reply>>
  BY DEF ReadRequest
<1>3. TypeOK' BY <1>1, <1>2 DEF IInv, TypeOK
<1>4. Calling' BY <1>2 DEF IInv, Calling
<1>5. Own' BY <1>1, <1>2 DEF IInv, TypeOK, Own, AtWork, Right
<1>6. Queued' BY <1>2 DEF IInv, Queued, AtWork
<1>7. Served' BY <1>1, <1>2 DEF IInv, Served, AtWork
<1> QED BY <1>3, <1>4, <1>5, <1>6, <1>7 DEF IInv

LEMMA WriteReplyKeeps == ASSUME IInv, WriteReply PROVE IInv'
<1> USE DEF clientVars
<1>1. serving \in Clients /\ AtWork(serving) /\ inbuf \in {Nothing, call[serving]}
  BY DEF IInv, TypeOK, WriteReply, Served
<1>2. /\ server' = "close"
      /\ reply' = [reply EXCEPT ![serving] = Output]
      /\ UNCHANGED <<up, running, queue, serving, inbuf, pc, call, answer, buf, errors, hungup, sent>>
  BY DEF WriteReply
<1>3. Output \in {Blank, Right(serving)} BY <1>1, OutputIsRight DEF IInv, Right
<1>4. Output \in Values
  <2>1. call[serving] \in Calls BY <1>1 DEF IInv, TypeOK, Calling, AtWork
  <2>2. Right(serving) \in Values BY <2>1, RightIsValue DEF Right
  <2> QED BY <1>3, <2>2 DEF Values
<1>5. TypeOK' BY <1>2, <1>4 DEF IInv, TypeOK
<1>6. Calling' BY <1>2 DEF IInv, Calling
<1>7. Own' BY <1>1, <1>2, <1>3 DEF IInv, TypeOK, Own, AtWork, Right
<1>8. Queued' BY <1>1, <1>2 DEF IInv, TypeOK, Queued, AtWork
<1>9. Served' BY <1>2 DEF IInv, Served, AtWork
<1> QED BY <1>5, <1>6, <1>7, <1>8, <1>9 DEF IInv

LEMMA CloseConnectionKeeps == ASSUME IInv, CloseConnection PROVE IInv'
<1> USE DEF clientVars
<1>1. /\ hungup' = IF serving = Nobody THEN hungup ELSE [hungup EXCEPT ![serving] = TRUE]
      /\ serving' = Nobody /\ inbuf' = Nothing /\ server' = "accept"
      /\ UNCHANGED <<up, running, queue, pc, call, answer, buf, errors, sent, reply>>
  BY DEF CloseConnection, Hangup
<1>2. TypeOK' BY <1>1 DEF IInv, TypeOK
<1>3. Calling' /\ Own' BY <1>1 DEF IInv, Calling, Own, AtWork, Right
<1>4. Queued'
  <2>1. \A i \in 1 .. Len(queue) : queue[i] \in Clients /\ queue[i] # serving
    BY DEF IInv, TypeOK, Queued
  <2> QED BY <1>1, <2>1, TaggerConstants DEF IInv, TypeOK, Queued, AtWork
<1>5. Served' BY <1>1 DEF Served
<1> QED BY <1>2, <1>3, <1>4, <1>5 DEF IInv

LEMMA DieKeeps == ASSUME IInv, Die PROVE IInv'
<1> USE DEF clientVars
<1>1. TypeOK'
  <2>1. queue' \in Seq(Clients) /\ hungup' \in [Clients -> BOOLEAN]
    BY DEF Die
  <2> QED BY <2>1 DEF IInv, TypeOK, Die
<1>2. Calling' /\ Own' BY DEF IInv, Calling, Own, Die, AtWork, Right
<1>3. Queued' /\ Served' BY DEF Die, Queued, Served
<1> QED BY <1>1, <1>2, <1>3 DEF IInv

LEMMA StutterKeeps == ASSUME IInv, UNCHANGED vars PROVE IInv'
BY DEF vars, serverVars, clientVars, socketVars, IInv, TypeOK, Calling, Own, Queued,
       Served, AtWork, Right

THEOREM NextIInv == IInv /\ [Next]_vars => IInv'
BY AskKeeps, ConnectKeeps, WriteKeeps, ReadKeeps, AcceptKeeps, ReadRequestKeeps,
   WriteReplyKeeps, CloseConnectionKeeps, DieKeeps, StutterKeeps
   DEF Next, Client, Serve

THEOREM SpecIInv == Spec => []IInv
BY InitIInv, NextIInv, PTL DEF Spec

-----------------------------------------------------------------------------

\* Every variable of the clients, sockets and server keeps its type.
THEOREM TypeCorrect == Spec => []TypeOK
<1>1. IInv => TypeOK BY DEF IInv
<1> QED BY <1>1, SpecIInv, PTL

\* A step of the tagger or its clients is a step of Etags: only Ask, the end of
\* a Read, and a Connect that finds no server are seen.
LEMMA StepMaps ==
    ASSUME IInv, [Next]_vars
    PROVE  [Promise!Next]_<<call, answer, up>>
<1>1. ASSUME NEW c \in Clients, Ask(c) PROVE Promise!Ask(c)
  BY <1>1 DEF IInv, Calling, Ask, Promise!Ask, Calls
<1>2. ASSUME NEW c \in Clients, Connect(c)
      PROVE  Promise!Exit \/ UNCHANGED <<call, answer, up>>
  BY <1>2 DEF Connect, Promise!Exit
<1>3. ASSUME NEW c \in Clients, Read(c)
      PROVE  Promise!Answer(c) \/ UNCHANGED <<call, answer, up>>
  <2> DEFINE got == IF reply[c] # Nothing THEN reply[c] ELSE buf[c]
  <2>1. got \in {Blank, Right(c)} /\ call[c] \in Calls BY <1>3, ReadRight
  <2> HIDE DEF got
  <2>2. up /\ UNCHANGED up BY <1>3 DEF Read
  <2>3. \/ UNCHANGED <<call, answer>>
        \/ call' = [call EXCEPT ![c] = NoCall] /\ answer' = [answer EXCEPT ![c] = got]
    BY <1>3 DEF Read, got
  <2> QED BY <2>1, <2>2, <2>3, NoCallIsNone DEF Promise!Answer, Right
<1>4. ASSUME \/ \E c \in Clients : Write(c)
             \/ Accept \/ ReadRequest \/ WriteReply \/ CloseConnection \/ Die
             \/ UNCHANGED vars
      PROVE  UNCHANGED <<call, answer, up>>
  BY <1>4 DEF Write, Accept, ReadRequest, WriteReply, CloseConnection, Die, vars, clientVars
<1> QED BY <1>1, <1>2, <1>3, <1>4 DEF Next, Client, Serve, Promise!Next

\* For any threads, domains and payloads no call gets the answer to another:
\* the tagger implements Etags.
THEOREM TaggerImplementsEtags == Spec => Implements
<1>1. Init => Promise!Init BY DEF Init, Promise!Init
<1>2. IInv /\ [Next]_vars => [Promise!Next]_<<call, answer, up>> BY StepMaps
<1> QED BY <1>1, <1>2, SpecIInv, PTL DEF Spec, Implements, Promise!Spec

-----------------------------------------------------------------------------
(* No answer is lost.  The server gives a client more than zeros only if it  *)
(* has its request, so the client has come to its read.  A request sent on   *)
(* the connection before does not count: sent is emptied by Connect, and a   *)
(* client that tries again on the old one is past being read.                *)

InTime ==
    /\ \A c \in Clients : pc[c] # "read" => reply[c] \in {Nothing, Blank}
    /\ \A i \in 1 .. Len(queue) : sent[queue[i]] # Nothing => pc[queue[i]] = "read"
    /\ server = "read" /\ sent[serving] # Nothing => pc[serving] = "read"
    /\ server = "write" /\ inbuf # Nothing => pc[serving] = "read"

LEMMA InTimeKept == ASSUME IInv, InTime, [Next]_vars PROVE InTime'
<1> USE DEF serverVars, clientVars, socketVars
<1>1. \A i \in 1 .. Len(queue) : queue[i] \in Clients BY DEF IInv, TypeOK
<1>2. ASSUME NEW c \in Clients, Ask(c) PROVE InTime'
  <2>1. pc[c] = "idle" /\ pc' = [pc EXCEPT ![c] = "connect"]
        /\ UNCHANGED <<queue, serving, server, inbuf, sent, reply>>
    BY <1>2 DEF Ask
  <2>2. serving # c /\ \A i \in 1 .. Len(queue) : queue[i] # c
    BY <2>1, TaggerConstants DEF IInv, Served, Queued, AtWork
  <2> QED BY <1>1, <2>1, <2>2, TaggerConstants DEF InTime, IInv, TypeOK, Served
<1>3. ASSUME NEW c \in Clients, Connect(c) PROVE InTime'
  <2>1. CASE running
    <3>1. /\ pc[c] = "connect" /\ pc' = [pc EXCEPT ![c] = "write"]
          /\ queue' = Append(queue, c)
          /\ sent' = [sent EXCEPT ![c] = Nothing] /\ reply' = [reply EXCEPT ![c] = Nothing]
          /\ UNCHANGED <<serving, server, inbuf>>
      BY <1>3, <2>1 DEF Connect
    <3>2. serving # c /\ \A i \in 1 .. Len(queue) : queue[i] # c
      BY <3>1, TaggerConstants DEF IInv, Served, Queued, AtWork
    <3>3. \A i \in 1 .. Len(queue') :
                queue'[i] = c \/ (i \in 1 .. Len(queue) /\ queue'[i] = queue[i])
      BY <3>1 DEF IInv, TypeOK
    <3>4. \A i \in 1 .. Len(queue') : sent'[queue'[i]] # Nothing => pc'[queue'[i]] = "read"
      BY <1>1, <3>1, <3>2, <3>3 DEF InTime, IInv, TypeOK
    <3> QED BY <3>1, <3>2, <3>4, TaggerConstants DEF InTime, IInv, TypeOK, Served
  <2>2. CASE ~running
    BY <1>3, <2>2 DEF Connect, InTime
  <2> QED BY <2>1, <2>2
<1>4. ASSUME NEW c \in Clients, Write(c) PROVE InTime'
  <2>1. pc[c] = "write" /\ UNCHANGED <<queue, serving, server, inbuf, reply>>
    BY <1>4 DEF Write
  <2>2. CASE pc' = [pc EXCEPT ![c] = "read"]
    <3>1. sent' \in {sent, [sent EXCEPT ![c] = call[c]]} BY <1>4 DEF Write
    <3> QED BY <1>1, <2>1, <2>2, <3>1, TaggerConstants DEF InTime, IInv, TypeOK, Served
  <2>3. CASE hungup[c] /\ pc' = [pc EXCEPT ![c] = "connect"] /\ sent' = sent
    <3>1. serving # c /\ \A i \in 1 .. Len(queue) : queue[i] # c
      BY <2>3, TaggerConstants DEF IInv, Served, Queued
    <3> QED BY <1>1, <2>1, <2>3, <3>1, TaggerConstants DEF InTime, IInv, TypeOK, Served
  <2> QED BY <1>4, <2>2, <2>3 DEF Write
<1>5. ASSUME NEW c \in Clients, Read(c) PROVE InTime'
  <2>1. /\ pc[c] = "read" /\ (reply[c] # Nothing \/ hungup[c])
        /\ \E p \in {"write", "idle"} : pc' = [pc EXCEPT ![c] = p]
        /\ reply' = [reply EXCEPT ![c] = Nothing]
        /\ serving' = serving \/ (serving = c /\ serving' = Nobody)
        /\ UNCHANGED <<queue, server, inbuf, sent>>
    BY <1>5 DEF Read
  <2>2. \A i \in 1 .. Len(queue) : queue[i] # c BY <2>1 DEF IInv, Queued
  <2>3. serving = c => server \notin {"read", "write"}
    BY <2>1, TaggerConstants DEF IInv, Served
  <2> QED BY <1>1, <2>1, <2>2, <2>3, TaggerConstants DEF InTime, IInv, TypeOK, Served
<1>6. CASE Accept
  <2>1. queue \in Seq(Clients) /\ queue # <<>> BY <1>6 DEF IInv, TypeOK, Accept
  <2>2. /\ serving' = queue[1] /\ 1 \in 1 .. Len(queue)
        /\ \A i \in 1 .. Len(queue') : queue'[i] = queue[i + 1] /\ i + 1 \in 1 .. Len(queue)
    BY <1>6, <2>1 DEF Accept
  <2>3. server' = "read" /\ UNCHANGED <<pc, sent, reply>> BY <1>6 DEF Accept
  <2> QED BY <2>2, <2>3 DEF InTime
<1>7. CASE ReadRequest
  <2>1. /\ server = "read" /\ server' = "write" /\ inbuf' = sent[serving]
        /\ sent' = [sent EXCEPT ![serving] = Nothing]
        /\ UNCHANGED <<queue, serving, pc, reply>>
    BY <1>7 DEF ReadRequest
  <2>2. \A i \in 1 .. Len(queue) : queue[i] # serving BY DEF IInv, Queued
  <2> QED BY <1>1, <2>1, <2>2 DEF InTime, IInv, TypeOK
<1>8. CASE WriteReply
  <2>1. /\ server = "write" /\ server' = "close" /\ serving \in Clients
        /\ reply' = [reply EXCEPT ![serving] = Output]
        /\ UNCHANGED <<queue, serving, pc, sent>>
    BY <1>8 DEF WriteReply, IInv, TypeOK, Served
  <2>2. pc[serving] # "read" => Output = Blank BY <2>1 DEF InTime, Output
  <2> QED BY <2>1, <2>2 DEF InTime, IInv, TypeOK
<1>9. CASE CloseConnection \/ Die
  BY <1>9 DEF CloseConnection, Die, InTime
<1>10. CASE UNCHANGED vars
  BY <1>10 DEF vars, InTime
<1> QED BY <1>2, <1>3, <1>4, <1>5, <1>6, <1>7, <1>8, <1>9, <1>10 DEF Next, Client, Serve

\* A client that has left its read, or not come to it, has no answer waiting:
\* for any number of clients, no answer of the server is thrown away.
THEOREM NoAnswerLost == Spec => AnswerReachesCaller
<1> DEFINE Kept(c) ==
      reply[c] \notin {Nothing, Blank} /\ reply'[c] # reply[c]
          => pc'[c] = "idle" /\ answer'[c] = reply[c]
<1>1. Init => InTime BY DEF Init, InTime
<1>2. IInv /\ InTime /\ [Next]_vars => InTime' BY InTimeKept
<1>3. IInv /\ InTime /\ [Next]_vars => \A c \in Clients : Kept(c)
  <2> SUFFICES ASSUME IInv, InTime, [Next]_vars, NEW c \in Clients,
                      reply[c] \notin {Nothing, Blank}, reply'[c] # reply[c]
               PROVE  pc'[c] = "idle" /\ answer'[c] = reply[c]
    OBVIOUS
  <2>1. pc[c] = "read" BY DEF InTime
  <2>2. \/ \E d \in Clients : Connect(d) \/ Read(d)
        \/ WriteReply
    BY DEF Next, Client, Serve, Ask, Write, Accept, ReadRequest, CloseConnection, Die,
           vars, socketVars
  <2>3. ~WriteReply
    <3> SUFFICES ASSUME WriteReply PROVE FALSE OBVIOUS
    <3>1. c = serving BY DEF WriteReply, IInv, TypeOK
    <3> QED BY <3>1 DEF WriteReply, IInv, Served
  <2>4. ASSUME NEW d \in Clients, Connect(d) PROVE FALSE
    <3>1. d # c BY <2>1, <2>4 DEF Connect
    <3> QED BY <2>4, <3>1 DEF Connect, IInv, TypeOK, socketVars
  <2>5. ASSUME NEW d \in Clients, Read(d) PROVE d = c BY <2>5 DEF Read, IInv, TypeOK
  <2>6. Read(c) BY <2>2, <2>3, <2>4, <2>5
  <2>7. ~Retry(call[c], reply[c], errors[c]) BY DEF Retry
  <2> QED BY <2>6, <2>7 DEF Read, IInv, TypeOK
<1> QED BY <1>1, <1>2, <1>3, SpecIInv, PTL DEF Spec, AnswerReachesCaller
=============================================================================
