--------------------------- MODULE Sessions_proofs ---------------------------
(***************************************************************************)
(* What the session mutex guarantees, for any number of sessions, request  *)
(* threads and any timeout.  The invariant that carries the proofs says    *)
(* where each process may be, that it points to a session when it works on *)
(* one, and that whoever is inside a session's mutex is its holder.        *)
(***************************************************************************)
EXTENDS Sessions, TLAPS

\* The housekeeper is only in its own places, a request never in those.
Places ==
    /\ pc[Housekeeper] \in {"idle", "close", "drain", "unlock", "remove", "free"}
    /\ pc[Housekeeper] \in {"close", "drain"} => task[Housekeeper] \in {"unlock", "remove"}
    /\ \A t \in Threads :
        /\ pc[t] \notin {"remove", "free"}
        /\ pc[t] \in {"close", "drain"} => task[t] \in {"setup", "setup_only", "unlock", "idle"}

\* A process that works on a session points to one.
Pointers ==
    \A p \in Procs : pc[p] \notin {"idle", "setup", "setup_only"} => sess[p] \in Keys

\* Whoever is inside the mutex holds it.
Holders == \A p \in Procs : InMutex(p) => lock[sess[p]] = p

IInv ==
    /\ TypeOK
    /\ Places
    /\ Pointers
    /\ Holders
    /\ HkClosesOnlyIdle

\* The invariant holds when the process has started.
LEMMA InitIInv == Init => IInv
  BY SessionConstants DEF Init, IInv, TypeOK, Places, Pointers, Holders, InMutex,
     HkClosesOnlyIdle, Procs, At, States, Returns, Uris

\* The invariant survives every step.
LEMMA NextIInv == IInv /\ [Next]_vars => IInv'
<1> SUFFICES ASSUME IInv, [Next]_vars PROVE IInv'
  OBVIOUS
<1> USE SessionConstants DEF IInv, TypeOK, Places, Pointers, Holders, HkClosesOnlyIdle, InMutex,
      States, Returns, Uris, Procs, At, Goto, record
<1>1. ASSUME NEW t \in Threads, NoSession(t) PROVE IInv'
  BY <1>1 DEF NoSession, Step
<1>2. ASSUME NEW t \in Threads, SessionNoLogin(t) PROVE IInv'
  BY <1>2 DEF SessionNoLogin, Find, Step
<1>3. ASSUME NEW t \in Threads, ReadLogin(t) PROVE IInv'
  BY <1>3 DEF ReadLogin, Find, Step
<1>4. ASSUME NEW t \in Threads, LoggedOut(t) PROVE IInv'
  BY <1>4 DEF LoggedOut, Close
<1>5. ASSUME NEW t \in Threads, LoggedIn(t) PROVE IInv'
  <2>1. TypeOK'
    <3>1. loggedIn' \in [Keys -> BOOLEAN]
      <4>1. loggedIn' = loggedIn \/ loggedIn' = [loggedIn EXCEPT ![sess[t]] = FALSE]
        BY <1>5 DEF LoggedIn
      <4>2. loggedIn \in [Keys -> BOOLEAN]
        OBVIOUS
      <4> QED
        BY ONLY <4>1, <4>2, Zenon
    <3> QED
      BY <1>5, <3>1 DEF LoggedIn, Close, Step, Done
  <2>2. Places' /\ Pointers'
    BY <1>5 DEF LoggedIn, Close, Step, Done
  <2>3. Holders'
    BY <1>5 DEF LoggedIn, Close, Step, Done
  <2>4. HkClosesOnlyIdle'
    BY <1>5 DEF LoggedIn, Close, Step, Done
  <2> QED
    BY <2>1, <2>2, <2>3, <2>4
<1>6. ASSUME NEW p \in Procs, CloseSession(p) PROVE IInv'
  BY <1>6 DEF CloseSession, Step
<1>7. ASSUME NEW p \in Procs, Drain(p) PROVE IInv'
  BY <1>7 DEF Drain, Done
<1>8. ASSUME NEW t \in Threads, SetupSession(t) PROVE IInv'
  BY <1>8 DEF SetupSession, Done
<1>9. ASSUME NEW t \in Threads, ReqLogin(t) PROVE IInv'
  BY <1>9 DEF ReqLogin, Done
<1>10. ASSUME NEW t \in Threads, Consume(t) PROVE IInv'
  BY <1>10 DEF Consume, Done, Step, Close
<1>11. ASSUME NEW t \in Threads, Connect(t) PROVE IInv'
  BY <1>11 DEF Connect, Step
<1>12. ASSUME NEW t \in Threads, LoginResult(t) PROVE IInv'
  <2>1. TypeOK'
    <3>1. sess[t] \in Keys
      BY <1>12 DEF LoginResult
    <3>2. loggedIn' \in [Keys -> BOOLEAN]
      <4>1. CASE conn[sess[t]] = "ok"
        <5>1. loggedIn' = [loggedIn EXCEPT ![sess[t]] = TRUE]
          BY <1>12, <4>1 DEF LoginResult
        <5>2. loggedIn \in [Keys -> BOOLEAN]
          OBVIOUS
        <5> QED
          BY ONLY <5>1, <5>2, Zenon
      <4>2. CASE conn[sess[t]] # "ok"
        BY <1>12, <4>2 DEF LoginResult
      <4> QED
        BY <4>1, <4>2
    <3>3. conn' \in [Keys -> {"null", "ok", "bad"}]
      BY <1>12, <3>1 DEF LoginResult
    <3> QED
      BY <1>12, <3>2, <3>3 DEF LoginResult, Step, Done
  <2>2. Places' /\ Pointers'
    BY <1>12 DEF LoginResult, Step, Done
  <2>3. Holders'
    BY <1>12 DEF LoginResult, Step, Done
  <2>4. HkClosesOnlyIdle'
    BY <1>12 DEF LoginResult, Step, Done
  <2> QED
    BY <2>1, <2>2, <2>3, <2>4
<1>13. ASSUME NEW t \in Threads, LoginWork(t) PROVE IInv'
  BY <1>13 DEF LoginWork, Done
<1>14. ASSUME NEW t \in Threads, Acquire(t) PROVE IInv'
  BY <1>14 DEF Acquire, Step, Done
<1>15. ASSUME NEW t \in Threads, Handler(t) PROVE IInv'
  <2>1. TypeOK'
    <3>1. loggedIn' \in [Keys -> BOOLEAN]
      <4>1. loggedIn' = loggedIn \/ loggedIn' = [loggedIn EXCEPT ![sess[t]] = FALSE]
        BY <1>15 DEF Handler
      <4>2. loggedIn \in [Keys -> BOOLEAN]
        OBVIOUS
      <4> QED
        BY ONLY <4>1, <4>2, Zenon
    <3> QED
      BY <1>15, <3>1 DEF Handler, Close, Done
  <2>2. Places' /\ Pointers'
    BY <1>15 DEF Handler, Close, Done
  <2>3. Holders'
    BY <1>15 DEF Handler, Close, Done
  <2>4. HkClosesOnlyIdle'
    BY <1>15 DEF Handler, Close, Done
  <2> QED
    BY <2>1, <2>2, <2>3, <2>4
<1>16. ASSUME NEW p \in Procs, Unlock(p) PROVE IInv'
  BY <1>16 DEF Unlock, Done
<1>17. ASSUME NEW k \in Keys, HkVisit(k) PROVE IInv'
  BY <1>17 DEF HkVisit, TryLock, Expired, Old
<1>18. CASE HkRelease
  BY <1>18 DEF HkRelease, Step
<1>19. CASE HkFree
  BY <1>19 DEF HkFree, Done
<1>20. CASE Tick
  BY <1>20 DEF Tick, Older, process
<1>21. CASE CrashAndRestart
  BY <1>21 DEF CrashAndRestart
<1>22. CASE UNCHANGED vars
  BY <1>22 DEF vars, process
<1> QED
  BY <1>1, <1>2, <1>3, <1>4, <1>5, <1>6, <1>7, <1>8, <1>9, <1>10, <1>11, <1>12, <1>13,
     <1>14, <1>15, <1>16, <1>17, <1>18, <1>19, <1>20, <1>21, <1>22 DEF Next, Request, HkNext

\* What FinishedSessionStays says of one session in one step.
StaysFinished(k) ==
    Finished(k) => /\ Finished(k)' \/ rec'[k] # "live"
                   /\ \A t \in Threads : sess[t] = k /\ At(t, "wait") => ~At(t, "handler")'

\* Only a login under way could log the session in, only a login form, which
\* close_session freed, lets one start, and only a logged in session runs a page.
LEMMA NextFinished == \A k \in Keys : IInv /\ [Next]_vars => StaysFinished(k)
<1> SUFFICES ASSUME NEW k \in Keys, IInv, [Next]_vars PROVE StaysFinished(k)
  OBVIOUS
<1> USE SessionConstants DEF IInv, TypeOK, Places, Pointers, StaysFinished, Finished, LoggingIn,
      Procs, At, Goto, record
<1>1. ASSUME NEW t \in Threads, NoSession(t) PROVE StaysFinished(k)
  BY <1>1 DEF NoSession, Step
<1>2. ASSUME NEW t \in Threads, SessionNoLogin(t) PROVE StaysFinished(k)
  BY <1>2 DEF SessionNoLogin, Find
<1>3. ASSUME NEW t \in Threads, ReadLogin(t) PROVE StaysFinished(k)
  BY <1>3 DEF ReadLogin, Find
<1>4. ASSUME NEW t \in Threads, LoggedOut(t) PROVE StaysFinished(k)
  BY <1>4 DEF LoggedOut, Close
<1>5. ASSUME NEW t \in Threads, LoggedIn(t) PROVE StaysFinished(k)
  BY <1>5 DEF LoggedIn, Close, Step, Done
<1>6. ASSUME NEW p \in Procs, CloseSession(p) PROVE StaysFinished(k)
  BY <1>6 DEF CloseSession, Step
<1>7. ASSUME NEW p \in Procs, Drain(p) PROVE StaysFinished(k)
  BY <1>7 DEF Drain, Done
<1>8. ASSUME NEW t \in Threads, SetupSession(t) PROVE StaysFinished(k)
  BY <1>8 DEF SetupSession, Done
<1>9. ASSUME NEW t \in Threads, ReqLogin(t) PROVE StaysFinished(k)
  BY <1>9 DEF ReqLogin, Done
<1>10. ASSUME NEW t \in Threads, Consume(t) PROVE StaysFinished(k)
  BY <1>10 DEF Consume, Done, Step, Close
<1>11. ASSUME NEW t \in Threads, Connect(t) PROVE StaysFinished(k)
  BY <1>11 DEF Connect, Step
<1>12. ASSUME NEW t \in Threads, LoginResult(t) PROVE StaysFinished(k)
  BY <1>12 DEF LoginResult, Step, Done
<1>13. ASSUME NEW t \in Threads, LoginWork(t) PROVE StaysFinished(k)
  BY <1>13 DEF LoginWork, Done
<1>14. ASSUME NEW t \in Threads, Acquire(t) PROVE StaysFinished(k)
  BY <1>14 DEF Acquire, StillLoggedIn, Step, Done
<1>15. ASSUME NEW t \in Threads, Handler(t) PROVE StaysFinished(k)
  BY <1>15 DEF Handler, Close, Done
<1>16. ASSUME NEW p \in Procs, Unlock(p) PROVE StaysFinished(k)
  BY <1>16 DEF Unlock, Done
<1>17. ASSUME NEW h \in Keys, HkVisit(h) PROVE StaysFinished(k)
  BY <1>17 DEF HkVisit
<1>18. CASE HkRelease
  BY <1>18 DEF HkRelease, Step
<1>19. CASE HkFree
  BY <1>19 DEF HkFree, Done
<1>20. CASE Tick
  BY <1>20 DEF Tick, process
<1>21. CASE CrashAndRestart
  BY <1>21 DEF CrashAndRestart
<1>22. CASE UNCHANGED vars
  BY <1>22 DEF vars, process
<1> QED
  BY <1>1, <1>2, <1>3, <1>4, <1>5, <1>6, <1>7, <1>8, <1>9, <1>10, <1>11, <1>12, <1>13,
     <1>14, <1>15, <1>16, <1>17, <1>18, <1>19, <1>20, <1>21, <1>22 DEF Next, Request, HkNext

-----------------------------------------------------------------------------

\* What the theorems below rest on: the invariant holds throughout.
THEOREM Invariance == Spec => []IInv
<1>1. Init => IInv
  BY InitIInv
<1>2. IInv /\ [Next]_vars => IInv'
  BY NextIInv
<1> QED
  BY <1>1, <1>2, PTL DEF Spec

\* The variables keep their types, whatever the requests and the clock do.
THEOREM TypeCorrect == Spec => []TypeOK
<1>1. IInv => TypeOK
  BY DEF IInv
<1> QED
  BY <1>1, Invariance, PTL

\* No two handlers, logouts in the mutex or housekeeper visits share a session.
THEOREM MutualExclusion == Spec => []MutexProtectsSession
<1>1. IInv => MutexProtectsSession
  BY DEF IInv, Holders, MutexProtectsSession
<1> QED
  BY <1>1, Invariance, PTL

\* A session the housekeeper closes for inactivity is idle when it is closed.
THEOREM TimeoutOnlyWhenIdle == Spec => []HkClosesOnlyIdle
<1>1. IInv => HkClosesOnlyIdle
  BY DEF IInv
<1> QED
  BY <1>1, Invariance, PTL

\* A closed session stays closed until its record is removed.
THEOREM NoResurrection == Spec => FinishedSessionStays
<1>1. IInv /\ [Next]_vars => [\A k \in Keys : StaysFinished(k)]_vars
  BY NextFinished
<1>2. [\A k \in Keys : StaysFinished(k)]_vars =>
        [\A k \in Keys : Finished(k) =>
          /\ Finished(k)' \/ rec'[k] # "live"
          /\ \A t \in Threads : sess[t] = k /\ At(t, "wait") => ~At(t, "handler")']_vars
  BY DEF StaysFinished
<1> QED
  BY <1>1, <1>2, Invariance, PTL DEF Spec, FinishedSessionStays

=============================================================================
