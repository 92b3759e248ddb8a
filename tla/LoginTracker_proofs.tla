-------------------------- MODULE LoginTracker_proofs --------------------------
(***************************************************************************)
(* For any hosts and any settings, the failed login tracker implements     *)
(* FailureWindows: types are the invariant, and each function maps to one  *)
(* step of a window or to none.                                            *)
(***************************************************************************)
EXTENDS LoginTracker, TLAPS

\* The types hold at the start.
LEMMA InitTypeOK == Init => TypeOK
  BY TrackerConstants DEF Init, TypeOK

\* Every step keeps the types: an attempt counts on from a record or from zero.
LEMMA NextTypeOK == TypeOK /\ [Next]_vars => TypeOK'
<1> SUFFICES ASSUME TypeOK, [Next]_vars PROVE TypeOK'
  OBVIOUS
<1> USE TrackerConstants DEF TypeOK
<1>1. ASSUME NEW h \in Hosts, RecordLoginAttempt(h) PROVE TypeOK'
  <2> DEFINE f == IF StartsAnew(h) THEN 0 ELSE failed[h]
             s == IF StartsAnew(h) THEN 0 ELSE success[h]
  <2>1. /\ f \in 0 .. MaxAttempts /\ s \in 0 .. MaxAttempts
        /\ f + s < MaxAttempts
    BY <1>1 DEF RecordLoginAttempt
  <2>2. /\ f + 1 \in 0 .. MaxAttempts
        /\ s + 1 \in 0 .. MaxAttempts
    BY <2>1
  <2>3. \/ failed' = [failed EXCEPT ![h] = f] /\ success' = [success EXCEPT ![h] = s + 1]
        \/ failed' = [failed EXCEPT ![h] = f + 1] /\ success' = [success EXCEPT ![h] = s]
    BY <1>1 DEF RecordLoginAttempt
  <2> HIDE DEF f, s
  <2>4. failed' \in [Hosts -> 0 .. MaxAttempts] /\ success' \in [Hosts -> 0 .. MaxAttempts]
    BY <2>1, <2>2, <2>3
  <2> QED
    BY <1>1, <2>4 DEF RecordLoginAttempt
<1>2. ASSUME NEW h \in Hosts, CheckLoginTracker(h) PROVE TypeOK'
  BY <1>2 DEF CheckLoginTracker, Looked, Honored, Old
<1>3. CASE LoginTrackingHousekeeping
  BY <1>3 DEF LoginTrackingHousekeeping
<1>4. CASE Tick
  BY <1>4 DEF Tick, Older
<1>5. CASE UNCHANGED vars
  BY <1>5 DEF vars
<1> QED
  BY <1>1, <1>2, <1>3, <1>4, <1>5 DEF Next

\* Counters stay in the bounds of the instance, ages in what the code tells apart.
THEOREM TypeCorrect == Spec => []TypeOK
  BY InitTypeOK, NextTypeOK, PTL DEF Spec

-----------------------------------------------------------------------------

\* An empty table has no windows.
LEMMA InitMaps == Init => Windows!Init
  BY DEF Init, Windows!Init, Open

\* Each step of the tracker is a step of the windows or changes none of them.
LEMMA NextMaps ==
    TypeOK /\ [Next]_vars
        => [Windows!Next]_<<[h \in Hosts |-> IF Open(h) THEN failed[h] ELSE 0],
                            [h \in Hosts |-> IF Open(h) THEN success[h] ELSE 0],
                            [h \in Hosts |-> IF Open(h) THEN BlockTimeout + 1 - age[h] ELSE 0],
                            verdict>>
<1> DEFINE F == [h \in Hosts |-> IF Open(h) THEN failed[h] ELSE 0]
           S == [h \in Hosts |-> IF Open(h) THEN success[h] ELSE 0]
           L == [h \in Hosts |-> IF Open(h) THEN BlockTimeout + 1 - age[h] ELSE 0]
<1> SUFFICES ASSUME TypeOK, [Next]_vars
             PROVE Windows!Next \/ UNCHANGED <<F, S, L, verdict>>
  OBVIOUS
<1> USE TrackerConstants DEF TypeOK, Open, Old
\* An attempt on an open window is counted in it, any other opens one.
<1>1. ASSUME NEW h \in Hosts, RecordLoginAttempt(h) PROVE Windows!Attempt(h)
  <2>1. \A g \in Hosts \ {h} : F'[g] = F[g] /\ S'[g] = S[g] /\ L'[g] = L[g]
    BY <1>1 DEF RecordLoginAttempt
  <2>2. \/ F'[h] = F[h] + 1 /\ S'[h] = S[h]
        \/ S'[h] = S[h] + 1 /\ F'[h] = F[h]
    <3>1. Open(h)' /\ (StartsAnew(h) <=> ~Open(h))
      BY <1>1 DEF RecordLoginAttempt, StartsAnew
    <3>2. CASE StartsAnew(h)
      BY <1>1, <3>1, <3>2 DEF RecordLoginAttempt
    <3>3. CASE ~StartsAnew(h)
      BY <1>1, <3>1, <3>3 DEF RecordLoginAttempt
    <3> QED
      BY <3>2, <3>3
  <2>3. \/ F' = [F EXCEPT ![h] = @ + 1] /\ S' = S
        \/ S' = [S EXCEPT ![h] = @ + 1] /\ F' = F
    <3>1. CASE F'[h] = F[h] + 1 /\ S'[h] = S[h]
      BY <2>1, <3>1
    <3>2. CASE S'[h] = S[h] + 1 /\ F'[h] = F[h]
      BY <2>1, <3>2
    <3> QED
      BY <2>2, <3>1, <3>2
  <2>4. L' = [L EXCEPT ![h] = BlockTimeout + 1]
    <3>1. L'[h] = BlockTimeout + 1
      BY <1>1 DEF RecordLoginAttempt
    <3> QED
      BY <2>1, <3>1
  <2> QED
    BY <1>1, <2>3, <2>4 DEF Windows!Attempt, RecordLoginAttempt
\* The tests of the check come to the window's verdict.
<1>2. ASSUME NEW h \in Hosts, CheckLoginTracker(h) PROVE Windows!Check(h)
  <2>1. Honored(h) <=> MaxFailed = 0 \/ S[h] > 0 \/ F[h] <= MaxFailed
    <3>1. CASE Open(h)
      BY <3>1 DEF Honored
    <3>2. CASE ~Open(h)
      BY <3>2 DEF Honored
    <3> QED
      BY <3>1, <3>2
  <2> QED
    BY <1>2, <2>1 DEF Windows!Check, Windows!Allowed, CheckLoginTracker, Looked, Honored
\* The housekeeper removes only what no longer stands for a window.
<1>3. CASE LoginTrackingHousekeeping
  BY <1>3 DEF LoginTrackingHousekeeping
<1>4. CASE Tick
  <2>1. \A h \in Hosts :
          /\ L'[h] = IF L[h] = 0 THEN 0 ELSE L[h] - 1
          /\ F'[h] = IF L[h] <= 1 THEN 0 ELSE F[h]
          /\ S'[h] = IF L[h] <= 1 THEN 0 ELSE S[h]
    BY <1>4 DEF Tick, Older
  <2>2. /\ L' = [h \in Hosts |-> IF L[h] = 0 THEN 0 ELSE L[h] - 1]
        /\ F' = [h \in Hosts |-> IF L[h] <= 1 THEN 0 ELSE F[h]]
        /\ S' = [h \in Hosts |-> IF L[h] <= 1 THEN 0 ELSE S[h]]
    BY <2>1
  <2> QED
    BY <1>4, <2>2 DEF Tick, Windows!Next, Windows!Tick
<1>5. CASE UNCHANGED vars
  BY <1>5 DEF vars
<1> QED
  BY <1>1, <1>2, <1>3, <1>4, <1>5 DEF Next, Windows!Next

\* The tracker answers every check as windows that end by themselves would,
\* whatever the settings, the hosts and the housekeeper's pace.
THEOREM TrackerImplementsWindows == Spec => Implements
  BY InitMaps, NextMaps, TypeCorrect, PTL DEF Spec, Implements, Windows!Spec

=============================================================================
