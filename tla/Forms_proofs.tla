---------------------------- MODULE Forms_proofs ----------------------------
(***************************************************************************)
(* The reference counts of form sets and the life of a form, for any       *)
(* number of forms, sets and requests, any duration, audited or not.  The  *)
(* count of a set is never less than the forms that refer to it; it may be *)
(* more, see UnreferencedSetsRemoved.                                      *)
(***************************************************************************)
EXTENDS Forms, FiniteSetTheorems, TLAPS

\* Only the holder of session_lock writes a page: what the page refers to is
\* there, and the form it registered last is in its set or in none.
Pages ==
    /\ \A t \in Threads :
        /\ pc[t] \in {"check", "handler"} => lock = t
        /\ pc[t] \in {"tested", "refresh"} => posted[t] \in Tags
        /\ current[t] # NoSet => pc[t] = "handler" /\ current[t] \in sets
        /\ last[t] # NoTag =>
            /\ pc[t] = "handler" /\ last[t] \in forms
            /\ set[last[t]] \in {NoSet, current[t]}
    /\ unsent \subseteq forms
    /\ unsent # {} => lock \in Threads
    /\ todo \subseteq forms

LiveSets == \A f \in forms : set[f] # NoSet => set[f] \in sets

\* ref_count covers every form that refers to the set.
Counted == \A s \in sets : Cardinality(Members(s)) <= refs[s]

IInv == TypeOK /\ Pages /\ LiveSets /\ Counted

\* The forms of a set are finitely many.
LEMMA MembersFinite ==
  ASSUME TypeOK, NEW s
  PROVE  IsFiniteSet(Members(s)) /\ Cardinality(Members(s)) \in Nat
  <1>1. Members(s) \subseteq Tags
    BY DEF Members, TypeOK
  <1>2. IsFiniteSet(Members(s))
    BY <1>1, FS_Subset, FormConstants
  <1> QED
    BY <1>2, FS_CardinalityType

\* A set all of whose forms were its forms before is covered still.
LEMMA FewerMembers ==
  ASSUME TypeOK, NEW s, Members(s)' \subseteq Members(s)
  PROVE  /\ Cardinality(Members(s)') \in Nat
         /\ Cardinality(Members(s)') <= Cardinality(Members(s))
  BY MembersFinite, FS_Subset, FS_CardinalityType

\* One form more takes one count more.
LEMMA OneMoreMember ==
  ASSUME TypeOK, NEW s, NEW f, Members(s)' \subseteq Members(s) \cup {f}
  PROVE  /\ Cardinality(Members(s)') \in Nat
         /\ Cardinality(Members(s)') <= Cardinality(Members(s)) + 1
  <1> DEFINE M == Members(s)
  <1>1. IsFiniteSet(M) /\ Cardinality(M) \in Nat
    BY MembersFinite
  <1>2. IsFiniteSet(M \cup {f}) /\ Cardinality(M \cup {f}) <= Cardinality(M) + 1
    BY <1>1, FS_AddElement
  <1>3. Cardinality(M \cup {f}) \in Nat
    BY <1>2, FS_CardinalityType
  <1>4. IsFiniteSet(Members(s)') /\ Cardinality(Members(s)') <= Cardinality(M \cup {f})
    BY <1>2, FS_Subset
  <1>5. Cardinality(Members(s)') \in Nat
    BY <1>4, FS_CardinalityType
  <1> HIDE DEF M
  <1>6. Cardinality(Members(s)') <= Cardinality(M) + 1
    BY <1>1, <1>2, <1>3, <1>4, <1>5
  <1> QED
    BY <1>5, <1>6 DEF M

\* The invariant holds after a login.
LEMMA InitIInv == Init => IInv
  <1> SUFFICES ASSUME Init PROVE IInv
    OBVIOUS
  <1>1. PICK f \in Tags :
          /\ forms = {f}
          /\ valid = [g \in Tags |-> g = f]
          /\ once  = [g \in Tags |-> g = f]
          /\ over  = [g \in Tags |-> IF g = f THEN -Duration ELSE 0]
    BY DEF Init
  <1>2. TypeOK
    <2>1. valid \in [Tags -> BOOLEAN] /\ once \in [Tags -> BOOLEAN]
      BY <1>1, Zenon
    <2>2. over \in [Tags -> -Duration .. 2 * Duration + 1]
      BY <1>1, FormConstants
    <2>3. setValid \in [Sets -> BOOLEAN] /\ refs \in [Sets -> Int]
      BY DEF Init
    <2> QED
      BY <1>1, <2>1, <2>2, <2>3 DEF Init, TypeOK
  <1>3. Pages /\ LiveSets /\ Counted
    BY <1>1 DEF Init, Pages, LiveSets, Counted
  <1> QED
    BY <1>2, <1>3 DEF IInv

\* The invariant survives every step.
LEMMA NextIInv == IInv /\ [Next]_vars => IInv'
<1> SUFFICES ASSUME IInv, [Next]_vars PROVE IInv'
  OBVIOUS
<1> USE FormConstants DEF IInv
<1>1. ASSUME NEW t \in Threads, Post(t) PROVE IInv'
  <2>1. UNCHANGED <<formVars, setVars, lock, todo, unsent>>
    BY <1>1 DEF Post
  <2>2. \/ loggedIn' = FALSE /\ UNCHANGED reqVars
        \/ \E f \in forms : Goto(t, "tested", f) /\ UNCHANGED loggedIn
    BY <1>1 DEF Post
  <2>3. CASE loggedIn' = FALSE /\ UNCHANGED reqVars
    BY <2>1, <2>3 DEF TypeOK, formVars, setVars, reqVars, Pages, LiveSets, Counted, Members
  <2>4. ASSUME NEW f \in forms, Goto(t, "tested", f), UNCHANGED loggedIn PROVE IInv'
    <3>1. pc[t] = "idle" /\ f \in Tags
      BY <1>1 DEF Post, TypeOK
    <3>2. TypeOK'
      BY <2>1, <2>4, <3>1 DEF Goto, TypeOK, formVars, setVars
    <3>3. Pages' /\ LiveSets' /\ Counted'
      BY <2>1, <2>4, <3>1 DEF Goto, TypeOK, formVars, setVars, Pages, LiveSets, Counted, Members
    <3> QED
      BY <3>2, <3>3
  <2> QED
    BY <2>2, <2>3, <2>4
<1>2. ASSUME NEW t \in Threads, Take(t) PROVE IInv'
  <2>1. TypeOK'
    <3>1. posted[t] \in Tags
      BY <1>2 DEF Take, Pages
    <3>2. valid' \in [Tags -> BOOLEAN]
      BY <1>2, <3>1, Zenon DEF Take, TypeOK
    <3>3. setValid' \in [Sets -> BOOLEAN]
      <4>1. setValid' = setValid \/ setValid' = [setValid EXCEPT ![set[posted[t]]] = FALSE]
        BY <1>2 DEF Take
      <4> QED
        BY <4>1, Zenon DEF TypeOK
    <3> QED
      BY <1>2, <3>1, <3>2, <3>3 DEF Take, Goto, TypeOK
  <2>2. Pages' /\ LiveSets' /\ Counted'
    BY <1>2 DEF Take, Goto, TypeOK, Pages, LiveSets, Counted, Members
  <2> QED
    BY <2>1, <2>2
<1>3. ASSUME NEW t \in Threads, RefreshTest(t) PROVE IInv'
  BY <1>3 DEF RefreshTest, Goto, TypeOK, formVars, setVars, Pages, LiveSets, Counted, Members
<1>4. ASSUME NEW t \in Threads, RefreshSet(t) PROVE IInv'
  BY <1>4 DEF RefreshSet, Goto, TypeOK, setVars, Pages, LiveSets, Counted, Members
<1>5. ASSUME NEW t \in Threads, Enter(t) PROVE IInv'
  BY <1>5 DEF Enter, Goto, TypeOK, formVars, setVars, Pages, LiveSets, Counted, Members
<1>6. ASSUME NEW t \in Threads, Register(t) PROVE IInv'
  <2> DEFINE s == IF current[t] # NoSet /\ setValid[current[t]] THEN current[t] ELSE NoSet
  <2>1. PICK f \in Tags : /\ Unused(f) /\ NewForm(f, s)
                          /\ last' = [last EXCEPT ![t] = f]
                          /\ unsent' = unsent \cup {f}
    BY <1>6 DEF Register
  <2>2. /\ pc[t] = "handler" /\ lock = t
        /\ f \notin forms
        /\ s # NoSet => s = current[t] /\ s \in sets
        /\ UNCHANGED <<sets, setValid, loggedIn, lock, todo, pc, posted, current>>
    BY <1>6, <2>1 DEF Register, Unused, Pages
  <2>3. refs' = IF s = NoSet THEN refs ELSE [refs EXCEPT ![s] = @ + 1]
    BY <1>6 DEF Register, Count
  <2> HIDE DEF s
  <2>4. TypeOK'
    <3>1. valid' \in [Tags -> BOOLEAN] /\ once' \in [Tags -> BOOLEAN]
      BY <2>1, Zenon DEF NewForm, TypeOK
    <3> QED
      BY <2>1, <2>2, <2>3, <3>1 DEF NewForm, TypeOK
  <2>5. Pages'
    BY <2>1, <2>2 DEF NewForm, TypeOK, Pages
  <2>6. LiveSets'
    BY <2>1, <2>2 DEF NewForm, TypeOK, LiveSets
  <2>7. Counted'
    <3> SUFFICES ASSUME NEW u \in sets PROVE Cardinality(Members(u)') <= refs'[u]
      BY <2>2 DEF Counted
    <3>1. Cardinality(Members(u)) <= refs[u] /\ Cardinality(Members(u)) \in Nat
      BY MembersFinite DEF Counted
    <3>2. u \in Sets /\ refs[u] \in Int
      BY DEF TypeOK
    <3>3. CASE u = s
      <4>1. Members(u)' \subseteq Members(u) \cup {f}
        BY <2>1, <2>2 DEF NewForm, Members, TypeOK
      <4>2. refs'[u] = refs[u] + 1
        BY <2>2, <2>3, <3>2, <3>3 DEF TypeOK
      <4> QED
        BY <3>1, <3>2, <4>1, <4>2, OneMoreMember
    <3>4. CASE u # s
      <4>1. Members(u)' \subseteq Members(u)
        BY <2>1, <2>2, <3>4 DEF NewForm, Members, TypeOK
      <4>2. refs'[u] = refs[u]
        BY <2>3, <3>2, <3>4 DEF TypeOK
      <4> QED
        BY <3>1, <3>2, <4>1, <4>2, FewerMembers
    <3> QED
      BY <3>3, <3>4
  <2> QED
    BY <2>4, <2>5, <2>6, <2>7
<1>7. ASSUME NEW t \in Threads, SaveContext(t) PROVE IInv'
  <2>1. PICK s \in Sets :
        /\ s = current[t] \/ (current[t] = NoSet /\ s \notin sets)
        /\ sets'     = sets \cup {s}
        /\ setValid' = [setValid EXCEPT ![s] = s \notin sets \/ @]
        /\ current'  = [current EXCEPT ![t] = s]
        /\ IF last[t] = NoTag
           THEN /\ refs' = [refs EXCEPT ![s] = CountIn(s)]
                /\ UNCHANGED set
           ELSE /\ refs' = [refs EXCEPT ![s] = CountIn(s) + 1]
                /\ set'  = [set EXCEPT ![last[t]] = s]
        /\ last' = [last EXCEPT ![t] = NoTag]
    BY <1>7 DEF SaveContext
  <2>2. /\ pc[t] = "handler" /\ lock = t
        /\ UNCHANGED <<forms, valid, once, over, loggedIn, lock, todo, pc, posted, unsent>>
    BY <1>7 DEF SaveContext, Pages
  <2>3. CountIn(s) \in Int
    BY DEF CountIn, TypeOK
  <2>4. TypeOK'
    <3>1. setValid' \in [Sets -> BOOLEAN]
      BY <2>1, Zenon DEF TypeOK
    <3> QED
      BY <2>1, <2>2, <2>3, <3>1 DEF TypeOK
  <2>5. Pages'
    BY <2>1, <2>2 DEF TypeOK, Pages
  <2>6. LiveSets'
    BY <2>1, <2>2 DEF TypeOK, LiveSets, Pages
  <2>7. Counted'
    <3> SUFFICES ASSUME NEW u \in sets \cup {s} PROVE Cardinality(Members(u)') <= refs'[u]
      BY <2>1 DEF Counted
    <3>1. u \in Sets /\ refs[u] \in Int
      BY DEF TypeOK
    <3>2. CASE u # s
      <4>1. Members(u)' \subseteq Members(u)
        BY <2>1, <2>2, <3>2 DEF Members, TypeOK
      <4>2. refs'[u] = refs[u]
        BY <2>1, <3>1, <3>2 DEF TypeOK
      <4>3. Cardinality(Members(u)) <= refs[u] /\ Cardinality(Members(u)) \in Nat
        BY <3>2, MembersFinite DEF Counted
      <4> QED
        BY <3>1, <4>1, <4>2, <4>3, FewerMembers
    <3>3. CASE u = s
      <4>1. Cardinality(Members(s)) <= CountIn(s) /\ Cardinality(Members(s)) \in Nat
        <5>1. CASE s \in sets
          BY <5>1, MembersFinite DEF Counted, CountIn
        <5>2. CASE s \notin sets
          <6>1. s # NoSet
            BY FormConstants
          <6>2. Members(s) = {}
            BY <5>2, <6>1 DEF LiveSets, Members
          <6> QED
            BY <5>2, <6>2, FS_EmptySet DEF CountIn
        <5> QED
          BY <5>1, <5>2
      <4>2. CASE last[t] = NoTag
        <5>1. Members(s)' \subseteq Members(s) /\ refs'[s] = CountIn(s)
          BY <2>1, <2>2, <4>2 DEF Members, TypeOK
        <5> QED
          BY <2>3, <3>3, <4>1, <5>1, FewerMembers
      <4>3. CASE last[t] # NoTag
        <5>1. Members(s)' \subseteq Members(s) \cup {last[t]} /\ refs'[s] = CountIn(s) + 1
          BY <2>1, <2>2, <4>3 DEF Members, TypeOK
        <5> QED
          BY <2>3, <3>3, <4>1, <5>1, OneMoreMember
      <4> QED
        BY <4>2, <4>3
    <3> QED
      BY <3>2, <3>3
  <2> QED
    BY <2>4, <2>5, <2>6, <2>7
<1>8. ASSUME NEW t \in Threads, Finish(t) PROVE IInv'
  BY <1>8 DEF Finish, TypeOK, formVars, setVars, Pages, LiveSets, Counted, Members
<1>9. ASSUME HkStart PROVE IInv'
  BY <1>9 DEF HkStart, TypeOK, formVars, setVars, reqVars, Pages, LiveSets, Counted, Members
<1>10. ASSUME NEW f \in Tags, HkForm(f) PROVE IInv'
  <2>1. /\ f \in forms
        /\ lock = Housekeeper
        /\ todo' = todo \ {f}
        /\ UNCHANGED <<once, over, set, sets, setValid, loggedIn, lock, reqVars, unsent>>
    BY <1>10 DEF HkForm, Pages
  <2>2. unsent = {} /\ \A t \in Threads : last[t] = NoTag
    BY <2>1 DEF Pages
  <2>3. CASE over[f] > 2 * Duration
    <3>1. /\ forms' = forms \ {f}
          /\ refs' = IF set[f] = NoSet THEN refs ELSE [refs EXCEPT ![set[f]] = @ - 1]
          /\ UNCHANGED valid
      BY <1>10, <2>3 DEF HkForm
    <3>2. TypeOK'
      BY <2>1, <3>1 DEF TypeOK, reqVars
    <3>3. Pages' /\ LiveSets'
      BY <2>1, <2>2, <3>1 DEF TypeOK, reqVars, Pages, LiveSets
    <3>4. Counted'
      <4> SUFFICES ASSUME NEW u \in sets PROVE Cardinality(Members(u)') <= refs'[u]
        BY <2>1 DEF Counted
      <4>1. Cardinality(Members(u)) <= refs[u] /\ Cardinality(Members(u)) \in Nat
        BY MembersFinite DEF Counted
      <4>2. u \in Sets /\ refs[u] \in Int /\ u # NoSet
        BY DEF TypeOK
      <4>3. CASE u = set[f]
        <5>1. Members(u)' = Members(u) \ {f} /\ f \in Members(u)
          BY <2>1, <3>1, <4>3 DEF Members
        <5>2. Cardinality(Members(u)') = Cardinality(Members(u)) - 1
          BY <5>1, MembersFinite, FS_RemoveElement
        <5>3. refs'[u] = refs[u] - 1
          BY <3>1, <4>2, <4>3 DEF TypeOK
        <5> QED
          BY <4>1, <4>2, <5>2, <5>3
      <4>4. CASE u # set[f]
        <5>1. Members(u)' \subseteq Members(u)
          BY <2>1, <3>1 DEF Members
        <5>2. refs'[u] = refs[u]
          BY <3>1, <4>2, <4>4 DEF TypeOK
        <5> QED
          BY <4>1, <4>2, <5>1, <5>2, FewerMembers
      <4> QED
        BY <4>3, <4>4
    <3> QED
      BY <3>2, <3>3, <3>4
  <2>4. CASE ~(over[f] > 2 * Duration)
    <3>1. /\ valid' = [valid EXCEPT ![f] = @ /\ over[f] <= 0]
          /\ UNCHANGED <<forms, refs>>
      BY <1>10, <2>4 DEF HkForm
    <3>2. valid' \in [Tags -> BOOLEAN]
      BY <3>1, Zenon DEF TypeOK
    <3>3. TypeOK'
      BY <2>1, <3>1, <3>2 DEF TypeOK, reqVars
    <3>4. Pages' /\ LiveSets' /\ Counted'
      BY <2>1, <3>1 DEF TypeOK, reqVars, Pages, LiveSets, Counted, Members
    <3> QED
      BY <3>3, <3>4
  <2> QED
    BY <2>3, <2>4
<1>11. ASSUME HkSets PROVE IInv'
  <2>1. TypeOK'
    BY <1>11 DEF HkSets, TypeOK, formVars, reqVars
  <2>2. Counted'
    BY <1>11 DEF HkSets, formVars, Counted, Members
  <2>3. ASSUME NEW f \in forms, set[f] # NoSet PROVE set[f] \in sets'
    <3>1. set[f] \in sets /\ f \in Members(set[f])
      BY <2>3 DEF LiveSets, Members
    <3>2. Cardinality(Members(set[f])) # 0
      BY <3>1, MembersFinite, FS_EmptySet
    <3>3. refs[set[f]] # 0
      <4>1. refs[set[f]] \in Int /\ Cardinality(Members(set[f])) \in Nat
        BY <3>1, MembersFinite DEF TypeOK
      <4> QED
        BY <3>1, <3>2, <4>1 DEF Counted
    <3> QED
      BY <1>11, <3>1, <3>3 DEF HkSets
  <2>4. LiveSets'
    BY <1>11, <2>3 DEF HkSets, formVars, LiveSets
  <2>5. Pages'
    BY <1>11 DEF HkSets, formVars, reqVars, Pages
  <2> QED
    BY <2>1, <2>2, <2>4, <2>5
<1>12. ASSUME Tick PROVE IInv'
  <2>1. over' \in [Tags -> -Duration .. 2 * Duration + 1]
    BY <1>12 DEF Tick, Older, TypeOK
  <2> QED
    BY <1>12, <2>1 DEF Tick, Older, TypeOK, setVars, reqVars, Pages, LiveSets, Counted, Members
<1>13. ASSUME NEW t \in Threads, CheckPostdata(t) PROVE IInv'
  BY <1>13 DEF CheckPostdata, Goto, TypeOK, formVars, setVars, Pages, LiveSets, Counted, Members
<1>14. ASSUME UNCHANGED vars PROVE IInv'
  BY <1>14 DEF vars, TypeOK, formVars, setVars, reqVars, Pages, LiveSets, Counted, Members
<1> QED
  BY <1>1, <1>2, <1>3, <1>4, <1>5, <1>6, <1>7, <1>8, <1>9, <1>10, <1>11, <1>12, <1>13,
     <1>14 DEF Next, Request, Housekeep

\* What the proofs below rest on: the invariant holds throughout.
THEOREM Invariance == Spec => []IInv
  BY InitIInv, NextIInv, PTL DEF Spec

\* Every variable keeps its type.
THEOREM TypeCorrect == Spec => []TypeOK
  BY Invariance, PTL DEF IInv

\* form_set_housekeeping_scanner never frees a form set that a live form or the
\* page being written still refers to, nor the scanner before it a form of that
\* page, although register_form and save_context_parameters count differently.
THEOREM NoSetFreedInUse == Spec => []NoDanglingSet
<1>1. IInv => NoDanglingSet
  BY DEF IInv, Pages, LiveSets, NoDanglingSet
<1> QED
  BY <1>1, Invariance, PTL

\* A step uses up the submit-once form it presents and revives no spent form.
LEMMA NextStaysUsed ==
  ASSUME IInv, [Next]_vars
  PROVE  /\ \A t \in Threads : pc[t] = "tested" /\ pc'[t] # "tested" /\ once[posted[t]]
              => ~valid'[posted[t]]
         /\ \A f \in Tags : Spent(f) => Spent(f)' \/ f \notin forms'
<1> USE FormConstants DEF IInv, TypeOK
<1>1. ASSUME NEW t \in Threads, pc[t] = "tested", pc'[t] # "tested", once[posted[t]]
      PROVE  ~valid'[posted[t]]
  <2>1. Take(t)
    <3>1. ASSUME NEW u \in Threads, Request(u), u # t PROVE FALSE
      BY <1>1, <3>1 DEF Request, Post, Take, RefreshTest, RefreshSet, Enter, Register,
         CheckPostdata, SaveContext, Finish, Goto, reqVars
    <3>2. ASSUME Request(t) PROVE Take(t)
      BY <1>1, <3>2 DEF Request, Post, RefreshTest, RefreshSet, Enter, Register,
         CheckPostdata, SaveContext, Finish
    <3>3. ~Housekeep /\ ~Tick /\ ~UNCHANGED vars
      BY <1>1 DEF Housekeep, HkStart, HkForm, HkSets, Tick, vars, reqVars
    <3> QED
      BY <3>1, <3>2, <3>3 DEF Next
  <2>2. posted[t] \in Tags
    BY <1>1 DEF Pages
  <2> QED
    BY <1>1, <2>1, <2>2, Zenon DEF Take, Mark
<1>2. ASSUME NEW f \in Tags, Spent(f), f \in forms' PROVE Spent(f)'
  <2>1. f \in forms /\ ~valid[f] /\ \A t \in Threads : posted[t] = f => pc[t] # "tested"
    BY <1>2 DEF Spent
  <2>2. ~valid'[f]
    <3>1. ASSUME NEW t \in Threads, Take(t) PROVE ~valid'[f]
      <4>1. valid' = [valid EXCEPT ![posted[t]] = valid[posted[t]] /\ ~Mark(posted[t])]
        BY <3>1 DEF Take
      <4> QED
        BY <2>1, <4>1, Zenon
    <3>2. ASSUME NEW t \in Threads, Register(t) PROVE ~valid'[f]
      <4>1. PICK g \in Tags : g \notin forms /\ valid' = [valid EXCEPT ![g] = TRUE]
        BY <3>2 DEF Register, Unused, NewForm
      <4> QED
        BY <2>1, <4>1
    <3>3. ASSUME NEW g \in Tags, HkForm(g) PROVE ~valid'[f]
      <4>1. valid' = valid \/ valid' = [valid EXCEPT ![g] = valid[g] /\ over[g] <= 0]
        BY <3>3 DEF HkForm
      <4> QED
        BY <2>1, <4>1, Zenon
    <3>4. ASSUME UNCHANGED valid PROVE ~valid'[f]
      BY <2>1, <3>4
    <3> QED
      BY <3>1, <3>2, <3>3, <3>4 DEF Next, Request, Housekeep, Post, RefreshTest, RefreshSet,
         Enter, CheckPostdata, SaveContext, Finish, HkStart, HkSets, Tick, vars, formVars
  <2>3. ASSUME NEW t \in Threads, posted'[t] = f PROVE pc'[t] # "tested"
    <3>1. ASSUME NEW u \in Threads, Request(u), u # t PROVE pc'[t] # "tested"
      BY <2>1, <2>3, <3>1 DEF Request, Post, Take, RefreshTest, RefreshSet, Enter, Register,
         CheckPostdata, SaveContext, Finish, Goto, reqVars
    <3>2. ASSUME Request(t) PROVE pc'[t] # "tested"
      <4>1. ASSUME Post(t) PROVE pc'[t] # "tested"
        <5>1. CASE UNCHANGED reqVars
          BY <2>1, <2>3, <5>1 DEF reqVars
        <5>2. CASE \E g \in forms : valid[g] /\ Goto(t, "tested", g)
          BY <2>1, <2>3, <5>2 DEF Goto
        <5> QED
          BY <4>1, <5>1, <5>2 DEF Post
      <4>2. CASE \/ Take(t) \/ RefreshTest(t) \/ RefreshSet(t)
                 \/ Enter(t) \/ CheckPostdata(t) \/ Finish(t)
        BY <4>2 DEF Take, RefreshTest, RefreshSet, Enter, CheckPostdata, Finish, Goto
      <4>3. CASE Register(t) \/ SaveContext(t)
        BY <2>1, <2>3, <4>3 DEF Register, SaveContext
      <4> QED
        BY <3>2, <4>1, <4>2, <4>3 DEF Request
    <3>3. CASE Housekeep \/ Tick \/ UNCHANGED vars
      BY <2>1, <2>3, <3>3 DEF Housekeep, HkStart, HkForm, HkSets, Tick, vars, reqVars
    <3> QED
      BY <3>1, <3>2, <3>3 DEF Next
  <2> QED
    BY <1>2, <2>2, <2>3 DEF Spent
<1> QED
  BY <1>1, <1>2

\* A submit-once form that was presented, and any form that is spent, is never
\* accepted again, whatever refreshes and the housekeeper do meanwhile.
THEOREM NoRevival == Spec => UsedFormStaysUsed
<1>1. IInv /\ [Next]_vars
      => [/\ \A t \in Threads : pc[t] = "tested" /\ pc'[t] # "tested" /\ once[posted[t]]
              => ~valid'[posted[t]]
          /\ \A f \in Tags : Spent(f) => Spent(f)' \/ f \notin forms']_vars
  BY NextStaysUsed
<1> QED
  BY <1>1, Invariance, PTL DEF Spec, UsedFormStaysUsed

=============================================================================
