--------------------------- MODULE GridSave_proofs ---------------------------
(***************************************************************************)
(* Proofs about GridSave, for grids of any length: that it is a handler    *)
(* like any other to OpenTables, that no page leaves its transaction open, *)
(* and that saving is atomic.  The results of BEGIN, COMMIT and ROLLBACK   *)
(* do not matter because wherever grid_save goes on with the next row or   *)
(* to COMMIT, the transaction is open and holds every change so far, or    *)
(* the connection is gone for the rest of the page.                        *)
(***************************************************************************)
EXTENDS GridSave, OpenTables_proofs

Handling ==
    /\ phase # "off" => pageTa # "none"
    /\ phase \notin {"off", "open"} => stage = "idle"

InTransaction ==
    /\ phase = "off" => tx = "none"
    /\ conn /\ phase \in {"rows", "commit"} => tx = "open"
    /\ conn /\ phase \in {"open", "run"} => tx # "none"

AtRow == phase \in {"open", "run"} => k \in DOMAIN posted /\ posted[k] \in DOMAIN RowAction

NothingSaid == phase # "off" => stored = {} /\ answer = "none"

Changes(post) == Atomic!Changes(post)

RowsDone ==
    /\ phase \in {"rows", "open", "run", "commit"} /\ tx = "open" =>
            pending = {j \in Changes(posted) : j < k}
    /\ phase = "commit" => k > Len(posted)

SInv ==
    /\ IInv /\ SaveTypeOK
    /\ Handling /\ InTransaction /\ AtRow /\ NothingSaid /\ RowsDone

-----------------------------------------------------------------------------
(* Posted grids *)

LEMMA PostIsSequence ==
    ASSUME NEW post \in Posts
    PROVE  post \in Seq(Letters) /\ Len(post) \in 0 .. MaxRows /\ DOMAIN post = 1 .. Len(post)
<1>1. PICK n \in 0 .. MaxRows : post \in [1 .. n -> Letters] BY DEF Posts
<1>2. n \in Nat BY GridConstants
<1>3. post \in Seq(Letters) BY <1>1, <1>2
<1>4. Len(post) = n BY <1>1, <1>2, <1>3
<1> QED BY <1>1, <1>3, <1>4

LEMMA RowNumber ==
    ASSUME SaveTypeOK
    PROVE  /\ k \in Nat /\ k >= 1
           /\ posted \in Posts /\ Len(posted) \in Nat /\ DOMAIN posted = 1 .. Len(posted)
<1>1. k \in 1 .. MaxRows + 1 /\ posted \in Posts BY DEF SaveTypeOK
<1>2. MaxRows \in Nat BY GridConstants
<1>3. k \in Nat /\ k >= 1 BY <1>1, <1>2
<1>4. Len(posted) \in 0 .. MaxRows /\ DOMAIN posted = 1 .. Len(posted) BY <1>1, PostIsSequence
<1>5. Len(posted) \in Nat BY <1>2, <1>4
<1> QED BY <1>1, <1>3, <1>4, <1>5

LEMMA EmptyPost == <<>> \in Posts
<1>1. <<>> \in [1 .. 0 -> Letters] OBVIOUS
<1>2. 0 \in 0 .. MaxRows BY GridConstants
<1> QED BY <1>1, <1>2 DEF Posts

LEMMA RowLetters == DOMAIN RowAction = {"U", "I", "D"}
BY DEF RowAction

LEMMA RowActions ==
    ASSUME NEW letter \in DOMAIN RowAction
    PROVE  RowAction[letter] \in Actions /\ letter \in Changing
BY GridConstants DEF RowAction, Changing

-----------------------------------------------------------------------------
(* To the open tables, grid_save is a handler *)

LEMMA SaveStepIsNext == ASSUME SInv, SaveStep PROVE [Next]_tables
<1> USE DEF TxOnly, database, entries
<1>1. CASE Row
  BY <1>1, RowActions DEF Row, Next
<1>2. CASE NoChange \/ LastRow
  BY <1>2 DEF NoChange, LastRow
<1>3. CASE RowOpened
  <2>1. pageTa # "none" BY <1>3 DEF RowOpened, SInv, Handling
  <2>2. Return /\ KeepPageTa BY <1>3, <2>1 DEF RowOpened, KeepPageTa
  <2> QED BY <2>2 DEF Next
<1>4. CASE RunRow
  <2>1. stage = "idle" /\ pageTa # "none" BY <1>4 DEF RunRow, SInv, Handling
  <2>2. tx \in {"none", "open", "failed"} /\ (conn \/ tx = "none")
    BY DEF SInv, IInv, TypeOK, LostWithAll
  <2>3. tx' = tx \/ Fails BY <1>4 DEF RunRow, RowFailed, Goto
  <2>4. Transaction BY <1>4, <2>1, <2>2, <2>3 DEF RunRow, Transaction, Fails
  <2> QED BY <2>4 DEF Next
<1>5. CASE Commit \/ Rollback
  <2>1. stage = "idle" /\ pageTa # "none" BY <1>5 DEF Commit, Rollback, SInv, Handling
  <2>2. Transaction BY <1>5, <2>1 DEF Commit, Rollback, Finish, Transaction
  <2> QED BY <2>2 DEF Next
<1>6. CASE CommitLost
  <2>1. CASE conn
    BY <1>6, <2>1 DEF CommitLost, Finish, Lose, Others, Next
  <2>2. CASE ~conn
    <3>1. tx = "none" /\ leaked = {} /\ conn = FALSE
      BY <2>2 DEF SInv, IInv, TypeOK, LostWithAll
    <3> QED BY <1>6, <3>1 DEF CommitLost, Finish, tables
  <2> QED BY <2>1, <2>2
<1> QED BY <1>1, <1>2, <1>3, <1>4, <1>5, <1>6 DEF SaveStep

LEMMA SaveNextIsNext == ASSUME SInv, [SaveNext]_vars PROVE [Next]_tables
<1>1. CASE Begin
  <2>1. Transaction
    BY <1>1 DEF Begin, TxOnly, database, entries, Transaction
  <2> QED BY <2>1 DEF Next
<1>2. CASE SaveStep BY <1>2, SaveStepIsNext
<1>3. CASE Elsewhere
  <2>1. CASE EndPage /\ Forget
    BY <2>1 DEF Forget, SInv, InTransaction, Next
  <2> QED BY <1>3, <2>1 DEF Elsewhere, Next
<1>4. CASE UNCHANGED vars BY <1>4 DEF vars
<1> QED BY <1>1, <1>2, <1>3, <1>4 DEF SaveNext

-----------------------------------------------------------------------------
(* One lemma for each step of grid_save *)

LEMMA InitSInv == Init /\ SaveInit => SInv
<1> SUFFICES ASSUME Init, SaveInit PROVE SInv OBVIOUS
<1>1. IInv BY InitIInv
<1>2. SaveTypeOK BY EmptyPost, GridConstants DEF SaveInit, SaveTypeOK, Phases
<1> QED
  BY <1>1, <1>2 DEF Init, SaveInit, SInv, Handling, InTransaction, AtRow, NothingSaid, RowsDone

LEMMA BeginKeeps == ASSUME SInv, IInv', Begin PROVE SInv'
<1>1. /\ phase' = "rows" /\ k' = 1 /\ posted' \in Posts /\ pending' = {}
      /\ stored' = {} /\ answer' = "none"
      /\ UNCHANGED <<stage, pageTa, conn>> /\ stage = "idle" /\ pageTa # "none"
      /\ tx' = IF conn THEN "open" ELSE "none"
  BY DEF Begin, TxOnly, entries
<1>2. SaveTypeOK' BY <1>1, GridConstants DEF SaveTypeOK, Phases
<1>3. \A j \in Changes(posted') : j \in 1 .. Len(posted')
  BY <1>1, PostIsSequence DEF Changes, Atomic!Changes
<1>4. RowsDone' BY <1>1, <1>3 DEF RowsDone
<1> QED
  BY <1>1, <1>2, <1>4 DEF SInv, Handling, InTransaction, AtRow, NothingSaid

\* The rows up to the next one, when this one is done.
LEMMA OneMore ==
    ASSUME SInv, k \in DOMAIN posted
    PROVE  /\ k + 1 \in 1 .. MaxRows + 1
           /\ posted[k] \in Changing =>
                {j \in Changes(posted) : j < k + 1} = {j \in Changes(posted) : j < k} \cup {k}
           /\ posted[k] \notin Changing =>
                {j \in Changes(posted) : j < k + 1} = {j \in Changes(posted) : j < k}
<1>1. posted \in Posts /\ k \in Nat BY RowNumber DEF SInv
<1>2. k \in 1 .. Len(posted) /\ Len(posted) \in 0 .. MaxRows /\ DOMAIN posted = 1 .. Len(posted)
  BY <1>1, PostIsSequence
<1>3. \A j \in Changes(posted) : j \in Nat BY <1>2 DEF Changes, Atomic!Changes
<1>4. k \in Changes(posted) <=> posted[k] \in Changing BY DEF Changes, Atomic!Changes
<1>5. \A j \in Nat : j < k + 1 <=> j < k \/ j = k BY <1>1
<1> QED BY <1>1, <1>2, <1>3, <1>4, <1>5, GridConstants

LEMMA RowsKeep == ASSUME SInv, IInv', Row \/ NoChange \/ LastRow PROVE SInv'
<1>0. posted \in Posts /\ DOMAIN posted = 1 .. Len(posted) /\ k \in Nat /\ k >= 1
  BY RowNumber DEF SInv
<1>1. CASE Row
  <2>1. /\ phase = "rows" /\ phase' = "open" /\ k \in DOMAIN posted
        /\ UNCHANGED <<k, posted, pending, stored, answer, tx, conn, pageTa>>
    BY <1>0, <1>1, PostIsSequence DEF Row, Goto, Call
  <2>2. posted[k] \in DOMAIN RowAction BY <1>1 DEF Row
  <2> QED
    BY <2>1, <2>2 DEF SInv, SaveTypeOK, Phases, Handling, InTransaction, AtRow, NothingSaid, RowsDone
<1>2. CASE NoChange
  <2>0. /\ phase = "rows" /\ k \in DOMAIN posted
        /\ UNCHANGED <<tx, conn, pageTa, stage>>
    BY <1>0, <1>2, PostIsSequence DEF NoChange, tables, entries
  <2>1. CASE posted[k] \in {"E", "X"}
    <3>1. phase' = "rows" /\ k' = k + 1 /\ UNCHANGED <<posted, pending, stored, answer>>
      BY <1>2, <2>1 DEF NoChange, NextRow
    <3>2. posted[k] \notin Changing BY <2>1 DEF Changing
    <3>3. RowsDone' BY <2>0, <3>1, <3>2, OneMore DEF SInv, RowsDone
    <3> QED
      BY <2>0, <3>1, <3>3, OneMore DEF SInv, SaveTypeOK, Phases, Handling, InTransaction, AtRow,
        NothingSaid
  <2>2. CASE posted[k] = "?"
    <3>1. phase' = "rollback" /\ UNCHANGED <<k, posted, pending, stored, answer>>
      BY <1>2, <2>2 DEF NoChange, Goto
    <3> QED
      BY <2>0, <3>1 DEF SInv, SaveTypeOK, Phases, Handling, InTransaction, AtRow, NothingSaid, RowsDone
  <2> QED BY <1>2, <2>1, <2>2 DEF NoChange
<1>3. CASE LastRow
  BY <1>3 DEF LastRow, Goto, tables, entries, SInv, SaveTypeOK, Phases, Handling,
    InTransaction, AtRow, NothingSaid, RowsDone
<1> QED BY <1>1, <1>2, <1>3

LEMMA RowOpenedKeeps == ASSUME SInv, IInv', RowOpened PROVE SInv'
BY DEF RowOpened, Return, Goto, SInv, SaveTypeOK, Phases, Handling, InTransaction, AtRow,
  NothingSaid, RowsDone

\* A row is run within the transaction, for there is a connection to run it on.
LEMMA RunRowKeeps == ASSUME SInv, IInv', RunRow PROVE SInv'
<1>0. /\ phase = "run" /\ stage = "idle" /\ pageTa # "none"
      /\ k \in DOMAIN posted /\ posted[k] \in Changing
      /\ stored = {} /\ answer = "none"
      /\ UNCHANGED <<conn, stage, pageTa>>
  BY RowActions DEF RunRow, TxOnly, entries, SInv, Handling, AtRow, NothingSaid
<1>1. Works => tx = "open" BY <1>0 DEF Works, SInv, InTransaction, IInv, TypeOK
<1>2. CASE phase' = "rollback"
  <2>1. /\ UNCHANGED <<k, posted, answer, stored>>
        /\ pending' \in {pending, pending \cup {k}}
    BY <1>0, <1>1, <1>2 DEF RunRow, Goto, RowFailed, Changed, NextRow
  <2> QED
    BY <1>0, <1>2, <2>1 DEF SInv, SaveTypeOK, Phases, Handling, InTransaction, AtRow,
      NothingSaid, RowsDone
<1>3. CASE phase' # "rollback"
  <2>1. /\ Works /\ phase' = "rows" /\ k' = k + 1
        /\ pending' = pending \cup {k}
        /\ UNCHANGED <<posted, answer, tx, stored>>
    BY <1>0, <1>1, <1>3 DEF RunRow, Goto, RowFailed, Changed, NextRow
  <2>2. pending' = {j \in Changes(posted) : j < k + 1}
    BY <1>0, <1>1, <2>1, OneMore DEF SInv, RowsDone
  <2>3. RowsDone' BY <2>1, <2>2 DEF RowsDone
  <2> QED
    BY <1>0, <1>1, <2>1, <2>3, OneMore DEF SInv, SaveTypeOK, Phases, Handling, InTransaction,
      AtRow, NothingSaid
<1> QED BY <1>2, <1>3

LEMMA EndKeeps == ASSUME SInv, IInv', Commit \/ CommitLost \/ Rollback PROVE SInv'
<1>1. /\ phase' = "off" /\ tx' = "none" /\ pending' = {} /\ UNCHANGED <<k, posted>>
      /\ answer' \in {"COMMIT OK", "not saved"}
  BY DEF Commit, CommitLost, Rollback, Finish
<1>2. stored' \subseteq DOMAIN posted
  BY DEF Commit, CommitLost, Rollback, SInv, SaveTypeOK
<1> QED
  BY <1>1, <1>2 DEF SInv, SaveTypeOK, Phases, Handling, InTransaction, AtRow, NothingSaid, RowsDone

LEMMA ElsewhereKeeps == ASSUME SInv, IInv', Elsewhere PROVE SInv'
<1> USE DEF database, entries
<1>1. CASE EndPage /\ Forget
  <2>0. /\ phase' = "off" /\ k' = 1 /\ posted' = <<>> /\ pending' = {} /\ stored' = {}
        /\ answer' = "none"
    BY <1>1 DEF Forget
  <2>1. SaveTypeOK'
    <3>1. 1 \in 1 .. MaxRows + 1 BY GridConstants
    <3> QED BY <2>0, <3>1, EmptyPost DEF SaveTypeOK, Phases
  <2> QED
    BY <1>1, <2>1 DEF Forget, EndPage, SInv, Handling, InTransaction, AtRow, NothingSaid, RowsDone
<1>2. CASE UNCHANGED save /\ Others
  <2>1. \/ UNCHANGED <<tx, conn, stage, pageTa>>
        \/ tx' = "none" /\ conn' = FALSE /\ UNCHANGED <<stage, pageTa>>
    BY <1>2 DEF Others, Lose, Update, Insert, Remove, SetRow
  <2>2. (SaveTypeOK /\ AtRow /\ NothingSaid)'
    BY <1>2 DEF save, SInv, SaveTypeOK, AtRow, NothingSaid
  <2>3. Handling' BY <1>2, <2>1 DEF save, SInv, Handling
  <2>4. InTransaction' BY <1>2, <2>1 DEF save, SInv, InTransaction
  <2>5. RowsDone'
    <3>1. tx' = tx \/ tx' = "none" BY <2>1
    <3>2. UNCHANGED <<phase, k, posted, pending>> BY <1>2 DEF save
    <3> QED BY <3>1, <3>2 DEF SInv, RowsDone, Changes, Atomic!Changes
  <2> QED BY <2>2, <2>3, <2>4, <2>5 DEF SInv
<1>3. CASE UNCHANGED save /\ OpenTable
  <2>1. /\ stage # "idle" /\ UNCHANGED conn
        /\ tx' = tx \/ (tx = "open" /\ tx' = "failed")
        /\ pageTa' = pageTa \/ (pageTa = "held" /\ pageTa' = "freed")
    BY <1>3 DEF OpenTable, Lookup, CloseTable, Fetch, Prepare, Fails
  <2>2. phase \in {"off", "open"} BY <2>1 DEF SInv, Handling
  <2> QED
    BY <1>3, <2>1, <2>2 DEF save, SInv, SaveTypeOK, Handling, InTransaction, AtRow, NothingSaid, RowsDone
<1>4. CASE UNCHANGED save /\ NewSession
  <2>1. phase = "off"
    BY <1>4, OpenTableConstants DEF NewSession, SInv, Handling, IInv, TypeOK
  <2> QED
    BY <1>4, <2>1 DEF NewSession, save, SInv, SaveTypeOK, Handling, InTransaction, AtRow,
      NothingSaid, RowsDone
<1>5. ASSUME UNCHANGED save, phase = "off", UNCHANGED tx PROVE SInv'
  BY <1>5 DEF save, SInv, SaveTypeOK, Handling, InTransaction, AtRow, NothingSaid, RowsDone
<1> QED
  BY <1>1, <1>2, <1>3, <1>4, <1>5 DEF Elsewhere, Return, StartPage, Call

LEMMA SaveNextSInv == SInv /\ [SaveNext]_vars => SInv'
<1> SUFFICES ASSUME SInv, [SaveNext]_vars PROVE SInv' OBVIOUS
<1>0. IInv' BY SaveNextIsNext, NextIInv DEF SInv
<1>1. CASE Begin BY <1>0, <1>1, BeginKeeps
<1>2. CASE SaveStep
  BY <1>0, <1>2, RowsKeep, RowOpenedKeeps, RunRowKeeps, EndKeeps DEF SaveStep
<1>3. CASE Elsewhere BY <1>0, <1>3, ElsewhereKeeps
<1>4. CASE UNCHANGED vars
  BY <1>0, <1>4 DEF vars, save, tables, entries, SInv, SaveTypeOK, Handling, InTransaction, AtRow,
    NothingSaid, RowsDone
<1> QED BY <1>1, <1>2, <1>3, <1>4 DEF SaveNext

LEMMA SaveSpecSInv == SaveSpec => []SInv
BY InitSInv, SaveNextSInv, PTL DEF SaveSpec

-----------------------------------------------------------------------------
(* What follows *)

\* A page that saves a grid does with the open tables, the transaction and the
\* connection what OpenTables lets any handler do.
THEOREM GridSaveIsHandler == SaveSpec => Spec
<1>1. SInv /\ [SaveNext]_vars => [Next]_tables BY SaveNextIsNext
<1> QED BY <1>1, SaveSpecSInv, PTL DEF SaveSpec, Spec

\* Whenever grid_save is not at work, so at the end of every page and before
\* its own BEGIN, no transaction is open.
THEOREM NoneLeft == SaveSpec => []NoTransactionLeft
<1>1. SInv => NoTransactionLeft BY DEF SInv, InTransaction, NoTransactionLeft
<1> QED BY <1>1, SaveSpecSInv, PTL

\* One step of a page is one of AtomicSave: it posts a grid, gives the answer
\* with nothing or all of the changes stored, or changes nothing of it.
LEMMA SaveStepIsAtomic ==
    ASSUME SInv, [SaveNext]_vars
    PROVE  [Atomic!Next]_(Atomic!grid)
<1> USE DEF Atomic!grid
<1>1. CASE Begin BY <1>1 DEF Begin, Atomic!Next, Atomic!Post
<1>2. CASE Row \/ NoChange \/ LastRow \/ RowOpened
  BY <1>2 DEF Row, NoChange, LastRow, RowOpened, Goto, NextRow
<1>3. CASE RunRow
  <2>1. phase = "run" /\ (Works => tx = "open")
    BY <1>3 DEF RunRow, Works, SInv, InTransaction, IInv, TypeOK
  <2> QED BY <1>3, <2>1 DEF RunRow, Goto, RowFailed, Changed, NextRow
<1>4. CASE Commit \/ CommitLost
  <2>1. stored = {} /\ phase = "commit" BY <1>4 DEF Commit, CommitLost, SInv, NothingSaid
  <2>2. /\ tx = "open" => pending = Atomic!Changes(posted)
        /\ conn => tx = "open"
    <3>1. tx = "open" => pending = {j \in Changes(posted) : j < k}
      BY <2>1 DEF SInv, RowsDone
    <3>2. k > Len(posted) /\ k \in Nat BY <2>1, RowNumber DEF SInv, RowsDone
    <3>3. \A j \in Changes(posted) : j \in 1 .. Len(posted)
      BY PostIsSequence DEF SInv, SaveTypeOK, Changes, Atomic!Changes
    <3>4. Len(posted) \in Nat BY RowNumber DEF SInv
    <3>5. {j \in Changes(posted) : j < k} = Changes(posted) BY <3>2, <3>3, <3>4
    <3> QED BY <2>1, <3>1, <3>5 DEF Changes, SInv, InTransaction
  <2>3. CASE Commit
    BY <2>1, <2>2, <2>3 DEF Commit, Finish, Atomic!Next, Atomic!Answer
  <2>4. CASE CommitLost
    BY <2>1, <2>2, <2>4 DEF CommitLost, Finish, Atomic!Next, Atomic!Answer
  <2> QED BY <1>4, <2>3, <2>4
<1>5. CASE Rollback BY <1>5 DEF Rollback, Finish, Atomic!Next, Atomic!Answer
<1>6. CASE Elsewhere
  BY <1>6, EmptyPost DEF Elsewhere, Forget, save, Atomic!Next, Atomic!Post
<1>7. CASE UNCHANGED vars BY <1>7 DEF vars, save
<1> QED BY <1>1, <1>2, <1>3, <1>4, <1>5, <1>6, <1>7 DEF SaveNext, SaveStep

\* Saving a grid of any length is atomic, and "COMMIT OK" is true.
THEOREM GridSaveIsAtomic == SaveSpec => SaveIsAtomic
<1>1. SaveInit => Atomic!Init BY DEF SaveInit, Atomic!Init
<1>2. SInv /\ [SaveNext]_vars => [Atomic!Next]_(Atomic!grid) BY SaveStepIsAtomic
<1> QED BY <1>1, <1>2, SaveSpecSInv, PTL DEF SaveSpec, SaveIsAtomic, Atomic!Spec
=============================================================================
