-------------------------- MODULE OpenTables_proofs --------------------------
(***************************************************************************)
(* Proofs about OpenTables, for any actions and any number of changes.     *)
(* Whether an entry may be served is decided by queries made one after     *)
(* another, so the invariant says what each of them has found out: which   *)
(* rows the page can have seen when a call is at its fetch, at its prepare *)
(* and back, and what is left of that in h->page_ta.                       *)
(***************************************************************************)
EXTENDS OpenTables, TLAPS

\* Entry a was current at some time of this page, or its row was gone.
Seen(a) == cache[a] \in seen[a] \/ Nothing \in seen[a]

SeenNow == page # NoAction => \A a \in Actions : row[a] \in seen[a]

CallOfPage == stage # "idle" => page # NoAction

LostWithAll == ~conn => tx = "none" /\ leaked = {}

NoPageNoTransaction == pageTa = "none" => tx = "none"

HeldWasOpened == pageTa = "held" => cache[page] # Nothing /\ (Seen(page) \/ ~conn)

FetchForReason ==
    stage = "fetch" /\ cache[opening] # Nothing => ~Works \/ Nothing \in seen[opening]

PrepareOfRow ==
    stage = "prepare" =>
        /\ fetched \in seen[opening] /\ fetched # Nothing
        /\ cache[opening] # Nothing => Nothing \in seen[opening]

IInv ==
    /\ TypeOK /\ SeenNow /\ CallOfPage /\ LostWithAll /\ NoPageNoTransaction
    /\ HeldWasOpened /\ PageTaFreedByChange
    /\ FetchForReason /\ PrepareOfRow /\ ServedIsCurrent

-----------------------------------------------------------------------------
(* Types *)

LEMMA InitTypeOK == Init => TypeOK
<1> SUFFICES ASSUME Init PROVE TypeOK OBVIOUS
<1>1. 1 \in Etags BY OpenTableConstants DEF Etags
<1>2. row \in [Actions -> Etags \cup {Nothing}]
  BY <1>1 DEF Init
<1> QED BY <1>2, OpenTableConstants DEF Init, TypeOK, Unopened, Unseen, Stages

\* A new etag is one of those the bound allows.
LEMMA NewEtag ==
    ASSUME TypeOK, changes < MaxChanges
    PROVE  0 \in Etags /\ changes + 2 \in Etags /\ changes + 1 \in 0 .. MaxChanges
BY OpenTableConstants DEF TypeOK, Etags

LEMMA SetRowTypes ==
    ASSUME TypeOK, NEW a \in Actions, NEW e \in Etags \cup {Nothing}, SetRow(a, e)
    PROVE  TypeOK'
<1>1. changes' \in 0 .. MaxChanges BY NewEtag DEF SetRow
<1>2. row' \in [Actions -> Etags \cup {Nothing}] BY DEF SetRow, TypeOK
<1>3. seen' \in [Actions -> SUBSET (Etags \cup {Nothing})] BY DEF SetRow, TypeOK
<1> QED BY <1>1, <1>2, <1>3 DEF SetRow, TypeOK, entries

LEMMA OtherTypes == ASSUME TypeOK, Others PROVE TypeOK'
<1>1. CASE Lose BY <1>1 DEF Lose, TypeOK, database
<1>2. ASSUME NEW a \in Actions, Update(a) \/ Insert(a) \/ Remove(a) PROVE TypeOK'
  <2>1. CASE Update(a) BY <2>1, NewEtag, SetRowTypes DEF Update, SetRow
  <2>2. CASE Insert(a) BY <2>2, NewEtag, SetRowTypes DEF Insert, SetRow
  <2>3. CASE Remove(a) BY <2>3, SetRowTypes DEF Remove
  <2> QED BY <1>2, <2>1, <2>2, <2>3
<1> QED BY <1>1, <1>2 DEF Others

LEMMA OpenTableTypes == ASSUME TypeOK, OpenTable PROVE TypeOK'
<1> USE DEF database
<1>1. CASE Lookup
  <2>1. CASE Checked /\ ~Current
    <3>1. cache' \in [Actions -> Etags \cup {Nothing}]
      BY <1>1, <2>1 DEF Lookup, CloseTable, TypeOK
    <3> QED BY <1>1, <2>1, <3>1 DEF Lookup, CloseTable, TypeOK, Stages
  <2>2. CASE ~(Checked /\ ~Current)
    BY <1>1, <2>2 DEF Lookup, TypeOK, Stages
  <2> QED BY <2>1, <2>2
<1>2. CASE Fetch BY <1>2 DEF Fetch, TypeOK, Stages
<1>3. CASE Prepare
  <2>1. fetched \in Etags \cup {Nothing} /\ opening \in Actions
    BY <1>3 DEF Prepare, TypeOK
  <2>2. /\ cache' \in [Actions -> Etags \cup {Nothing}]
        /\ leaked' \subseteq Actions
        /\ tx' \in {"none", "open", "failed"}
    BY <1>3, <2>1 DEF Prepare, AddEntry, Fails, TypeOK
  <2> QED BY <1>3, <2>1, <2>2 DEF Prepare, TypeOK, Stages
<1> QED BY <1>1, <1>2, <1>3 DEF OpenTable

LEMMA NextTypes == TypeOK /\ [Next]_tables => TypeOK'
<1> SUFFICES ASSUME TypeOK, [Next]_tables PROVE TypeOK' OBVIOUS
<1> USE DEF database
<1>1. CASE Others BY <1>1, OtherTypes
<1>2. CASE OpenTable BY <1>2, OpenTableTypes
<1>3. CASE Return /\ KeepPageTa BY <1>3 DEF Return, KeepPageTa, TypeOK, Stages
<1>4. CASE EndPage BY <1>4 DEF EndPage, TypeOK, Unseen
<1>5. CASE NewSession BY <1>5 DEF NewSession, TypeOK, Unopened
<1>6. CASE Transaction BY <1>6 DEF Transaction, TypeOK, entries
<1>7. ASSUME NEW a \in Actions, StartPage(a) PROVE TypeOK'
  BY <1>7 DEF StartPage, TypeOK, Stages
<1>8. ASSUME NEW a \in Actions, Call(a) PROVE TypeOK'
  BY <1>8 DEF Call, TypeOK, Stages
<1>9. CASE UNCHANGED tables BY <1>9 DEF tables, entries, TypeOK
<1> QED BY <1>1, <1>2, <1>3, <1>4, <1>5, <1>6, <1>7, <1>8, <1>9 DEF Next

-----------------------------------------------------------------------------
(* The invariant *)

LEMMA InitIInv == Init => IInv
BY InitTypeOK, OpenTableConstants
DEF Init, IInv, SeenNow, CallOfPage, LostWithAll, NoPageNoTransaction, HeldWasOpened,
    PageTaFreedByChange, FetchForReason, PrepareOfRow, ServedIsCurrent

\* While the page is made it only ever sees more, and sees every new row.
LEMMA SetRowKeeps ==
    ASSUME IInv, TypeOK', NEW a \in Actions, NEW e \in Etags \cup {Nothing}, SetRow(a, e)
    PROVE  IInv'
<1> USE DEF entries
<1>1. /\ UNCHANGED <<conn, tx, cache, leaked, stage, opening, fetched, pageTa, page>>
      /\ row' = [row EXCEPT ![a] = e]
      /\ page # NoAction => seen' = [seen EXCEPT ![a] = @ \cup {e}]
      /\ page = NoAction => seen' = seen
  BY DEF SetRow
<1>2. \A b \in Actions : seen[b] \subseteq seen'[b] BY <1>1 DEF IInv, TypeOK
<1>3. page # NoAction => page \in Actions BY DEF IInv, TypeOK
<1>4. stage # "idle" => opening \in Actions BY DEF IInv, TypeOK
<1>5. SeenNow' BY <1>1, <1>2 DEF IInv, TypeOK, SeenNow
<1>6. CallOfPage' /\ LostWithAll' /\ NoPageNoTransaction'
  BY <1>1 DEF IInv, CallOfPage, LostWithAll, NoPageNoTransaction
<1>7. pageTa # "none" => page \in Actions BY DEF IInv, TypeOK
<1>8. HeldWasOpened' BY <1>1, <1>2, <1>7 DEF IInv, HeldWasOpened, Seen
<1>9. PageTaFreedByChange' BY <1>1, <1>2, <1>7 DEF IInv, PageTaFreedByChange
<1>10. FetchForReason' /\ PrepareOfRow' /\ ServedIsCurrent'
  BY <1>1, <1>2, <1>4 DEF IInv, FetchForReason, PrepareOfRow, ServedIsCurrent, Works, Opened
<1> QED BY <1>5, <1>6, <1>8, <1>9, <1>10 DEF IInv

LEMMA OthersKeep == ASSUME IInv, TypeOK', Others PROVE IInv'
<1>1. CASE Lose
  BY <1>1 DEF Lose, database, IInv, TypeOK, SeenNow, CallOfPage, LostWithAll,
    NoPageNoTransaction, HeldWasOpened, Seen, PageTaFreedByChange, FetchForReason,
    PrepareOfRow, ServedIsCurrent, Works, Opened
<1>2. ASSUME NEW a \in Actions, Update(a) \/ Insert(a) \/ Remove(a) PROVE IInv'
  <2>1. PICK e \in Etags \cup {Nothing} : SetRow(a, e)
    BY <1>2, NewEtag DEF Update, Insert, Remove, SetRow, IInv
  <2> QED BY <2>1, SetRowKeeps
<1> QED BY <1>1, <1>2 DEF Others

\* The etag query decides: the entry is the row's, it goes, or the row could
\* not be asked for.
LEMMA LookupKeeps == ASSUME IInv, TypeOK', Lookup PROVE IInv'
<1> USE DEF database
<1>0. /\ opening \in Actions /\ page \in Actions /\ row[opening] \in seen[opening]
      /\ stage = "lookup"
      /\ UNCHANGED <<row, conn, tx, opening, fetched, page, seen>>
  BY DEF Lookup, IInv, TypeOK, SeenNow, CallOfPage
<1>1. CASE Checked /\ Current
  <2>1. stage' = "returned" /\ UNCHANGED <<cache, leaked, pageTa>> BY <1>1 DEF Lookup
  <2> QED
    BY <1>0, <1>1, <2>1 DEF IInv, Current, SeenNow, CallOfPage, LostWithAll,
      NoPageNoTransaction, HeldWasOpened, Seen, PageTaFreedByChange, FetchForReason,
      PrepareOfRow, ServedIsCurrent, Works, Opened
<1>2. CASE Checked /\ ~Current
  <2>1. /\ stage' = "fetch" /\ leaked' = leaked
        /\ cache' = [cache EXCEPT ![opening] = Nothing]
        /\ pageTa' = IF pageTa = "held" /\ page = opening THEN "freed" ELSE pageTa
    BY <1>2 DEF Lookup, CloseTable
  <2>2. /\ cache'[opening] = Nothing
        /\ \A b \in Actions : b # opening => cache'[b] = cache[b]
    BY <1>0, <2>1 DEF IInv, TypeOK
  <2>3. HeldWasOpened' BY <1>0, <2>1, <2>2 DEF IInv, HeldWasOpened, Seen
  <2>4. PageTaFreedByChange'
    <3>1. CASE pageTa = "held" /\ page = opening
      <4>1. conn /\ row[page] # Nothing BY <1>2, <3>1 DEF Checked, Works
      <4>2. row[page] = 0 \/ row[page] # cache[page] BY <1>2, <3>1 DEF Current
      <4>3. cache[page] \in seen[page] \/ Nothing \in seen[page]
        BY <3>1, <4>1 DEF IInv, HeldWasOpened, Seen
      <4> QED BY <1>0, <3>1, <4>1, <4>2, <4>3 DEF PageTaFreedByChange
    <3>2. CASE ~(pageTa = "held" /\ page = opening)
      BY <1>0, <2>1, <3>2 DEF IInv, PageTaFreedByChange
    <3> QED BY <3>1, <3>2
  <2>5. NoPageNoTransaction' BY <1>0, <2>1 DEF IInv, NoPageNoTransaction
  <2> QED
    BY <1>0, <2>1, <2>2, <2>3, <2>4, <2>5 DEF IInv, SeenNow, CallOfPage, LostWithAll,
      FetchForReason, PrepareOfRow, ServedIsCurrent, Works, Opened
<1>3. CASE ~Checked
  <2>1. stage' = "fetch" /\ UNCHANGED <<cache, leaked, pageTa>> BY <1>3 DEF Lookup
  <2>2. FetchForReason'
    BY <1>0, <1>3, <2>1 DEF FetchForReason, Checked, Works
  <2> QED
    BY <1>0, <2>1, <2>2 DEF IInv, SeenNow, CallOfPage, LostWithAll, NoPageNoTransaction,
      HeldWasOpened, Seen, PageTaFreedByChange, PrepareOfRow, ServedIsCurrent
<1> QED BY <1>1, <1>2, <1>3

LEMMA FetchKeeps == ASSUME IInv, TypeOK', Fetch PROVE IInv'
<1> USE DEF database
<1>0. /\ opening \in Actions /\ row[opening] \in seen[opening]
      /\ UNCHANGED <<row, conn, tx, cache, leaked, opening, pageTa, page, seen>>
  BY DEF Fetch, IInv, TypeOK, SeenNow, CallOfPage
<1>1. SeenNow' /\ CallOfPage' /\ LostWithAll' /\ NoPageNoTransaction'
  BY <1>0 DEF Fetch, IInv, SeenNow, CallOfPage, LostWithAll, NoPageNoTransaction
<1>2. HeldWasOpened' /\ PageTaFreedByChange'
  BY <1>0 DEF IInv, HeldWasOpened, Seen, PageTaFreedByChange
<1>3. FetchForReason' BY <1>0 DEF Fetch, FetchForReason
<1>4. PrepareOfRow' BY <1>0 DEF Fetch, IInv, FetchForReason, PrepareOfRow, Works
<1>5. ServedIsCurrent'
  BY <1>0 DEF Fetch, IInv, FetchForReason, ServedIsCurrent, Works, Opened
<1> QED BY <1>1, <1>2, <1>3, <1>4, <1>5 DEF IInv

LEMMA PrepareKeeps == ASSUME IInv, TypeOK', Prepare PROVE IInv'
<1> USE DEF database
<1>0. /\ opening \in Actions /\ stage = "prepare" /\ stage' = "returned"
      /\ fetched \in seen[opening] /\ fetched # Nothing
      /\ cache[opening] # Nothing => Nothing \in seen[opening]
      /\ UNCHANGED <<row, conn, opening, pageTa, page, seen>>
  BY DEF Prepare, IInv, TypeOK, PrepareOfRow
<1>1. /\ \/ cache' = cache
         \/ cache[opening] = Nothing /\ cache' = [cache EXCEPT ![opening] = fetched]
      /\ tx' = tx \/ tx = "open"
      /\ leaked' = leaked \/ conn
  BY DEF Prepare, AddEntry, Fails, Works
<1>2. \A b \in Actions : b # opening => cache'[b] = cache[b]
  BY <1>0, <1>1 DEF IInv, TypeOK
<1>3. cache'[opening] = cache[opening] \/ cache'[opening] = fetched
  BY <1>0, <1>1 DEF IInv, TypeOK
<1>4. SeenNow' /\ CallOfPage' /\ FetchForReason' /\ PrepareOfRow'
  BY <1>0 DEF Prepare, IInv, SeenNow, CallOfPage, FetchForReason, PrepareOfRow
<1>5. LostWithAll' /\ NoPageNoTransaction'
  BY <1>0, <1>1 DEF Prepare, Fails, IInv, LostWithAll, NoPageNoTransaction
<1>6. HeldWasOpened'
  <2>1. CASE page = opening
    <3>1. pageTa = "held" => cache' = cache BY <1>1, <2>1 DEF IInv, HeldWasOpened
    <3> QED BY <1>0, <3>1 DEF IInv, HeldWasOpened, Seen
  <2>2. CASE page # opening
    <3>1. pageTa = "held" => page \in Actions BY DEF IInv, TypeOK
    <3> QED BY <1>0, <1>2, <2>2, <3>1 DEF IInv, HeldWasOpened, Seen
  <2> QED BY <2>1, <2>2
<1>7. PageTaFreedByChange' BY <1>0 DEF IInv, PageTaFreedByChange
<1>8. ServedIsCurrent' BY <1>0, <1>3 DEF ServedIsCurrent, Opened
<1> QED BY <1>4, <1>5, <1>6, <1>7, <1>8 DEF IInv

\* h->page_ta is what open_table returned before any transaction was begun.
LEMMA ReturnKeeps == ASSUME IInv, TypeOK', Return, KeepPageTa PROVE IInv'
<1> USE DEF database
<1>0. /\ stage = "returned" /\ stage' = "idle"
      /\ UNCHANGED <<row, conn, tx, cache, leaked, fetched, page, seen>>
  BY DEF Return
<1>1. HeldWasOpened'
  <2>1. CASE pageTa = "none" /\ opening = page /\ Opened
    <3>1. tx # "failed" BY <2>1 DEF IInv, NoPageNoTransaction
    <3> QED
      BY <1>0, <2>1, <3>1 DEF IInv, ServedIsCurrent, Works, Opened, HeldWasOpened, Seen
  <2>2. CASE pageTa' = pageTa
    BY <1>0, <2>2 DEF IInv, HeldWasOpened, Seen
  <2> QED BY <2>1, <2>2 DEF KeepPageTa
<1>2. PageTaFreedByChange' BY <1>0 DEF KeepPageTa, IInv, PageTaFreedByChange
<1>3. NoPageNoTransaction' BY <1>0 DEF KeepPageTa, IInv, NoPageNoTransaction
<1> QED
  BY <1>0, <1>1, <1>2, <1>3 DEF IInv, SeenNow, CallOfPage, LostWithAll, FetchForReason,
    PrepareOfRow, ServedIsCurrent

LEMMA SessionKeeps ==
    ASSUME IInv, TypeOK', (EndPage /\ tx = "none") \/ NewSession \/ Transaction
    PROVE  IInv'
<1> USE DEF database, entries
<1>1. CASE EndPage /\ tx = "none"
  BY <1>1 DEF EndPage, IInv, SeenNow, CallOfPage, LostWithAll, NoPageNoTransaction,
    HeldWasOpened, PageTaFreedByChange, FetchForReason, PrepareOfRow, ServedIsCurrent
<1>2. CASE NewSession
  <2>1. stage = "idle" /\ pageTa = "none" /\ tx = "none" /\ leaked = {}
    BY <1>2, OpenTableConstants
    DEF NewSession, IInv, TypeOK, CallOfPage, LostWithAll
  <2> QED
    BY <1>2, <2>1 DEF NewSession, IInv, SeenNow, CallOfPage, LostWithAll,
      NoPageNoTransaction, HeldWasOpened, PageTaFreedByChange, FetchForReason,
      PrepareOfRow, ServedIsCurrent
<1>3. CASE Transaction
  BY <1>3 DEF Transaction, IInv, SeenNow, CallOfPage, LostWithAll, NoPageNoTransaction,
    HeldWasOpened, Seen, PageTaFreedByChange, FetchForReason, PrepareOfRow, ServedIsCurrent
<1> QED BY <1>1, <1>2, <1>3

LEMMA CallKeeps ==
    ASSUME IInv, TypeOK', NEW a \in Actions, StartPage(a) \/ Call(a)
    PROVE  IInv'
<1> USE DEF database
<1>1. CASE StartPage(a)
  <2>1. pageTa = "none" BY <1>1, OpenTableConstants DEF StartPage, IInv, TypeOK
  <2>2. /\ stage' = "lookup" /\ page' = a /\ a # NoAction
        /\ UNCHANGED <<row, conn, tx, cache, leaked, fetched, pageTa>>
        /\ \A b \in Actions : seen'[b] = {row[b]}
    BY <1>1, OpenTableConstants DEF StartPage
  <2>3. \A b \in Actions : row'[b] \in seen'[b] BY <2>2
  <2> QED
    BY <2>1, <2>2, <2>3 DEF IInv, SeenNow, CallOfPage, LostWithAll,
      NoPageNoTransaction, HeldWasOpened, PageTaFreedByChange, FetchForReason,
      PrepareOfRow, ServedIsCurrent
<1>2. CASE Call(a)
  BY <1>2 DEF Call, IInv, SeenNow, CallOfPage, LostWithAll, NoPageNoTransaction,
    HeldWasOpened, Seen, PageTaFreedByChange, FetchForReason, PrepareOfRow, ServedIsCurrent
<1> QED BY <1>1, <1>2

LEMMA StutterKeeps == ASSUME IInv, UNCHANGED tables PROVE IInv'
BY DEF tables, database, entries, IInv, TypeOK, SeenNow, CallOfPage, LostWithAll,
  NoPageNoTransaction, HeldWasOpened, Seen, PageTaFreedByChange, FetchForReason,
  PrepareOfRow, ServedIsCurrent, Works, Opened

LEMMA NextIInv == IInv /\ [Next]_tables => IInv'
<1> SUFFICES ASSUME IInv, [Next]_tables PROVE IInv' OBVIOUS
<1>0. TypeOK' BY NextTypes DEF IInv
<1>1. CASE Others BY <1>0, <1>1, OthersKeep
<1>2. CASE OpenTable BY <1>0, <1>2, LookupKeeps, FetchKeeps, PrepareKeeps DEF OpenTable
<1>3. CASE Return /\ KeepPageTa BY <1>0, <1>3, ReturnKeeps
<1>4. CASE (EndPage /\ tx = "none") \/ NewSession \/ Transaction BY <1>0, <1>4, SessionKeeps
<1>5. CASE \E a \in Actions : StartPage(a) \/ Call(a) BY <1>0, <1>5, CallKeeps
<1>6. CASE UNCHANGED tables BY <1>6, StutterKeeps
<1> QED BY <1>1, <1>2, <1>3, <1>4, <1>5, <1>6 DEF Next

LEMMA SpecIInv == Spec => []IInv
BY InitIInv, NextIInv, PTL DEF Spec

-----------------------------------------------------------------------------
(* What follows *)

\* Every variable of the open tables keeps its type.
THEOREM TypeCorrect == Spec => []TypeOK
<1>1. IInv => TypeOK BY DEF IInv
<1> QED BY <1>1, SpecIInv, PTL

\* open_table hands out an entry only if it was current during this page, or
\* its row was gone during this page, or PostgreSQL no longer answers.
THEOREM ServedCurrent == Spec => []ServedIsCurrent
<1>1. IInv => ServedIsCurrent BY DEF IInv
<1> QED BY <1>1, SpecIInv, PTL

\* The struct that h->page_ta points to is freed during a page only if others
\* change the page's own row meanwhile, or if its etag is 0.
THEOREM FreedByChange == Spec => []PageTaFreedByChange
<1>1. IInv => PageTaFreedByChange BY DEF IInv
<1> QED BY <1>1, SpecIInv, PTL

\* A prepared statement is left without an entry only when its row was seen
\* gone, and back again, within the one call.
THEOREM LeaksReinserted == Spec => LeaksOnlyReinserted
<1>1. IInv /\ [Next]_tables => leaked' \subseteq leaked \/ Nothing \in seen[opening]
  <2> SUFFICES ASSUME IInv, Prepare, leaked' # leaked PROVE Nothing \in seen[opening]
    BY DEF Next, Others, Lose, Update, Insert, Remove, SetRow, OpenTable, Lookup, CloseTable,
      Fetch, Return, EndPage, NewSession, Transaction, StartPage, Call, entries, tables
  <2> QED BY DEF Prepare, AddEntry, IInv, PrepareOfRow
<1> QED BY <1>1, SpecIInv, PTL DEF Spec, LeaksOnlyReinserted
=============================================================================
