----------------------------- MODULE OpenTables -----------------------------
(***************************************************************************)
(* The open tables of one session (opentable.c).  An open table is a row   *)
(* of qz.table_action read into a struct table_action, with its SQL as a   *)
(* prepared statement on the session's connection.  open_table compares    *)
(* the etag of the entry it has with the row's before it hands the entry   *)
(* out; other users change, remove and insert rows at any time, and the    *)
(* connection may be lost at any time.  session_lock keeps the calls of    *)
(* one session apart, so there is one call at a time, but every query of a *)
(* call is a step of its own.                                              *)
(*                                                                         *)
(* A handler is here any sequence of calls; the module Pages says which.   *)
(***************************************************************************)
EXTENDS Integers

CONSTANTS
    Actions,    \* the actions a form may have: rows of qz.table_action
    NoAction,   \* no page is being made, or no call of open_table
    Nothing,    \* no row, no entry
    MaxChanges  \* bound: changes other users make to the rows

ASSUME OpenTableConstants ==
    /\ NoAction \notin Actions
    /\ MaxChanges \in Nat
    /\ Nothing \notin 0 .. MaxChanges + 1

\* qz.etag_seq never draws 0, but an INSERT may give it: never keep the entry.
Etags == 0 .. MaxChanges + 1

Stages == {"idle", "lookup", "fetch", "prepare", "returned"}

VARIABLES
    row,        \* [Actions -> etag of the row in PostgreSQL]
    changes,    \* how often others have changed a row
    conn,       \* the connection is up
    tx,         \* the transaction open on it, if any
    cache,      \* session->opentables: the etag each entry was read with
    leaked,     \* actions with a prepared statement that no entry names
    stage,      \* where the call of open_table is
    opening,    \* its argument
    fetched,    \* the row that init_table_entry read
    page,       \* the action the page is made for
    pageTa,     \* h->page_ta, and whether close_table has freed what it points to
    seen        \* history: the etags each row has had since the page began

database == <<row, changes>>
entries  == <<cache, leaked, stage, opening, fetched, pageTa>>
tables   == <<database, conn, tx, entries, page, seen>>

TypeOK ==
    /\ row     \in [Actions -> Etags \cup {Nothing}]
    /\ changes \in 0 .. MaxChanges
    /\ conn    \in BOOLEAN
    /\ tx      \in {"none", "open", "failed"}
    /\ cache   \in [Actions -> Etags \cup {Nothing}]
    /\ leaked  \subseteq Actions
    /\ stage   \in Stages
    /\ opening \in Actions \cup {NoAction}
    /\ fetched \in Etags \cup {Nothing}
    /\ page    \in Actions \cup {NoAction}
    /\ pageTa  \in {"none", "held", "freed"}
    /\ seen    \in [Actions -> SUBSET (Etags \cup {Nothing})]
    /\ stage # "idle" => opening \in Actions
    /\ pageTa # "none" => page \in Actions

Unopened == [a \in Actions |-> Nothing]
Unseen   == [a \in Actions |-> {}]

Init ==
    /\ row \in [Actions -> {1, Nothing}]
    /\ changes = 0
    /\ conn = TRUE
    /\ tx = "none"
    /\ cache = Unopened
    /\ leaked = {}
    /\ stage = "idle"
    /\ opening = NoAction
    /\ fetched = Nothing
    /\ page = NoAction
    /\ pageTa = "none"
    /\ seen = Unseen

-----------------------------------------------------------------------------
(* PostgreSQL and its other users *)

\* A query is answered: not after the connection or the transaction failed.
Works == conn /\ tx # "failed"

\* A statement failed: within a transaction everything after it fails too.
Fails == tx' = IF tx = "open" THEN "failed" ELSE tx

\* The row of the action, as the page being made could find it.
SetRow(a, etag) ==
    /\ changes < MaxChanges
    /\ changes' = changes + 1
    /\ row' = [row EXCEPT ![a] = etag]
    /\ seen' = IF page = NoAction THEN seen ELSE [seen EXCEPT ![a] = @ \cup {etag}]
    /\ UNCHANGED <<conn, tx, entries, page>>

\* An UPDATE of the row, its form or its files: the triggers draw a new etag.
Update(a) == row[a] # Nothing /\ SetRow(a, changes + 2)

Insert(a) == row[a] = Nothing /\ \E etag \in {0, changes + 2} : SetRow(a, etag)

Remove(a) == row[a] # Nothing /\ SetRow(a, Nothing)

\* With the connection go its transaction and its prepared statements.
Lose ==
    /\ conn
    /\ conn' = FALSE
    /\ tx' = "none"
    /\ leaked' = {}
    /\ UNCHANGED <<database, cache, stage, opening, fetched, pageTa, page, seen>>

-----------------------------------------------------------------------------
(* open_table *)

Call(a) ==
    /\ stage = "idle" /\ page # NoAction
    /\ stage' = "lookup"
    /\ opening' = a
    /\ UNCHANGED <<database, conn, tx, cache, leaked, fetched, pageTa, page, seen>>

\* The entry is found, and the etag query returns one row.
Checked == cache[opening] # Nothing /\ Works /\ row[opening] # Nothing

\* Mutant: the etags are compared the wrong way round.
Differs == row[opening] # 0 /\ row[opening] # cache[opening]

\* Mutant: the entry is taken as it is found.
AnyEtag == TRUE

Current == row[opening] # 0 /\ row[opening] = cache[opening]

\* Mutant: free_table_action, the entry left where it is.
FreeOnly ==
    /\ pageTa' = IF pageTa = "held" /\ page = opening THEN "freed" ELSE pageTa
    /\ UNCHANGED <<cache, leaked>>

\* close_table: DEALLOCATE, remove the entry, free it.  Names with a double
\* quote, which it refuses, are left out.
CloseTable ==
    /\ cache' = [cache EXCEPT ![opening] = Nothing]
    /\ pageTa' = IF pageTa = "held" /\ page = opening THEN "freed" ELSE pageTa
    /\ UNCHANGED leaked

\* The hash is looked up, the entry found is checked against the row's etag,
\* and discarded if it differs.  An entry whose row is gone, or cannot be
\* asked for, is neither returned here nor discarded.
Lookup ==
    /\ stage = "lookup"
    /\ stage' = IF Checked /\ Current THEN "returned" ELSE "fetch"
    /\ IF Checked /\ ~Current THEN CloseTable ELSE UNCHANGED <<cache, leaked, pageTa>>
    /\ UNCHANGED <<database, conn, tx, opening, fetched, page, seen>>

\* init_table_entry reads the row; without one it returns, and open_table
\* goes by what a second look at the hash finds: an entry it could not check.
Fetch ==
    /\ stage = "fetch"
    /\ IF Works /\ row[opening] # Nothing
       THEN stage' = "prepare" /\ fetched' = row[opening]
       ELSE stage' = "returned" /\ UNCHANGED fetched
    /\ UNCHANGED <<database, conn, tx, cache, leaked, opening, pageTa, page, seen>>

\* xmlHashAddEntry2 refuses a second entry of that name: the new struct and
\* the statement just prepared are then lost.
AddEntry ==
    IF cache[opening] = Nothing
    THEN cache' = [cache EXCEPT ![opening] = fetched] /\ UNCHANGED leaked
    ELSE leaked' = leaked \cup {opening} /\ UNCHANGED cache

\* PQprepare fails, for its SQL or with the connection, or the entry is added.
Prepare ==
    /\ stage = "prepare"
    /\ stage' = "returned"
    /\ fetched' = Nothing
    /\ \/ Works /\ AddEntry /\ UNCHANGED tx
       \/ Fails /\ UNCHANGED <<cache, leaked>>
    /\ UNCHANGED <<database, conn, opening, pageTa, page, seen>>

\* What open_table returns is not NULL.
Opened == cache[opening] # Nothing

\* The caller has the pointer.  do_page keeps the one for the page's own
\* action in h->page_ta.
Return ==
    /\ stage = "returned"
    /\ stage' = "idle"
    /\ opening' = NoAction
    /\ UNCHANGED <<database, conn, tx, cache, leaked, fetched, page, seen>>

KeepPageTa == pageTa' = IF pageTa = "none" /\ opening = page /\ Opened
                        THEN "held" ELSE pageTa

-----------------------------------------------------------------------------
(* The session and its pages *)

\* do_page, inside the mutex.
StartPage(a) ==
    /\ page = NoAction /\ conn
    /\ page' = a
    /\ seen' = [b \in Actions |-> {row[b]}]
    /\ stage' = "lookup"
    /\ opening' = a
    /\ UNCHANGED <<database, conn, tx, cache, leaked, fetched, pageTa>>

\* Mutant: h->page_ta is not reset.
PageTaStays ==
    /\ page # NoAction /\ stage = "idle"
    /\ page' = NoAction
    /\ seen' = Unseen
    /\ UNCHANGED <<database, conn, tx, entries>>

EndPage ==
    /\ page # NoAction /\ stage = "idle"
    /\ page' = NoAction
    /\ pageTa' = "none"
    /\ seen' = Unseen
    /\ UNCHANGED <<database, conn, tx, cache, leaked, stage, opening, fetched>>

\* get_session_state finds the connection lost: close_session with
\* close_all_tables; the user logs in again.
NewSession ==
    /\ page = NoAction /\ ~conn
    /\ conn' = TRUE
    /\ cache' = Unopened
    /\ UNCHANGED <<database, tx, leaked, stage, opening, fetched, pageTa, page, seen>>

\* Statements of a handler that begin, fail and end transactions.
Transaction ==
    /\ stage = "idle" /\ pageTa # "none"
    /\ tx' \in {"none", "open", "failed"}
    /\ conn \/ tx' = "none"
    /\ UNCHANGED <<database, conn, entries, page, seen>>

Others == Lose \/ \E a \in Actions : Update(a) \/ Insert(a) \/ Remove(a)
OpenTable == Lookup \/ Fetch \/ Prepare

Next ==
    \/ Others \/ OpenTable
    \/ Return /\ KeepPageTa
    \/ EndPage /\ tx = "none"
    \/ NewSession \/ Transaction
    \/ \E a \in Actions : StartPage(a) \/ Call(a)

Spec == Init /\ [][Next]_tables

-----------------------------------------------------------------------------
(* What open_table promises *)

\* An entry that open_table hands out was current at some time since the page
\* began, unless its row was gone then or PostgreSQL no longer answered: in
\* those cases the old entry is served unchecked (909-1004).
ServedIsCurrent ==
    stage = "returned" /\ Opened =>
        \/ cache[opening] \in seen[opening]
        \/ Nothing \in seen[opening]
        \/ ~Works

\* h->page_ta, which handlers go on reading, is freed under them only when
\* another user changes the page's own row while the page is made, or when its
\* etag is 0, "the interesting case that the cache is always discarded" (940).
PageTaFreedByChange ==
    pageTa = "freed" =>
        0 \in seen[page] \/ \E x, y \in seen[page] : x # y

\* A prepared statement is lost only when a row that was gone at the etag
\* query is back at the fetch (927, 523): every other statement has an entry
\* that close_table will deallocate.
LeaksOnlyReinserted ==
    [][leaked' \subseteq leaked \/ Nothing \in seen[opening]]_tables
=============================================================================
