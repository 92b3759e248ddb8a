------------------------------ MODULE GridSave ------------------------------
(***************************************************************************)
(* grid_save (grid.c): the rows of a posted grid are changed one by one,   *)
(* each with the table_action that its change_status letter asks for,      *)
(* between a BEGIN and a COMMIT or ROLLBACK whose results are hardly       *)
(* looked at.  Every row opens its table_action again, inside the          *)
(* transaction, while other users change table_actions and the connection  *)
(* may be lost.                                                            *)
(***************************************************************************)
EXTENDS OpenTables, Sequences

CONSTANTS
    UpdateRow, InsertRow, DeleteRow,    \* three of the Actions
    MaxRows                             \* bound: rows of a posted grid

ASSUME GridConstants ==
    /\ {UpdateRow, InsertRow, DeleteRow} \subseteq Actions
    /\ MaxRows \in Nat

\* change_status: a change, E and X for none, ? for anything else.
Letters == {"U", "I", "D", "E", "X", "?"}
Changing == {"U", "I", "D", "?"}
Posts == UNION {[1 .. n -> Letters] : n \in 0 .. MaxRows}

Phases == {"off", "rows", "open", "run", "commit", "rollback"}

VARIABLES
    phase,      \* where grid_save is
    k,          \* the row it is at
    posted,     \* the change_status letters posted
    pending,    \* rows changed in the transaction
    stored,     \* rows changed for good
    answer      \* __GRID_RESULT__, or the ROLLBACK shown instead

save == <<phase, k, posted, pending, stored, answer>>
vars == <<tables, save>>

SaveTypeOK ==
    /\ phase   \in Phases
    /\ k       \in 1 .. MaxRows + 1
    /\ posted  \in Posts
    /\ pending \subseteq DOMAIN posted
    /\ stored  \subseteq DOMAIN posted
    /\ answer  \in {"none", "COMMIT OK", "not saved"}

SaveInit ==
    /\ phase = "off" /\ k = 1 /\ posted = <<>>
    /\ pending = {} /\ stored = {} /\ answer = "none"

-----------------------------------------------------------------------------
(* One row of the loop *)

\* Nothing of the tables changes but the transaction.
TxOnly == UNCHANGED <<database, conn, entries, page, seen>>

Goto(p) == phase' = p /\ UNCHANGED <<k, posted, pending, stored, answer>>

\* Mutant: the row is not counted.
SameRow == phase' = "rows" /\ UNCHANGED k

NextRow == phase' = "rows" /\ k' = k + 1

\* BEGIN: without a connection there is no transaction, and nobody notices.
Begin ==
    /\ phase = "off" /\ stage = "idle" /\ pageTa # "none"
    /\ tx' = IF conn THEN "open" ELSE "none"
    /\ TxOnly
    /\ phase' = "rows" /\ k' = 1
    /\ posted' \in Posts
    /\ pending' = {} /\ stored' = {} /\ answer' = "none"

RowAction == [U |-> UpdateRow, I |-> InsertRow, D |-> DeleteRow]

\* A letter that asks for a change: grid_update_row, grid_insert_row or
\* grid_delete_row opens its table.
Row ==
    /\ phase = "rows" /\ k <= Len(posted)
    /\ posted[k] \in DOMAIN RowAction
    /\ Call(RowAction[posted[k]])
    /\ Goto("open")

\* E and X are no operations; any other letter leaves grid_row_rs NULL.
NoChange ==
    /\ phase = "rows" /\ k <= Len(posted)
    /\ \/ posted[k] \in {"E", "X"} /\ NextRow /\ UNCHANGED <<posted, pending, stored, answer>>
       \/ posted[k] = "?" /\ Goto("rollback")
    /\ UNCHANGED tables

\* The next change_status is missing.
LastRow ==
    /\ phase = "rows" /\ k > Len(posted)
    /\ Goto("commit")
    /\ UNCHANGED tables

RowOpened ==
    /\ phase = "open"
    /\ Return /\ UNCHANGED pageTa
    /\ Goto(IF Opened THEN "run" ELSE "rollback")

\* The row is changed: for good, if there is no transaction.
Changed ==
    IF tx = "open" THEN pending' = pending \cup {k} /\ UNCHANGED stored
    ELSE stored' = stored \cup {k} /\ UNCHANGED pending

\* Mutant: a statement that failed is passed over.
PassedOver == NextRow /\ UNCHANGED <<posted, pending, stored, answer>> /\ Fails

\* The result is neither COMMAND_OK nor NULL.
RowFailed == Goto("rollback") /\ Fails

\* perform_post_row_action: a parameter is missing and nothing is run; the row
\* is changed; it is changed and its result is rows, not COMMAND_OK; it fails.
RunRow ==
    /\ phase = "run"
    /\ \/ Goto("rollback") /\ UNCHANGED tx
       \/ Works /\ Changed /\ NextRow /\ UNCHANGED <<posted, answer, tx>>
       \/ Works /\ Changed /\ phase' = "rollback" /\ UNCHANGED <<k, posted, answer, tx>>
       \/ RowFailed
    /\ TxOnly

Finish(text) ==
    /\ phase' = "off" /\ tx' = "none"
    /\ pending' = {}
    /\ answer' = text
    /\ UNCHANGED <<k, posted>>

\* Mutant: COMMIT is not sent, and the page is as pleased.
NoCommit ==
    /\ phase = "commit" /\ conn
    /\ phase' = "off" /\ answer' = "COMMIT OK"
    /\ UNCHANGED <<k, posted, pending, stored>> /\ UNCHANGED tables

\* COMMIT succeeds, even of a failed transaction, which is then rolled back;
\* or a deferred constraint fails it.
Commit ==
    /\ phase = "commit" /\ conn
    /\ \/ /\ stored' = IF tx = "open" THEN stored \cup pending ELSE stored
          /\ Finish("COMMIT OK")
       \/ Finish("not saved") /\ UNCHANGED stored
    /\ TxOnly

\* There is no connection left, or it is lost before the answer: nobody knows
\* whether PostgreSQL has committed.
CommitLost ==
    /\ phase = "commit"
    /\ \/ stored' = IF tx = "open" THEN stored \cup pending ELSE stored
       \/ UNCHANGED stored
    /\ conn' = FALSE /\ leaked' = {}
    /\ Finish("not saved")
    /\ UNCHANGED <<database, cache, stage, opening, fetched, pageTa, page, seen>>

\* Whatever ROLLBACK returns, there is no transaction after it.
Rollback ==
    /\ phase = "rollback"
    /\ Finish("not saved") /\ UNCHANGED stored
    /\ TxOnly

SaveStep ==
    \/ Row \/ NoChange \/ LastRow \/ RowOpened \/ RunRow
    \/ Commit \/ CommitLost \/ Rollback

-----------------------------------------------------------------------------
(* With any other handler *)

\* The page and the posted grid are gone.
Forget ==
    /\ phase = "off" /\ UNCHANGED phase
    /\ k' = 1 /\ posted' = <<>>
    /\ pending' = {} /\ stored' = {} /\ answer' = "none"

Elsewhere ==
    \/ EndPage /\ Forget
    \/ /\ UNCHANGED save
       /\ \/ Others \/ OpenTable \/ NewSession
          \/ phase = "off" /\ \/ Return /\ KeepPageTa
                              \/ \E a \in Actions : StartPage(a) \/ Call(a)

SaveNext == Begin \/ SaveStep \/ Elsewhere

SaveSpec == Init /\ SaveInit /\ [][SaveNext]_vars

-----------------------------------------------------------------------------
(* Properties *)

\* Saving a grid is atomic (516-664): the changed rows are stored all or none,
\* and "COMMIT OK" is said of all.  The table_actions save and BEGIN, whose
\* results are not looked at, and a COMMIT of a failed transaction, which
\* PostgreSQL answers as a success, do not break it.
Atomic == INSTANCE AtomicSave
SaveIsAtomic == Atomic!Spec

\* No page ends with its transaction open (563-661): the next statement of the
\* session would be run in it, and be lost with it.
NoTransactionLeft == phase = "off" => tx = "none"
=============================================================================
