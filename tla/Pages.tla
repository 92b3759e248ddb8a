------------------------------- MODULE Pages -------------------------------
(***************************************************************************)
(* The pages of one session: do_page (output.c) and the handlers it calls  *)
(* under session_lock.  A handler is a chart of the calls it makes of      *)
(* open_table, of the statements it runs, of its reads of h->page_ta, and  *)
(* of where each outcome leads; the HTML made between them is left out.    *)
(* grid_save is the module GridSave.  Beside the open tables the session   *)
(* keeps descriptions of columns (pgtools.c), dropped when PostgreSQL      *)
(* notifies it of a change.                                                *)
(***************************************************************************)
EXTENDS GridSave

CONSTANTS
    Attached    \* the callback attached to the form, one of the Actions

\* The actions that the handlers open by name; a form has rows for some.
ASSUME PagesConstants ==
    {"list", "edit", "create", "insert", "update", "delete", "view", "action", "get",
     "etag_value", "insert_row", "delete_row", Attached} \subseteq Actions

VARIABLES
    handler,    \* the handler of the form: a field of Charts
    at,         \* where do_page or its handler is
    datum,      \* a column's pgtype_datum: none, true of the database, stale
    notices     \* NOTIFY pg_db_change: sent, and received by libpq

datums  == <<datum, notices>>
control == <<handler, at>>
all     == <<vars, control, datums>>

-----------------------------------------------------------------------------
(* Charts *)

\* A step: what is done, with which table_action, and where it leads: when it
\* went well, when the statement failed or did not give one row, and when
\* there is no table_action or no result at all.
Step(do, ta, well, bad, null) ==
    [do |-> do, ta |-> ta, well |-> well, bad |-> bad, null |-> null]

This == "this"  \* the page's own action

Open(ta, well, null) == Step("open", ta, well, well, null)
Run(ta, well, bad, null) == Step("run", ta, well, bad, null)
Read(well, bad) == Step("read", This, well, bad, bad)
Datum(well) == Step("datum", This, well, well, well)
Callbacks(well) == Step("callbacks", Attached, well, well, well)

Together(parts) ==
    [place \in UNION {DOMAIN f : f \in parts} |->
        (CHOOSE f \in parts : place \in DOMAIN f)[place]]

\* doc_from_file (add_jscss_links) and the search for the target div, at the
\* start; the menus and doc_adder, at the end.
Frame ==
    [template  |-> Read("branch", "error"),
     menus     |-> Read("done", "error")]

OnetableList ==
    [list      |-> Open("list", "list_run", "error"),
     list_run  |-> Run("list", "list_edit", "list_edit", "error"),
     list_edit |-> Open("edit", "list_cb", "list_cb"),
     list_cb   |-> Callbacks("list_set")]

\* The rows of the list, each a form to edit it.
OnetableRows ==
    [list_set  |-> Read("button", "error")]

AddInsertButton ==
    [button    |-> Open("create", "button_rule", "menus"),
     button_rule |-> Read("button_datum", "button_datum"),
     button_datum |-> Datum("button_cb"),
     button_cb |-> Callbacks("menus")]

OnetableEdit ==
    [edit      |-> Open("edit", "edit_run", "error"),
     edit_run  |-> Run("edit", "form", "error", "error")]

EditForm ==
    [form      |-> Read("form_cb", "form_cb"),
     form_cb   |-> Callbacks("form_set"),
     form_set  |-> Read("form_datum", "error"),
     form_datum |-> Datum("del")]

AddDelete ==
    [del       |-> Open("delete", "del_set", "menus"),
     del_set   |-> Read("menus", "error")]

OnetableCreate ==
    [create    |-> Open("create", "create_run", "error"),
     create_run |-> Run("create", "form", "error", "error")]

OnetableInsert ==
    [insert    |-> Open("insert", "insert_run", "error"),
     insert_run |-> Run("insert", "insert_set", "create", "error"),
     insert_set |-> Read("list", "list")]

OnetableUpdate ==
    [update    |-> Open("update", "update_run", "error"),
     update_run |-> Run("update", "list", "edit", "edit")]

OnetableDelete ==
    [delete    |-> Open("delete", "delete_run", "error"),
     delete_run |-> Run("delete", "delete_set", "list", "error"),
     delete_set |-> Read("list", "list")]

OnetableView ==
    [view      |-> Open("view", "view_run", "error"),
     view_run  |-> Run("view", "menus", "menus", "error")]

\* onetable opens the page's table_action a second time.
Onetable ==
    Together({OnetableList, OnetableRows, AddInsertButton, OnetableEdit, EditForm, AddDelete,
              OnetableCreate, OnetableInsert, OnetableUpdate, OnetableDelete, OnetableView,
              Frame, [start |-> Open(This, "template", "error")]})

SimpleformView ==
    [view      |-> Open("view", "view_run", "error"),
     view_run  |-> Run("view", "view_next", "error", "error"),
     view_next |-> Open("action", "form", "form")]

SimpleformAction ==
    [action    |-> Open("action", "action_run", "error"),
     action_run |-> Run("action", "menus", "view", "view")]

Simpleform ==
    Together({SimpleformView, SimpleformAction, EditForm, AddDelete, Frame,
              [start |-> Open(This, "template", "error")]})

\* callback follows what its second open_table returns without a look at it.
Callback ==
    [start     |-> Open(This, "cb_run", "broken"),
     cb_run    |-> Run(This, "done", "done", "done")]

Menupage ==
    [start     |-> Open(This, "template", "error"),
     template  |-> Read("help", "error"),
     help      |-> Read("menu_cb", "error"),
     menu_cb   |-> Callbacks("done")]

\* The etag of the file asked for is compared only when the browser's
\* If-None-Match opens to one.
Qzfs ==
    [start     |-> Open("get", "match", "error"),
     match     |-> Step("choose", This, "etag", "file", "file"),
     etag      |-> Open("etag_value", "etag_run", "file"),
     etag_run  |-> Run("etag_value", "done", "file", "file"),
     file      |-> Run("get", "done", "error", "error")]

GridEdit ==
    [edit      |-> Read("edit_run", "error"),
     edit_run  |-> Run(This, "edit_datum", "error", "error"),
     edit_datum |-> Datum("edit_rule"),
     edit_rule |-> Read("edit_ins", "edit_ins"),
     edit_ins  |-> Open("insert_row", "edit_del", "edit_del"),
     edit_del  |-> Open("delete_row", "edit_set", "edit_set")]

GridRows ==
    [edit_set  |-> Read("menus", "error")]

\* The save action is run before BEGIN, and its status is not looked at.
GridSaveStart ==
    [save      |-> Read("save_run", "error"),
     save_run  |-> Run(This, "save_set", "save_set", "error"),
     save_set  |-> Read("rows", "error"),
     rows      |-> Step("save", This, "menus", "menus", "menus")]

Grid ==
    Together({GridEdit, GridRows, GridSaveStart, Frame, [start |-> Read("template", "error")]})

Charts == [onetable |-> Onetable, simpleform |-> Simpleform, callback |-> Callback,
           menupage |-> Menupage, fs |-> Qzfs, grid |-> Grid]

Chart == Charts[handler]

Places == {"idle", "do_page", "saving", "branch", "error", "broken", "done"} \cup DOMAIN Chart

PagesTypeOK ==
    /\ TypeOK /\ SaveTypeOK
    /\ handler \in DOMAIN Charts
    /\ at \in Places
    /\ datum \in {"none", "true", "stale"}
    /\ notices \subseteq {"sent", "received"}

PagesInit ==
    /\ handler \in DOMAIN Charts /\ at = "idle"
    /\ datum = "none" /\ notices = {}

-----------------------------------------------------------------------------
(* Steps of a page *)

\* The steps of a chart are taken when open_table is not running.
Here(do) == at \in DOMAIN Chart /\ Chart[at].do = do /\ stage = "idle" /\ phase = "off"

Ta == IF Chart[at].ta = This THEN page ELSE Chart[at].ta

Goes(place) == at' = place /\ UNCHANGED handler

Outcome(how) == Goes(Chart[at][how])

\* do_page, after its second look at is_logged_in.
DoPage(a) ==
    /\ at = "idle" /\ StartPage(a)
    /\ Goes("do_page")
    /\ UNCHANGED <<save, datums>>

\* Mutant: the notices are taken and the descriptions kept.
NoticesOnly == notices' = notices \ {"received"} /\ UNCHANGED datum

\* catch_notifies: every notice libpq has received is taken.
CatchNotifies ==
    /\ notices' = notices \ {"received"}
    /\ datum' = IF "received" \in notices THEN "none" ELSE datum

\* Its open_table has returned.  Without a table_action or a form tag, or with
\* post data that check_postdata refuses, the page is an error.
DoPageOpened ==
    /\ at = "do_page" /\ stage = "returned"
    /\ Return /\ KeepPageTa
    /\ UNCHANGED save
    /\ \/ Goes("error") /\ UNCHANGED datums
       \/ /\ Opened /\ CatchNotifies
          /\ \E place \in {"start", "error"} : Goes(place)

OpenStep ==
    /\ Here("open") /\ Call(Ta)
    /\ UNCHANGED <<save, control, datums>>

OpenedStep ==
    /\ at \in DOMAIN Chart /\ Chart[at].do = "open" /\ stage = "returned"
    /\ Return /\ UNCHANGED pageTa
    /\ Outcome(IF Opened THEN "well" ELSE "null")
    /\ UNCHANGED <<save, datums>>

\* callback_adder opens each callback; one it cannot open ends it.
CallbackStep ==
    /\ Here("callbacks")
    /\ Call(Attached)
    /\ UNCHANGED <<save, control, datums>>

NoCallbacks ==
    /\ Here("callbacks")
    /\ Outcome("well")
    /\ UNCHANGED <<vars, datums>>

CallbackOpened ==
    /\ at \in DOMAIN Chart /\ Chart[at].do = "callbacks" /\ stage = "returned"
    /\ Return /\ UNCHANGED pageTa
    /\ Outcome("well")
    /\ UNCHANGED <<save, datums>>

\* perform_post_action and perform_action: a field is missing, or the
\* statement is run.
RunStep ==
    /\ Here("run")
    /\ \E how \in {"well", "bad", "null"} : (how = "well" => Works) /\ Outcome(how)
    /\ UNCHANGED <<vars, datums>>

\* h->page_ta is read: what comes of it is anything if it has been freed.
ReadStep ==
    /\ Here("read")
    /\ \/ pageTa # "freed" /\ \E how \in {"well", "bad"} : Outcome(how)
       \/ pageTa = "freed" /\ Goes("broken")
    /\ UNCHANGED <<vars, datums>>

ChooseStep ==
    /\ Here("choose")
    /\ \E how \in {"well", "bad"} : Outcome(how)
    /\ UNCHANGED <<vars, datums>>

\* get_pgtype_datum: from the hash, or from PostgreSQL.  A version other than
\* the program's, which it does not survive, is left out.
DatumStep ==
    /\ Here("datum")
    /\ datum' = IF datum = "none" /\ Works THEN "true" ELSE datum
    /\ Outcome("well")
    /\ UNCHANGED <<vars, notices>>

\* onetable, simpleform and grid: the action names the function to call.
Branch ==
    /\ at = "branch"
    /\ Goes(IF page \in DOMAIN Chart THEN page ELSE "error")
    /\ UNCHANGED <<vars, datums>>

SaveBegin ==
    /\ Here("save") /\ Begin
    /\ Goes("saving")
    /\ UNCHANGED datums

Saving ==
    /\ at = "saving"
    /\ SaveStep
    /\ Goes(IF phase' = "off" THEN "menus" ELSE at)
    /\ UNCHANGED datums

\* The page is done, or error_page is; session_lock is released.  A NULL or
\* freed pointer that was followed may end as an error page does.
Leave ==
    /\ at \in {"done", "error", "broken"}
    /\ EndPage /\ Forget
    /\ Goes("idle")
    /\ UNCHANGED datums

LogInAgain ==
    /\ at = "idle" /\ NewSession
    /\ datum' = "none" /\ notices' = {}
    /\ UNCHANGED <<save, control>>

\* Other users change the database and send NOTIFY pg_db_change.
ChangeDb ==
    /\ datum' = IF datum = "none" THEN datum ELSE "stale"
    /\ notices' = notices \cup {"sent"}
    /\ UNCHANGED <<vars, control>>

Receive ==
    /\ conn /\ "sent" \in notices
    /\ notices' = {"received"}
    /\ UNCHANGED <<vars, control, datum>>

OpenTableStep == OpenTable /\ UNCHANGED <<save, control, datums>>

OthersStep == Others /\ UNCHANGED <<save, control, datums>>

\* What the thread that makes the page does.
PageStep ==
    \/ DoPageOpened \/ OpenStep \/ OpenedStep
    \/ CallbackStep \/ NoCallbacks \/ CallbackOpened
    \/ RunStep \/ ReadStep \/ ChooseStep \/ DatumStep \/ Branch
    \/ SaveBegin \/ Saving \/ Leave
    \/ OpenTableStep

PagesNext ==
    \/ PageStep \/ LogInAgain \/ ChangeDb \/ Receive \/ OthersStep
    \/ \E a \in Actions : DoPage(a)

PagesSpec == Init /\ SaveInit /\ PagesInit /\ [][PagesNext]_all

\* The thread is scheduled, and PostgreSQL answers or its connection is lost.
FairPages == PagesSpec /\ WF_all(PageStep)

-----------------------------------------------------------------------------
(* Properties *)

\* A handler follows a NULL or freed pointer, in onetable.c, simpleform.c,
\* menu.c and callback.c alike, only when another user changes the row of the
\* page's own action while the page is made, or its etag is 0.
BrokenOnlyByChange ==
    at = "broken" => 0 \in seen[page] \/ \E x, y \in seen[page] : x # y

\* Every page ends, however its statements fail: the functions that go on with
\* another's work (onetable.c 684-957, simpleform.c 159, grid.c 571) never come
\* round to where they were, and session_lock is released.
PagesEnd == page # NoAction ~> page = NoAction

\* A description of a column that is no longer true is one that PostgreSQL
\* has sent a notice of which catch_notifies has not taken yet (output.c 187,
\* pgtools.c 215): no page reads it once the notice is taken.
StaleDatumIsAnnounced == datum = "stale" => notices # {}
=============================================================================
