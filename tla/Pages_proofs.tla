---------------------------- MODULE Pages_proofs ----------------------------
(***************************************************************************)
(* Proofs about Pages, for any Actions, forms and grids: to the open       *)
(* tables and to grid_save the pages are what OpenTables and GridSave say  *)
(* of handlers, so what is proved there holds of them.  The charts are     *)
(* looked at once, part by part, for what a place may lead to.             *)
(***************************************************************************)
EXTENDS Pages, GridSave_proofs

-----------------------------------------------------------------------------
(* Charts *)

OnetablePlaces ==
    {"start", "template", "menus", "list", "list_run", "list_edit", "list_cb", "list_set",
     "button", "button_rule", "button_datum", "button_cb", "edit", "edit_run",
     "form", "form_cb", "form_set", "form_datum", "del", "del_set", "create", "create_run",
     "insert", "insert_run", "insert_set", "update", "update_run",
     "delete", "delete_run", "delete_set", "view", "view_run"}

SimpleformPlaces ==
    {"start", "template", "menus", "view", "view_run", "view_next", "action", "action_run",
     "form", "form_cb", "form_set", "form_datum", "del", "del_set"}

CallbackPlaces == {"start", "cb_run"}
MenupagePlaces == {"start", "template", "help", "menu_cb"}
QzfsPlaces == {"start", "match", "etag", "etag_run", "file"}

GridPlaces ==
    {"start", "template", "menus", "edit", "edit_run", "edit_datum", "edit_rule", "edit_ins",
     "edit_del", "edit_set", "save", "save_run", "save_set", "rows"}

Names == Actions \cup {This}

\* Where a step with these outcomes may lead.  Only the open_table of the
\* page's own action is followed without a look at it.
Leads(s, places) ==
    /\ {s.well, s.bad} \subseteq places \cup {"branch", "error", "done"}
    /\ s.null \in places \cup {"error", "done", "broken"}
    /\ s.null = "broken" => s.do = "open" /\ s.ta = This
    /\ s.do \in {"open", "callbacks"} => s.ta \in Names
    /\ s.do = "save" => "menus" \in places

Part(f, places) == \A p \in DOMAIN f : p \in places /\ Leads(f[p], places)

LEMMA PartsTogether ==
    ASSUME NEW parts, NEW places, \A f \in parts : Part(f, places)
    PROVE  /\ Part(Together(parts), places)
           /\ DOMAIN Together(parts) = UNION {DOMAIN f : f \in parts}
<1> DEFINE names == UNION {DOMAIN f : f \in parts}
           of(p) == CHOOSE f \in parts : p \in DOMAIN f
<1>1. Together(parts) = [p \in names |-> of(p)[p]] BY DEF Together
<1>2. ASSUME NEW p \in names PROVE p \in places /\ Leads(of(p)[p], places)
  <2>1. of(p) \in parts /\ p \in DOMAIN of(p) BY <1>2
  <2> QED BY <2>1 DEF Part
<1>3. DOMAIN Together(parts) = names BY <1>1
<1>4. \A p \in names : Together(parts)[p] = of(p)[p] BY <1>1
<1>5. Part(Together(parts), places) BY <1>2, <1>3, <1>4 DEF Part
<1> QED BY <1>3, <1>5

\* A part is known by a look at its steps.
USE PagesConstants DEF Part, Leads, Names, Step, Open, Run, Read, Datum, Callbacks

LEMMA OnetableChart == Part(Onetable, OnetablePlaces) /\ DOMAIN Onetable = OnetablePlaces
<1> DEFINE start == [start |-> Open(This, "template", "error")]
<1>1. /\ Part(OnetableList, OnetablePlaces)
      /\ DOMAIN OnetableList = {"list", "list_run", "list_edit", "list_cb"}
  BY DEF OnetableList, OnetablePlaces
<1>2. Part(OnetableRows, OnetablePlaces) /\ DOMAIN OnetableRows = {"list_set"}
  BY DEF OnetableRows, OnetablePlaces
<1>3. /\ Part(AddInsertButton, OnetablePlaces)
      /\ DOMAIN AddInsertButton = {"button", "button_rule", "button_datum", "button_cb"}
  BY DEF AddInsertButton, OnetablePlaces
<1>4. Part(OnetableEdit, OnetablePlaces) /\ DOMAIN OnetableEdit = {"edit", "edit_run"}
  BY DEF OnetableEdit, OnetablePlaces
<1>5. /\ Part(EditForm, OnetablePlaces)
      /\ DOMAIN EditForm = {"form", "form_cb", "form_set", "form_datum"}
  BY DEF EditForm, OnetablePlaces
<1>6. Part(AddDelete, OnetablePlaces) /\ DOMAIN AddDelete = {"del", "del_set"}
  BY DEF AddDelete, OnetablePlaces
<1>7. Part(OnetableCreate, OnetablePlaces) /\ DOMAIN OnetableCreate = {"create", "create_run"}
  BY DEF OnetableCreate, OnetablePlaces
<1>8. /\ Part(OnetableInsert, OnetablePlaces)
      /\ DOMAIN OnetableInsert = {"insert", "insert_run", "insert_set"}
  BY DEF OnetableInsert, OnetablePlaces
<1>9. Part(OnetableUpdate, OnetablePlaces) /\ DOMAIN OnetableUpdate = {"update", "update_run"}
  BY DEF OnetableUpdate, OnetablePlaces
<1>10. /\ Part(OnetableDelete, OnetablePlaces)
      /\ DOMAIN OnetableDelete = {"delete", "delete_run", "delete_set"}
  BY DEF OnetableDelete, OnetablePlaces
<1>11. Part(OnetableView, OnetablePlaces) /\ DOMAIN OnetableView = {"view", "view_run"}
  BY DEF OnetableView, OnetablePlaces
<1>12. Part(Frame, OnetablePlaces) /\ DOMAIN Frame = {"template", "menus"}
  BY DEF Frame, OnetablePlaces
<1>13. Part(start, OnetablePlaces) /\ DOMAIN start = {"start"} BY DEF OnetablePlaces
<1> DEFINE parts ==
      {OnetableList, OnetableRows, AddInsertButton, OnetableEdit, EditForm, AddDelete,
       OnetableCreate, OnetableInsert, OnetableUpdate, OnetableDelete, OnetableView, Frame, start}
<1> HIDE DEF Part, start
<1>14. \A f \in parts : Part(f, OnetablePlaces)
  BY <1>1, <1>2, <1>3, <1>4, <1>5, <1>6, <1>7, <1>8, <1>9, <1>10, <1>11, <1>12, <1>13 DEF parts
<1>15. UNION {DOMAIN f : f \in parts} = OnetablePlaces
  BY <1>1, <1>2, <1>3, <1>4, <1>5, <1>6, <1>7, <1>8, <1>9, <1>10, <1>11, <1>12, <1>13
  DEF parts, OnetablePlaces
<1>16. Onetable = Together(parts) BY DEF Onetable, start
<1> HIDE DEF parts
<1> QED BY <1>14, <1>15, <1>16, PartsTogether

LEMMA SimpleformChart == Part(Simpleform, SimpleformPlaces) /\ DOMAIN Simpleform = SimpleformPlaces
<1> DEFINE start == [start |-> Open(This, "template", "error")]
<1>1. /\ Part(SimpleformView, SimpleformPlaces)
      /\ DOMAIN SimpleformView = {"view", "view_run", "view_next"}
  BY DEF SimpleformView, SimpleformPlaces
<1>2. /\ Part(SimpleformAction, SimpleformPlaces)
      /\ DOMAIN SimpleformAction = {"action", "action_run"}
  BY DEF SimpleformAction, SimpleformPlaces
<1>3. /\ Part(EditForm, SimpleformPlaces)
      /\ DOMAIN EditForm = {"form", "form_cb", "form_set", "form_datum"}
  BY DEF EditForm, SimpleformPlaces
<1>4. Part(AddDelete, SimpleformPlaces) /\ DOMAIN AddDelete = {"del", "del_set"}
  BY DEF AddDelete, SimpleformPlaces
<1>5. Part(Frame, SimpleformPlaces) /\ DOMAIN Frame = {"template", "menus"}
  BY DEF Frame, SimpleformPlaces
<1>6. Part(start, SimpleformPlaces) /\ DOMAIN start = {"start"} BY DEF SimpleformPlaces
<1> DEFINE parts == {SimpleformView, SimpleformAction, EditForm, AddDelete, Frame, start}
<1> HIDE DEF Part, start
<1>7. \A f \in parts : Part(f, SimpleformPlaces)
  BY <1>1, <1>2, <1>3, <1>4, <1>5, <1>6 DEF parts
<1>8. UNION {DOMAIN f : f \in parts} = SimpleformPlaces
  BY <1>1, <1>2, <1>3, <1>4, <1>5, <1>6 DEF parts, SimpleformPlaces
<1>9. Simpleform = Together(parts) BY DEF Simpleform, start
<1> HIDE DEF parts
<1> QED BY <1>7, <1>8, <1>9, PartsTogether

LEMMA GridChart == Part(Grid, GridPlaces) /\ DOMAIN Grid = GridPlaces
<1> DEFINE start == [start |-> Read("template", "error")]
<1>1. /\ Part(GridEdit, GridPlaces)
      /\ DOMAIN GridEdit = {"edit", "edit_run", "edit_datum", "edit_rule", "edit_ins", "edit_del"}
  BY DEF GridEdit, GridPlaces
<1>2. Part(GridRows, GridPlaces) /\ DOMAIN GridRows = {"edit_set"}
  BY DEF GridRows, GridPlaces
<1>3. /\ Part(GridSaveStart, GridPlaces)
      /\ DOMAIN GridSaveStart = {"save", "save_run", "save_set", "rows"}
  BY DEF GridSaveStart, GridPlaces
<1>4. Part(Frame, GridPlaces) /\ DOMAIN Frame = {"template", "menus"}
  BY DEF Frame, GridPlaces
<1>5. Part(start, GridPlaces) /\ DOMAIN start = {"start"} BY DEF GridPlaces
<1> DEFINE parts == {GridEdit, GridRows, GridSaveStart, Frame, start}
<1> HIDE DEF Part, start
<1>6. \A f \in parts : Part(f, GridPlaces)
  BY <1>1, <1>2, <1>3, <1>4, <1>5 DEF parts
<1>7. UNION {DOMAIN f : f \in parts} = GridPlaces
  BY <1>1, <1>2, <1>3, <1>4, <1>5 DEF parts, GridPlaces
<1>8. Grid = Together(parts) BY DEF Grid, start
<1> HIDE DEF parts
<1> QED BY <1>6, <1>7, <1>8, PartsTogether

LEMMA OtherCharts ==
    /\ Part(Callback, CallbackPlaces) /\ DOMAIN Callback = CallbackPlaces
    /\ Part(Menupage, MenupagePlaces) /\ DOMAIN Menupage = MenupagePlaces
    /\ Part(Qzfs, QzfsPlaces) /\ DOMAIN Qzfs = QzfsPlaces
<1>1. Part(Callback, CallbackPlaces) /\ DOMAIN Callback = CallbackPlaces
  BY DEF Callback, CallbackPlaces
<1>2. Part(Menupage, MenupagePlaces) /\ DOMAIN Menupage = MenupagePlaces
  BY DEF Menupage, MenupagePlaces
<1>3. Part(Qzfs, QzfsPlaces) /\ DOMAIN Qzfs = QzfsPlaces
  BY DEF Qzfs, QzfsPlaces
<1> QED BY <1>1, <1>2, <1>3

HIDE DEF Part, Leads, Names, Step, Open, Run, Read, Datum, Callbacks

Special == {"idle", "do_page", "saving", "branch", "error", "broken", "done"}

LEMMA ChartIsPart ==
    ASSUME handler \in DOMAIN Charts
    PROVE  Part(Chart, DOMAIN Chart) /\ Special \cap DOMAIN Chart = {} /\ "start" \in DOMAIN Chart
<1>1. DOMAIN Charts = {"onetable", "simpleform", "callback", "menupage", "fs", "grid"}
  BY DEF Charts
<1>2. CASE handler = "onetable"
  <2>1. Chart = Onetable BY <1>2 DEF Chart, Charts
  <2> QED BY <2>1, OnetableChart DEF OnetablePlaces, Special
<1>3. CASE handler = "simpleform"
  <2>1. Chart = Simpleform BY <1>3 DEF Chart, Charts
  <2> QED BY <2>1, SimpleformChart DEF SimpleformPlaces, Special
<1>4. CASE handler = "callback"
  <2>1. Chart = Callback BY <1>4 DEF Chart, Charts
  <2> QED BY <2>1, OtherCharts DEF CallbackPlaces, Special
<1>5. CASE handler = "menupage"
  <2>1. Chart = Menupage BY <1>5 DEF Chart, Charts
  <2> QED BY <2>1, OtherCharts DEF MenupagePlaces, Special
<1>6. CASE handler = "fs"
  <2>1. Chart = Qzfs BY <1>6 DEF Chart, Charts
  <2> QED BY <2>1, OtherCharts DEF QzfsPlaces, Special
<1>7. CASE handler = "grid"
  <2>1. Chart = Grid BY <1>7 DEF Chart, Charts
  <2> QED BY <2>1, GridChart DEF GridPlaces, Special
<1> QED BY <1>1, <1>2, <1>3, <1>4, <1>5, <1>6, <1>7

\* Where a step of the page's chart leads, and with which table_action.
LEMMA ChartLeads ==
    ASSUME handler \in DOMAIN Charts, at \in DOMAIN Chart
    PROVE  /\ at \notin Special
           /\ Chart[at].well \in (DOMAIN Chart) \cup {"branch", "error", "done"}
           /\ Chart[at].bad \in (DOMAIN Chart) \cup {"branch", "error", "done"}
           /\ Chart[at].null \in (DOMAIN Chart) \cup {"error", "done", "broken"}
           /\ Chart[at].null = "broken" => Chart[at].do = "open" /\ Chart[at].ta = This
           /\ Chart[at].do \in {"open", "callbacks"} => Chart[at].ta \in Actions \cup {This}
           /\ Chart[at].do = "save" => "menus" \in DOMAIN Chart
BY ChartIsPart DEF Part, Leads, Names

-----------------------------------------------------------------------------
(* The invariant *)

Control ==
    /\ handler \in DOMAIN Charts
    /\ at \in Places
    /\ datum \in {"none", "true", "stale"}
    /\ notices \subseteq {"sent", "received"}

SavesOnly ==
    /\ at = "saving" <=> phase # "off"
    /\ at = "saving" => "menus" \in DOMAIN Chart

\* A handler runs with h->page_ta set; do_page has yet to set it.
PageTaSet ==
    /\ at \notin {"idle", "do_page", "error"} => pageTa # "none"
    /\ at = "do_page" => stage # "idle" /\ opening = page /\ pageTa = "none"

CallsFromHere == stage # "idle" => at \in {"do_page", "saving"} \cup DOMAIN Chart

OpensThis ==
    stage # "idle" /\ at \in DOMAIN Chart /\ Chart[at].do = "open" => opening = Ta

BrokenIsFreed == at = "broken" => pageTa = "freed"

PInv ==
    /\ SInv /\ Control /\ SavesOnly /\ PageTaSet /\ CallsFromHere /\ OpensThis
    /\ BrokenIsFreed
    /\ StaleDatumIsAnnounced

-----------------------------------------------------------------------------
(* To grid_save and the open tables *)

LEMMA TaIsAction ==
    ASSUME PInv, at \in DOMAIN Chart, Chart[at].do \in {"open", "callbacks"}, page # NoAction
    PROVE  Ta \in Actions
BY ChartLeads DEF Ta, PInv, Control, SInv, IInv, TypeOK

LEMMA PagesNextIsSaveNext == ASSUME PInv, [PagesNext]_all PROVE [SaveNext]_vars
<1>1. ASSUME NEW a \in Actions, DoPage(a) PROVE SaveNext
  BY <1>1 DEF DoPage, PInv, SavesOnly, SaveNext, Elsewhere
<1>2. CASE DoPageOpened
  <2>1. phase = "off" BY <1>2 DEF DoPageOpened, PInv, SavesOnly
  <2> QED BY <1>2, <2>1 DEF DoPageOpened, SaveNext, Elsewhere
<1>3. CASE OpenStep \/ CallbackStep
  <2>1. /\ at \in DOMAIN Chart /\ Chart[at].do \in {"open", "callbacks"} /\ phase = "off"
        /\ page # NoAction /\ UNCHANGED save
    BY <1>3 DEF OpenStep, CallbackStep, Here, Call
  <2>2. Call(Ta) \/ Call(Attached) BY <1>3 DEF OpenStep, CallbackStep
  <2>3. Ta \in Actions /\ Attached \in Actions BY <2>1, TaIsAction, PagesConstants
  <2> QED BY <2>1, <2>2, <2>3 DEF SaveNext, Elsewhere
<1>4. CASE OpenedStep \/ CallbackOpened
  <2>1. at \in DOMAIN Chart /\ Return /\ UNCHANGED pageTa /\ UNCHANGED save
    BY <1>4 DEF OpenedStep, CallbackOpened
  <2>2. at \notin {"idle", "do_page", "error", "saving"}
    BY <2>1, ChartLeads DEF PInv, Control, Special
  <2>3. phase = "off" /\ pageTa # "none" BY <2>2 DEF PInv, Control, SavesOnly, PageTaSet
  <2>4. KeepPageTa BY <2>1, <2>3 DEF KeepPageTa
  <2> QED BY <2>1, <2>3, <2>4 DEF SaveNext, Elsewhere
<1>5. CASE NoCallbacks \/ RunStep \/ ReadStep \/ ChooseStep \/ DatumStep \/ Branch
  BY <1>5 DEF NoCallbacks, RunStep, ReadStep, ChooseStep, DatumStep, Branch
<1>6. CASE SaveBegin \/ Saving BY <1>6 DEF SaveBegin, Saving, SaveNext
<1>7. CASE Leave BY <1>7 DEF Leave, SaveNext, Elsewhere
<1>8. CASE OpenTableStep \/ OthersStep \/ LogInAgain
  BY <1>8 DEF OpenTableStep, OthersStep, LogInAgain, SaveNext, Elsewhere
<1>9. CASE ChangeDb \/ Receive BY <1>9 DEF ChangeDb, Receive
<1>10. CASE UNCHANGED all BY <1>10 DEF all
<1> QED
  BY <1>1, <1>2, <1>3, <1>4, <1>5, <1>6, <1>7, <1>8, <1>9, <1>10 DEF PagesNext, PageStep

-----------------------------------------------------------------------------
(* One lemma for each kind of step *)

LEMMA InitPInv == Init /\ SaveInit /\ PagesInit => PInv
<1> SUFFICES ASSUME Init, SaveInit, PagesInit PROVE PInv OBVIOUS
<1>1. SInv BY InitSInv
<1>2. at \notin DOMAIN Chart BY ChartIsPart DEF PagesInit, Special
<1> QED
  BY <1>1, <1>2 DEF Init, SaveInit, PagesInit, PInv, Control, Places, SavesOnly, PageTaSet,
    CallsFromHere, OpensThis, BrokenIsFreed, StaleDatumIsAnnounced

\* Control stays where it is, and so do the table_action and the call.
LEMMA AtKeeps ==
    ASSUME PInv, SInv', UNCHANGED <<control, save, page, stage, opening, pageTa>>,
           datum' \in {"none", "true", "stale"}, notices' \subseteq {"sent", "received"},
           StaleDatumIsAnnounced'
    PROVE  PInv'
<1>1. UNCHANGED <<handler, at, page, stage, opening, pageTa, phase>> BY DEF control, save
<1>2. Chart' = Chart BY <1>1 DEF Chart
<1>3. Control' BY <1>1, <1>2 DEF PInv, Control, Places
<1>4. (SavesOnly /\ PageTaSet /\ CallsFromHere /\ BrokenIsFreed)'
  BY <1>1, <1>2 DEF PInv, SavesOnly, PageTaSet, CallsFromHere, BrokenIsFreed
<1>5. OpensThis' BY <1>1, <1>2 DEF PInv, OpensThis, Ta
<1> QED BY <1>3, <1>4, <1>5 DEF PInv

LEMMA OthersKeepPage ==
    ASSUME PInv, SInv', OthersStep \/ ChangeDb \/ Receive
    PROVE  PInv'
<1>1. UNCHANGED <<control, save, page, stage, opening, pageTa>>
  BY DEF OthersStep, Others, Lose, Update, Insert, Remove, SetRow, entries, ChangeDb, Receive,
    vars, tables
<1>2. /\ datum' \in {"none", "true", "stale"} /\ notices' \subseteq {"sent", "received"}
      /\ StaleDatumIsAnnounced'
  BY DEF OthersStep, ChangeDb, Receive, datums, PInv, Control, StaleDatumIsAnnounced
<1> QED BY <1>1, <1>2, AtKeeps

\* The outcome of a step of the chart.
LEMMA OutcomeLeads ==
    ASSUME PInv, at \in DOMAIN Chart, NEW how \in {"well", "bad", "null"}, Outcome(how)
    PROVE  /\ handler' = handler /\ Chart' = Chart
           /\ at' \in Places \ {"idle", "do_page", "saving"}
           /\ at' = "broken" => how = "null" /\ Chart[at].do = "open" /\ Chart[at].ta = This
           /\ pageTa # "none" /\ phase = "off"
<1>1. handler \in DOMAIN Charts BY DEF PInv, Control
<1>2. at \notin Special BY <1>1, ChartLeads
<1>3. handler' = handler /\ Chart' = Chart BY DEF Outcome, Goes, Chart
<1>4. \/ at' \in {Chart[at].well, Chart[at].bad}
      \/ at' = Chart[at].null /\ how = "null"
  BY DEF Outcome, Goes
<1>5. /\ at' \in (DOMAIN Chart) \cup {"branch", "error", "done", "broken"}
      /\ at' = "broken" => how = "null" /\ Chart[at].do = "open" /\ Chart[at].ta = This
  BY <1>1, <1>4, ChartLeads, ChartIsPart DEF Special
<1>6. at' \notin {"idle", "do_page", "saving"} BY <1>1, <1>5, ChartIsPart DEF Special
<1>7. pageTa # "none" /\ phase = "off" BY <1>2 DEF PInv, SavesOnly, PageTaSet, Special
<1> QED BY <1>3, <1>5, <1>6, <1>7 DEF Places

\* A step from one place of the handler to another, no call being made.
LEMMA PlaceKeeps ==
    ASSUME PInv, SInv', handler' = handler,
           at' \in Places \ {"idle", "do_page", "saving"}, stage' = "idle", phase' = "off",
           pageTa' # "none", at' = "broken" => pageTa' = "freed",
           datum' \in {"none", "true", "stale"}, notices' \subseteq {"sent", "received"},
           StaleDatumIsAnnounced'
    PROVE  PInv'
BY DEF Chart, PInv, Control, Places, SavesOnly, PageTaSet, CallsFromHere, OpensThis, BrokenIsFreed

LEMMA LocalKeeps ==
    ASSUME PInv, SInv', NoCallbacks \/ RunStep \/ ReadStep \/ ChooseStep \/ DatumStep \/ Branch
    PROVE  PInv'
<1>0. /\ UNCHANGED <<stage, phase, pageTa, notices>> /\ handler' = handler
      /\ datum' = datum \/ datum' = "true"
  BY DEF NoCallbacks, RunStep, ReadStep, ChooseStep, DatumStep, Branch, vars, tables, entries, save,
    datums, Goes, Outcome
<1>1. /\ datum' \in {"none", "true", "stale"} /\ notices' \subseteq {"sent", "received"}
      /\ StaleDatumIsAnnounced'
  BY <1>0 DEF PInv, Control, StaleDatumIsAnnounced
<1>2. CASE NoCallbacks \/ RunStep \/ ChooseStep \/ DatumStep
  <2>1. PICK how \in {"well", "bad", "null"} : Outcome(how) /\ at \in DOMAIN Chart
            /\ stage = "idle" /\ phase = "off" /\ (how = "null" => Chart[at].do = "run")
    BY <1>2 DEF NoCallbacks, RunStep, ChooseStep, DatumStep, Here
  <2> QED BY <1>0, <1>1, <2>1, OutcomeLeads, PlaceKeeps
<1>3. CASE ReadStep
  <2>1. at \in DOMAIN Chart /\ stage = "idle" /\ phase = "off" BY <1>3 DEF ReadStep, Here
  <2>2. CASE pageTa # "freed"
    <3>1. PICK how \in {"well", "bad"} : Outcome(how) BY <1>3, <2>2 DEF ReadStep
    <3> QED BY <1>0, <1>1, <2>1, <3>1, OutcomeLeads, PlaceKeeps
  <2>3. CASE pageTa = "freed"
    <3>1. at' = "broken" BY <1>3, <2>3 DEF ReadStep, Goes
    <3> QED BY <1>0, <1>1, <2>1, <2>3, <3>1, PlaceKeeps DEF Places
  <2> QED BY <2>2, <2>3
<1>4. CASE Branch
  <2>1. /\ at = "branch" /\ at' \in (DOMAIN Chart) \cup {"error"}
    BY <1>4 DEF Branch, Goes
  <2>2. /\ handler \in DOMAIN Charts /\ phase = "off" /\ pageTa # "none"
    BY <2>1 DEF PInv, Control, SavesOnly, PageTaSet
  <2>3. at' \in Places \ {"idle", "do_page", "saving", "broken"}
    BY <2>1, <2>2, ChartIsPart DEF Special, Places
  <2>4. stage = "idle" BY <2>1, <2>2, ChartIsPart DEF PInv, CallsFromHere, Special
  <2> QED BY <1>0, <1>1, <2>2, <2>3, <2>4, PlaceKeeps
<1> QED BY <1>2, <1>3, <1>4

LEMMA StartKeeps == ASSUME PInv, SInv', NEW a \in Actions, DoPage(a) PROVE PInv'
<1>1. /\ at = "idle" /\ at' = "do_page" /\ page' = a /\ opening' = a /\ stage' = "lookup"
      /\ page = NoAction /\ UNCHANGED <<handler, phase, pageTa, datum, notices>>
  BY DEF DoPage, StartPage, Goes, save, datums
<1>2. pageTa = "none" /\ phase = "off"
  BY <1>1, OpenTableConstants DEF PInv, SInv, IInv, TypeOK, SavesOnly
<1>3. at' \notin DOMAIN Chart /\ Chart' = Chart
  BY <1>1, ChartIsPart DEF PInv, Control, Special, Chart
<1> QED
  BY <1>1, <1>2, <1>3 DEF PInv, Control, Places, SavesOnly, PageTaSet, CallsFromHere, OpensThis,
    BrokenIsFreed, StaleDatumIsAnnounced

LEMMA DoPageOpenedKeeps == ASSUME PInv, SInv', DoPageOpened PROVE PInv'
<1>1. /\ at = "do_page" /\ stage' = "idle" /\ handler' = handler /\ phase' = phase
      /\ opening = page /\ pageTa = "none" /\ phase = "off"
  BY DEF DoPageOpened, Return, Goes, save, PInv, SavesOnly, PageTaSet
<1>2. /\ datum' \in {"none", "true", "stale"} /\ notices' \subseteq {"sent", "received"}
      /\ StaleDatumIsAnnounced'
  BY DEF DoPageOpened, datums, CatchNotifies, PInv, Control, StaleDatumIsAnnounced
<1>3. CASE Opened /\ at' \in {"start", "error"}
  <2>1. pageTa' = "held" BY <1>1, <1>3 DEF DoPageOpened, KeepPageTa
  <2>2. "start" \in DOMAIN Chart BY ChartIsPart DEF PInv, Control
  <2> QED BY <1>1, <1>2, <1>3, <2>1, <2>2, PlaceKeeps DEF Places
<1>4. CASE at' = "error"
  <2>1. at' \notin DOMAIN Chart /\ Chart' = Chart
    BY <1>1, <1>4, ChartIsPart DEF PInv, Control, Special, Chart
  <2> QED
    BY <1>1, <1>2, <1>4, <2>1 DEF PInv, Control, Places, SavesOnly, PageTaSet, CallsFromHere,
      OpensThis, BrokenIsFreed
<1> QED BY <1>3, <1>4 DEF DoPageOpened, Goes

\* A call of the handler's: Ta is what it opens.
LEMMA CallKeepsPage == ASSUME PInv, SInv', OpenStep \/ CallbackStep PROVE PInv'
<1>1. /\ at \in DOMAIN Chart /\ phase = "off"
      /\ UNCHANGED <<handler, at, phase, page, pageTa, datum, notices>>
  BY DEF OpenStep, CallbackStep, Here, Call, save, control, datums
<1>2. Chart' = Chart /\ Ta' = Ta BY <1>1 DEF Chart, Ta
<1>3. Chart[at].do = "open" => opening' = Ta BY DEF OpenStep, CallbackStep, Here, Call
<1>4. at \notin Special BY <1>1, ChartLeads DEF PInv, Control
<1>5. OpensThis' BY <1>1, <1>2, <1>3 DEF OpensThis
<1> QED
  BY <1>1, <1>2, <1>4, <1>5 DEF PInv, Control, Places, SavesOnly, PageTaSet, CallsFromHere,
    BrokenIsFreed, StaleDatumIsAnnounced, Special

\* While a handler opens its own table_action again, only the loss of the
\* entry that h->page_ta points to makes open_table return NULL.
LEMMA OpenedKeeps == ASSUME PInv, SInv', OpenedStep \/ CallbackOpened PROVE PInv'
<1>1. /\ at \in DOMAIN Chart /\ stage # "idle" /\ stage' = "idle"
      /\ UNCHANGED <<phase, pageTa, datum, notices>>
  BY DEF OpenedStep, CallbackOpened, Return, save, datums
<1>2. PICK how \in {"well", "null"} :
        /\ Outcome(how)
        /\ how = "null" => ~Opened /\ Chart[at].do = "open"
  BY DEF OpenedStep, CallbackOpened
<1>3. /\ handler' = handler /\ at' \in Places \ {"idle", "do_page", "saving"}
      /\ at' = "broken" => how = "null" /\ Chart[at].ta = This
      /\ pageTa # "none" /\ phase = "off"
  BY <1>1, <1>2, OutcomeLeads
<1>4. ASSUME at' = "broken" PROVE pageTa = "freed"
  <2>1. opening = page BY <1>1, <1>2, <1>3, <1>4 DEF PInv, OpensThis, Ta
  <2>2. cache[page] = Nothing BY <1>2, <1>3, <1>4, <2>1 DEF Opened
  <2> QED BY <1>3, <2>2 DEF PInv, SInv, IInv, TypeOK, HeldWasOpened
<1> QED BY <1>1, <1>3, <1>4, PlaceKeeps DEF PInv, Control, StaleDatumIsAnnounced

LEMMA OpenTableKeepsPage == ASSUME PInv, SInv', OpenTableStep PROVE PInv'
<1>1. /\ stage # "idle" /\ UNCHANGED <<handler, at, phase, page, opening, datum, notices>>
      /\ pageTa' = pageTa \/ (pageTa = "held" /\ pageTa' = "freed")
      /\ stage' # "idle"
  BY DEF OpenTableStep, OpenTable, Lookup, CloseTable, Fetch, Prepare, save, control, datums
<1>2. Chart' = Chart /\ Ta' = Ta BY <1>1 DEF Chart, Ta
<1>3. OpensThis' BY <1>1, <1>2 DEF PInv, OpensThis
<1> QED
  BY <1>1, <1>2, <1>3 DEF PInv, Control, Places, SavesOnly, PageTaSet, CallsFromHere,
    BrokenIsFreed, StaleDatumIsAnnounced

LEMMA SavingKeeps == ASSUME PInv, SInv', SaveBegin \/ Saving PROVE PInv'
<1>0. handler' = handler /\ UNCHANGED <<datum, notices>> /\ Chart' = Chart
  BY DEF SaveBegin, Saving, Goes, datums, Chart
<1>1. CASE SaveBegin
  <2>1. /\ at \in DOMAIN Chart /\ Chart[at].do = "save" /\ at' = "saving" /\ phase' = "rows"
        /\ UNCHANGED <<stage, pageTa, page>> /\ pageTa # "none"
    BY <1>1 DEF SaveBegin, Here, Begin, TxOnly, entries, Goes
  <2>2. "menus" \in DOMAIN Chart /\ "saving" \notin DOMAIN Chart
    BY <2>1, ChartLeads, ChartIsPart DEF PInv, Control, Special
  <2> QED
    BY <1>0, <2>1, <2>2 DEF PInv, Control, Places, SavesOnly, PageTaSet, CallsFromHere,
      OpensThis, BrokenIsFreed, StaleDatumIsAnnounced
<1>2. CASE Saving
  <2>1. /\ at = "saving" /\ SaveStep /\ at' = IF phase' = "off" THEN "menus" ELSE at
        /\ pageTa # "none" /\ pageTa' = pageTa
    <3>1. at = "saving" /\ SaveStep /\ at' = IF phase' = "off" THEN "menus" ELSE at
      BY <1>2 DEF Saving, Goes
    <3>2. pageTa # "none" BY <3>1 DEF PInv, PageTaSet
    <3>3. pageTa' = pageTa
      BY <3>1 DEF SaveStep, Row, NoChange, LastRow, RowOpened, RunRow, Commit, CommitLost, Rollback,
        Call, TxOnly, tables, entries
    <3> QED BY <3>1, <3>2, <3>3
  <2>2. "menus" \in DOMAIN Chart /\ "saving" \notin DOMAIN Chart
    BY <2>1, ChartIsPart DEF PInv, Control, SavesOnly, Special
  <2>3. "menus" \notin Special BY <2>2, ChartIsPart DEF PInv, Control
  <2>4. CASE phase' = "off"
    <3>1. stage' = "idle"
      BY <2>1, <2>4 DEF SaveStep, Row, NoChange, LastRow, RowOpened, RunRow, Commit, CommitLost,
        Rollback, Goto, NextRow, TxOnly, entries, Finish, RowFailed, PInv, SInv, Handling
    <3> QED
      BY <1>0, <2>1, <2>2, <2>4, <3>1, PlaceKeeps DEF Places, PInv, Control,
        StaleDatumIsAnnounced
  <2>5. CASE phase' # "off"
    BY <1>0, <2>1, <2>2, <2>5 DEF PInv, Control, Places, SavesOnly, PageTaSet, CallsFromHere,
      OpensThis, BrokenIsFreed, StaleDatumIsAnnounced
  <2> QED BY <2>4, <2>5
<1> QED BY <1>1, <1>2

LEMMA IdleKeeps == ASSUME PInv, SInv', Leave \/ LogInAgain PROVE PInv'
<1>1. /\ at' = "idle" /\ handler' = handler /\ stage' = stage /\ phase' = phase
      /\ at \in {"idle", "done", "error", "broken"}
  BY DEF Leave, LogInAgain, Forget, Goes, control, save, EndPage, NewSession
<1>2. Chart' = Chart BY <1>1 DEF Chart
<1>3. stage = "idle" /\ phase = "off" /\ "idle" \notin DOMAIN Chart
  BY <1>1, ChartIsPart DEF PInv, Control, CallsFromHere, SavesOnly, Special
<1>4. datum' \in {"none", "true", "stale"} /\ notices' \subseteq {"sent", "received"}
      /\ StaleDatumIsAnnounced'
  BY DEF Leave, LogInAgain, datums, PInv, Control, StaleDatumIsAnnounced
<1> QED
  BY <1>1, <1>2, <1>3, <1>4 DEF PInv, Control, Places, SavesOnly, PageTaSet, CallsFromHere,
    OpensThis, BrokenIsFreed

LEMMA PagesNextPInv == PInv /\ [PagesNext]_all => PInv'
<1> SUFFICES ASSUME PInv, [PagesNext]_all PROVE PInv' OBVIOUS
<1>0. SInv' BY PagesNextIsSaveNext, SaveNextSInv DEF PInv
<1>1. CASE UNCHANGED all
  <2>1. UNCHANGED <<control, save, page, stage, opening, pageTa, datum, notices>>
    BY <1>1 DEF all, vars, tables, entries, datums
  <2>2. StaleDatumIsAnnounced' BY <2>1 DEF PInv, StaleDatumIsAnnounced
  <2> QED BY <1>0, <2>1, <2>2, AtKeeps DEF PInv, Control
<1> QED
  BY <1>0, <1>1, OthersKeepPage, LocalKeeps, StartKeeps, DoPageOpenedKeeps, CallKeepsPage,
    OpenedKeeps, OpenTableKeepsPage, SavingKeeps, IdleKeeps DEF PagesNext, PageStep

LEMMA PagesSpecPInv == PagesSpec => []PInv
BY InitPInv, PagesNextPInv, PTL DEF PagesSpec

-----------------------------------------------------------------------------
(* What follows *)

THEOREM PagesTypesCorrect == PagesSpec => []PagesTypeOK
<1>1. PInv => PagesTypeOK BY DEF PInv, Control, SInv, IInv, PagesTypeOK
<1> QED BY <1>1, PagesSpecPInv, PTL

\* Whatever its chart, a page does with the open tables and the transaction
\* what GridSave allows: its theorems and those of OpenTables hold of pages.
THEOREM PagesAreHandlers == PagesSpec => SaveSpec
<1>1. PInv /\ [PagesNext]_all => [SaveNext]_vars BY PagesNextIsSaveNext
<1> QED BY <1>1, PagesSpecPInv, PTL DEF PagesSpec, SaveSpec

\* A handler of output.c's kinds follows no freed or NULL table_action unless
\* another user has changed the row of the page's own action, or it has etag 0.
THEOREM BrokenPages == PagesSpec => []BrokenOnlyByChange
<1>1. PInv => BrokenOnlyByChange
  BY DEF PInv, BrokenIsFreed, SInv, IInv, PageTaFreedByChange, BrokenOnlyByChange
<1> QED BY <1>1, PagesSpecPInv, PTL

\* No stale description of a column outlives the notice of the change.
THEOREM StaleAnnounced == PagesSpec => []StaleDatumIsAnnounced
<1>1. PInv => StaleDatumIsAnnounced BY DEF PInv
<1> QED BY <1>1, PagesSpecPInv, PTL
=============================================================================
